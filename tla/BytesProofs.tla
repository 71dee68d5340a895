----------------------------- MODULE BytesProofs -----------------------------
(***************************************************************************)
(* What the operators on bytes return, for every size of a qword.          *)
(***************************************************************************)
EXTENDS Bytes, TLAPS

LEMMA ByteRange == Byte = 0 .. 255
BY DEF Byte, RADIX

\* Powers of the radix are positive, up to that of a qword.
LEMMA PowerType == \A k \in 0 .. QWORD : RADIX^k \in Nat \ {0}
<1>. DEFINE Good(k) == k \in 0 .. QWORD => RADIX^k \in Nat \ {0}
<1>1. Good(0)
  BY PowerAssumption
<1>2. ASSUME NEW k \in 0 .. 7, Good(k) PROVE Good(k + 1)
  <2>. SUFFICES ASSUME k + 1 \in 0 .. QWORD PROVE RADIX^(k + 1) \in Nat \ {0}
    OBVIOUS
  <2>1. k + 1 \in 1 .. QWORD /\ (k + 1) - 1 = k /\ k \in 0 .. QWORD
    BY QwordAssumption
  <2>2. RADIX^k \in Nat \ {0}
    BY <1>2, <2>1
  <2>3. RADIX^(k + 1) = RADIX * RADIX^k
    BY <2>1, PowerAssumption
  <2>. QED  BY <2>2, <2>3 DEF RADIX
<1>. HIDE DEF Good
<1>3. Good(1) /\ Good(2) /\ Good(3) /\ Good(4)
  <2>1. Good(0 + 1)
    BY <1>1, <1>2
  <2>2. Good(1 + 1)
    BY <1>2, <2>1
  <2>3. Good(2 + 1)
    BY <1>2, <2>2
  <2>4. Good(3 + 1)
    BY <1>2, <2>3
  <2>. QED  BY <2>1, <2>2, <2>3, <2>4
<1>4. Good(5) /\ Good(6) /\ Good(7) /\ Good(8)
  <2>1. Good(4 + 1)
    BY <1>3, <1>2
  <2>2. Good(5 + 1)
    BY <1>2, <2>1
  <2>3. Good(6 + 1)
    BY <1>2, <2>2
  <2>4. Good(7 + 1)
    BY <1>2, <2>3
  <2>. QED  BY <2>1, <2>2, <2>3, <2>4
<1>5. \A k \in 0 .. QWORD : k \in {0, 1, 2, 3, 4, 5, 6, 7, 8}
  BY QwordAssumption
<1>. QED  BY <1>1, <1>3, <1>4, <1>5 DEF Good

\* A number cut into bytes is a block of bytes, negative numbers included.
LEMMA LEType ==
    ASSUME NEW x \in Int, NEW n \in 0 .. QWORD
    PROVE  LE(x, n) \in [0 .. n - 1 -> Byte]
<1>1. ASSUME NEW i \in 0 .. n - 1
      PROVE  (x \div RADIX^i) % RADIX \in Byte
  <2>1. i \in 0 .. QWORD
    BY QwordAssumption
  <2>2. RADIX^i \in Nat \ {0}
    BY <2>1, PowerType
  <2>3. \A p \in Nat \ {0} : (x \div p) % 256 \in 0 .. 255
    OBVIOUS
  <2>. QED  BY <2>2, <2>3 DEF RADIX, Byte
<1>. QED  BY <1>1 DEF LE

\* One step of Horner's rule.
LEMMA HornerStep ==
    ASSUME NEW x \in Nat, NEW y \in Nat
    PROVE  x + RADIX * y \in Nat
BY DEF RADIX

\* A block of bytes holds a natural number.
LEMMA NumType ==
    ASSUME NEW n \in Nat, NEW block \in [0 .. n - 1 -> Byte]
    PROVE  Num(block, n) \in Nat
<1>. DEFINE d(i) == IF i < n THEN block[i] ELSE 0
            up(i, high) == d(i) + RADIX * high
<1>1. ASSUME NEW i \in Nat
      PROVE  d(i) \in Nat
  <2>1. CASE i < n
    <3>1. block[i] \in Byte
      BY <2>1
    <3>2. Byte \subseteq Nat
      BY DEF Byte, RADIX
    <3>3. d(i) = block[i]
      BY <2>1
    <3>. QED  BY <3>1, <3>2, <3>3
  <2>2. CASE ~(i < n)
    BY <2>2
  <2>. QED  BY <2>1, <2>2
<1>2. \A i \in Nat : \A high \in Nat : up(i, high) \in Nat
  BY <1>1, HornerStep
<1>3. d(7) \in Nat
  BY <1>1
<1>. HIDE DEF d, up
<1>4. up(6, d(7)) \in Nat
  BY <1>2, <1>3
<1>5. up(5, up(6, d(7))) \in Nat
  BY <1>2, <1>4
<1>6. up(4, up(5, up(6, d(7)))) \in Nat
  BY <1>2, <1>5
<1>7. up(3, up(4, up(5, up(6, d(7))))) \in Nat
  BY <1>2, <1>6
<1>8. up(2, up(3, up(4, up(5, up(6, d(7)))))) \in Nat
  BY <1>2, <1>7
<1>9. up(1, up(2, up(3, up(4, up(5, up(6, d(7))))))) \in Nat
  BY <1>2, <1>8
<1>10. up(0, up(1, up(2, up(3, up(4, up(5, up(6, d(7)))))))) \in Nat
  BY <1>2, <1>9
<1>. QED  BY <1>10 DEF Num, up, d

\* A block taken from inside the memory consists of bytes.
LEMMA SliceType ==
    ASSUME NEW size \in Nat, NEW m \in [0 .. size - 1 -> Byte],
           NEW n \in Int, NEW at \in Nat, n <= 0 \/ at + n <= size
    PROVE  Slice(m, at, n) \in [0 .. n - 1 -> Byte]
BY DEF Slice

\* Eight bits make a byte.
LEMMA JoinType ==
    ASSUME NEW bit \in [0 .. 7 -> 0 .. 1]
    PROVE  Join(bit) \in Byte
<1>1. \A k \in 0 .. 7 : bit[k] \in 0 .. 1
  OBVIOUS
<1>. QED  BY <1>1 DEF Join, Byte, RADIX

LEMMA BitType ==
    ASSUME NEW x \in Byte, NEW k \in 0 .. 7
    PROVE  Bit(x, k) \in 0 .. 1
<1>1. <<1, 2, 4, 8, 16, 32, 64, 128>>[k + 1] \in Nat \ {0}
  <2>1. k \in {0, 1, 2, 3, 4, 5, 6, 7}
    OBVIOUS
  <2>. QED  BY <2>1
<1>2. \A p \in Nat \ {0} : (x \div p) % 2 \in 0 .. 1
  BY DEF Byte, RADIX
<1>. QED  BY <1>1, <1>2 DEF Bit

\* The bitwise operators return blocks of the length they are given.
LEMMA AndOrType ==
    ASSUME NEW n \in Int, NEW x \in [0 .. n - 1 -> Byte], NEW y \in [0 .. n - 1 -> Byte]
    PROVE  And(x, y) \in [0 .. n - 1 -> Byte] /\ Or(x, y) \in [0 .. n - 1 -> Byte]
<1>1. ASSUME NEW i \in 0 .. n - 1
      PROVE  /\ Join([k \in 0 .. 7 |-> Bit(x[i], k) * Bit(y[i], k)]) \in Byte
             /\ Join([k \in 0 .. 7 |->
                        IF Bit(x[i], k) + Bit(y[i], k) > 0 THEN 1 ELSE 0]) \in Byte
  <2>1. \A k \in 0 .. 7 : Bit(x[i], k) \in 0 .. 1 /\ Bit(y[i], k) \in 0 .. 1
    BY BitType
  <2>2. [k \in 0 .. 7 |-> Bit(x[i], k) * Bit(y[i], k)] \in [0 .. 7 -> 0 .. 1]
    <3>1. \A u, v \in 0 .. 1 : u * v \in 0 .. 1
      OBVIOUS
    <3>. QED  BY <2>1, <3>1
  <2>3. [k \in 0 .. 7 |-> IF Bit(x[i], k) + Bit(y[i], k) > 0 THEN 1 ELSE 0]
            \in [0 .. 7 -> 0 .. 1]
    OBVIOUS
  <2>. QED  BY <2>2, <2>3, JoinType
<1>. QED  BY <1>1 DEF And, Or

----------------------------------------------------------------------------
(* Quotients and remainders *)

LEMMA Monotone ==
    ASSUME NEW d \in Nat \ {0}, NEW q \in Int, NEW p \in Int, q < p
    PROVE  d * q + d <= d * p
<1>1. p - q \in Nat \ {0}
  OBVIOUS
<1>2. \A a, b \in Nat \ {0} : a <= a * b
  OBVIOUS
<1>3. d <= d * (p - q)
  BY <1>1, <1>2
<1>4. d * (p - q) = d * p - d * q
  OBVIOUS
<1>5. d * p \in Int /\ d * q \in Int
  OBVIOUS
<1>. QED  BY <1>3, <1>4, <1>5

\* q is the quotient and s the remainder of x by d.
Splits(x, d, q, s) == q \in Int /\ s \in 0 .. d - 1 /\ x = d * q + s

LEMMA Division ==
    ASSUME NEW x \in Int, NEW d \in Nat \ {0}
    PROVE  Splits(x, d, x \div d, x % d)
<1> DEFINE q == x \div d
           r == x % d
<1>1. q \in Int /\ r \in 0 .. d - 1
  OBVIOUS
<1>2. r = x - d * q
  <2>1. \A z, e \in Int : e > 0 => z % e = z - e * (z \div e)
    OBVIOUS
  <2>. QED  BY <2>1
<1>. HIDE DEF q, r
<1>3. d * q \in Int
  BY <1>1
<1>4. Splits(x, d, q, r)
  BY <1>1, <1>2, <1>3 DEF Splits
<1>. QED  BY <1>4 DEF q, r

LEMMA SplitsOnce ==
    ASSUME NEW x \in Int, NEW d \in Nat \ {0}, NEW q, NEW s, Splits(x, d, q, s)
    PROVE  x \div d = q /\ x % d = s
<1>1. PICK p, t : Splits(x, d, p, t) /\ p = x \div d /\ t = x % d
  BY Division
<1>2. /\ p \in Int /\ q \in Int /\ t \in 0 .. d - 1 /\ s \in 0 .. d - 1
      /\ x = d * p + t /\ x = d * q + s /\ d * p \in Int /\ d * q \in Int
  <2>1. /\ p \in Int /\ q \in Int /\ t \in 0 .. d - 1 /\ s \in 0 .. d - 1
        /\ x = d * p + t /\ x = d * q + s
    BY <1>1 DEF Splits
  <2>2. d * p \in Int /\ d * q \in Int
    BY <2>1
  <2>. QED  BY <2>1, <2>2
<1>3. ~(q < p)
  <2>1. q < p => d * q + d <= d * p
    BY <1>2, Monotone
  <2>. QED  BY <1>2, <2>1
<1>4. ~(p < q)
  <2>1. p < q => d * p + d <= d * q
    BY <1>2, Monotone
  <2>. QED  BY <1>2, <2>1
<1>5. p = q
  BY <1>2, <1>3, <1>4
<1>6. t = s
  BY <1>2, <1>5
<1>. QED  BY <1>1, <1>5, <1>6

\* Dividing by a product is dividing by its factors, one after the other.
DividesTwice(x, b, m) ==
    /\ b * m \in Nat \ {0}
    /\ x \div (b * m) = (x \div b) \div m
    /\ x % (b * m) = (x % b) + b * ((x \div b) % m)

LEMMA Horner ==
    ASSUME NEW x \in Int, NEW b \in Nat \ {0}, NEW m \in Nat \ {0}
    PROVE  DividesTwice(x, b, m)
<1>1. PICK y, a : Splits(x, b, y, a) /\ y = x \div b /\ a = x % b
  BY Division
<1>2. y \in Int /\ a \in 0 .. b - 1 /\ x = b * y + a
  BY <1>1 DEF Splits
<1>3. PICK q, r : Splits(y, m, q, r) /\ q = y \div m /\ r = y % m
  BY <1>2, Division
<1>4. q \in Int /\ r \in 0 .. m - 1 /\ y = m * q + r
  BY <1>3 DEF Splits
<1>5. b * m \in Nat \ {0}
  OBVIOUS
<1>6. PICK D \in Nat \ {0} : D = b * m
  BY <1>5
<1>7. PICK e \in Nat : e = b * r /\ e + b <= D
  <2>1. b * r \in Nat /\ r \in Int /\ r < m
    BY <1>4
  <2>2. b * r + b <= b * m
    BY <2>1, Monotone
  <2>. QED  BY <1>6, <2>1, <2>2
<1>8. Splits(x, D, q, e + a)
  <2>1. b * (m * q + r) = b * (m * q) + b * r
    BY <1>4
  <2>2. b * (m * q) = (b * m) * q
    BY <1>4
  <2>3. x = D * q + e + a /\ D * q \in Int
    BY <1>2, <1>4, <1>6, <1>7, <2>1, <2>2
  <2>. QED  BY <1>2, <1>4, <1>7, <2>3 DEF Splits
<1>9. x \div D = q /\ x % D = e + a
  BY <1>8, SplitsOnce
<1>10. x % D = a + e
  BY <1>2, <1>7, <1>9
<1>. QED  BY <1>1, <1>3, <1>5, <1>6, <1>7, <1>9, <1>10 DEF DividesTwice

\* What is left of a number above its i low bytes.
High(x, i) == x \div RADIX^i

LEMMA HighType ==
    ASSUME NEW x \in Int, NEW i \in 0 .. QWORD
    PROVE  High(x, i) \in Int
<1>1. PICK p \in Nat \ {0} : p = RADIX^i
  BY PowerType
<1>2. x \div p \in Int
  OBVIOUS
<1>. QED  BY <1>1, <1>2 DEF High

\* Its k low bytes, one split off.
LEMMA LowBytes ==
    ASSUME NEW x \in Int, NEW i \in Nat, NEW k \in Nat, i + k + 1 <= QWORD
    PROVE  High(x, i) % RADIX^(k + 1)
              = (High(x, i) % 256) + 256 * (High(x, i + 1) % RADIX^k)
<1>1. /\ i + 1 \in 1 .. QWORD /\ k + 1 \in 1 .. QWORD /\ i \in 0 .. QWORD /\ k \in 0 .. QWORD
      /\ (i + 1) - 1 = i /\ (k + 1) - 1 = k
  BY QwordAssumption
<1>2. PICK p \in Nat \ {0} : p = RADIX^i
  BY <1>1, PowerType
<1>3. PICK m \in Nat \ {0} : m = RADIX^k
  BY <1>1, PowerType
<1>4. PICK b \in Nat \ {0} : b = 256
  OBVIOUS
<1>5. RADIX^(i + 1) = p * b /\ RADIX^(k + 1) = b * m
  BY <1>1, <1>2, <1>3, <1>4, PowerAssumption DEF RADIX
<1>6. PICK y \in Int : y = x \div p
  OBVIOUS
<1>7. DividesTwice(x, p, b) /\ DividesTwice(y, b, m)
  BY <1>6, Horner
<1>8. x \div (p * b) = y \div b
  BY <1>6, <1>7 DEF DividesTwice
<1>9. y % (b * m) = (y % b) + b * ((y \div b) % m)
  BY <1>7 DEF DividesTwice
<1>. QED  BY <1>2, <1>3, <1>4, <1>5, <1>6, <1>8, <1>9 DEF High

\* Numbers are cut to their width as they are written and read again, those
\* below zero to their two's complement.
LEMMA NumLE ==
    ASSUME NEW x \in Int, NEW w \in 0 .. QWORD
    PROVE  Num(LE(x, w), w) = x % RADIX^w
<1> DEFINE d(i) == IF i < w THEN LE(x, w)[i] ELSE 0
           \* What is left from byte i on.
           T(i) == IF i < w THEN High(x, i) % RADIX^(w - i) ELSE 0
<1>. w \in Nat /\ w <= 8
  BY QwordAssumption
<1>1. ASSUME NEW i \in 0 .. 7
      PROVE  T(i) = d(i) + 256 * T(i + 1)
  <2>1. CASE i >= w
    BY <2>1
  <2>2. CASE i < w
    <3>1. PICK k \in Nat : k = w - i - 1
      BY <2>2
    <3>2. i + k + 1 <= QWORD /\ w - i = k + 1 /\ w - (i + 1) = k /\ i \in Nat
      BY <3>1, QwordAssumption
    <3>3. T(i) = (High(x, i) % 256) + 256 * (High(x, i + 1) % RADIX^k)
      <4>1. T(i) = High(x, i) % RADIX^(k + 1)
        BY <2>2, <3>2
      <4>. QED  BY <3>2, <4>1, LowBytes
    <3>4. d(i) = High(x, i) % 256
      BY <2>2 DEF LE, High, RADIX
    <3>5. T(i + 1) = High(x, i + 1) % RADIX^k
      <4>1. CASE k = 0
        <5>1. i + 1 \in 0 .. QWORD
          BY <2>2, <3>2, QwordAssumption
        <5>2. PICK y \in Int : y = High(x, i + 1)
          BY <5>1, HighType
        <5>3. y % 1 = 0
          OBVIOUS
        <5>. QED  BY <3>2, <4>1, <5>2, <5>3, PowerAssumption
      <4>2. CASE k # 0
        BY <3>1, <3>2, <4>2
      <4>. QED  BY <4>1, <4>2
    <3>. QED  BY <3>3, <3>4, <3>5
  <2>. QED  BY <2>1, <2>2
<1>2. T(8) = 0
  OBVIOUS
<1>3. T(0) = x % RADIX^w
  <2>1. x \div 1 = x /\ x % 1 = 0
    OBVIOUS
  <2>. QED  BY <2>1, PowerAssumption DEF High
<1>4. Num(LE(x, w), w)
        = d(0) + 256 * (d(1) + 256 * (d(2) + 256 * (d(3) + 256 * (d(4)
             + 256 * (d(5) + 256 * (d(6) + 256 * d(7)))))))
  BY DEF Num, RADIX
<1>5. \A i \in 0 .. 7 : d(i) \in Int
  <2>1. \A i \in 0 .. w - 1 : High(x, i) \in Int
    BY HighType, QwordAssumption
  <2>2. \A i \in 0 .. w - 1 : LE(x, w)[i] = High(x, i) % 256
    BY DEF LE, High, RADIX
  <2>. QED  BY <2>1, <2>2
<1>. HIDE DEF d, T
<1>6. /\ T(0) = d(0) + 256 * T(1) /\ T(1) = d(1) + 256 * T(2)
      /\ T(2) = d(2) + 256 * T(3) /\ T(3) = d(3) + 256 * T(4)
      /\ T(4) = d(4) + 256 * T(5) /\ T(5) = d(5) + 256 * T(6)
      /\ T(6) = d(6) + 256 * T(7) /\ T(7) = d(7) + 256 * T(8)
  <2>1. /\ T(0) = d(0) + 256 * T(0 + 1) /\ T(1) = d(1) + 256 * T(1 + 1)
        /\ T(2) = d(2) + 256 * T(2 + 1) /\ T(3) = d(3) + 256 * T(3 + 1)
        /\ T(4) = d(4) + 256 * T(4 + 1) /\ T(5) = d(5) + 256 * T(5 + 1)
        /\ T(6) = d(6) + 256 * T(6 + 1) /\ T(7) = d(7) + 256 * T(7 + 1)
    BY <1>1
  <2>. QED  BY <2>1
<1>7. /\ d(0) \in Int /\ d(1) \in Int /\ d(2) \in Int /\ d(3) \in Int
      /\ d(4) \in Int /\ d(5) \in Int /\ d(6) \in Int /\ d(7) \in Int
  BY <1>5
<1>. QED  BY <1>2, <1>3, <1>4, <1>6, <1>7

\* A block of n bytes holds less than 256^n.
LEMMA NumBound ==
    ASSUME NEW w \in 0 .. QWORD, NEW block \in [0 .. w - 1 -> Byte]
    PROVE  Num(block, w) < RADIX^w
<1> DEFINE d(i) == IF i < w THEN block[i] ELSE 0
           p(i) == IF i < w THEN RADIX^(w - i) ELSE 1
<1>. w \in Nat /\ w <= 8
  BY QwordAssumption
<1>1. \A i \in 0 .. 7 : d(i) \in Nat /\ d(i) <= 255
  <2>1. \A x \in Byte : x \in Nat /\ x <= 255
    BY ByteRange
  <2>2. \A i \in 0 .. w - 1 : block[i] \in Nat /\ block[i] <= 255
    BY <2>1
  <2>. QED  BY <2>2
<1>2. ASSUME NEW i \in 0 .. 7, NEW high \in Nat, high <= p(i + 1) - 1
      PROVE  d(i) + 256 * high \in Nat /\ d(i) + 256 * high <= p(i) - 1
  <2>1. CASE i >= w
    BY <1>2, <2>1
  <2>2. CASE i < w
    <3>1. PICK k \in Nat : k = w - i
      BY <2>2
    <3>2. k \in 1 .. QWORD /\ k - 1 \in 0 .. QWORD
      BY <2>2, <3>1, QwordAssumption
    <3>3. RADIX^k = 256 * RADIX^(k - 1)
      BY <3>2, PowerAssumption DEF RADIX
    <3>4. p(i) = RADIX^k
      BY <2>2, <3>1
    <3>5. p(i + 1) = RADIX^(k - 1)
      <4>1. CASE k = 1
        BY <3>1, <4>1, PowerAssumption
      <4>2. CASE k # 1
        <5>1. i + 1 < w /\ w - (i + 1) = k - 1
          BY <3>1, <3>2, <4>2
        <5>. QED  BY <5>1
      <4>. QED  BY <4>1, <4>2
    <3>6. PICK q \in Nat : q = RADIX^(k - 1)
      BY <3>2, PowerType
    <3>7. high <= q - 1 /\ p(i) = 256 * q
      BY <1>2, <3>3, <3>4, <3>5, <3>6
    <3>8. d(i) \in Nat /\ d(i) <= 255
      BY <1>1
    <3>. HIDE DEF d, p
    <3>9. PICK c, h : c = d(i) /\ h = 256 * high
      OBVIOUS
    <3>10. c \in Nat /\ c <= 255 /\ h \in Nat /\ h <= 256 * q - 256
      BY <3>6, <3>7, <3>8, <3>9
    <3>11. c + h \in Nat /\ c + h <= 256 * q - 1
      BY <3>6, <3>10
    <3>. QED  BY <3>7, <3>9, <3>11
  <2>. QED  BY <2>1, <2>2
<1>3. p(8) = 1 /\ p(0) = RADIX^w
  BY PowerAssumption
<1>. DEFINE up(i, high) == d(i) + 256 * high
            u == Num(block, w)
<1>4. u = up(0, up(1, up(2, up(3, up(4, up(5, up(6, up(7, 0))))))))
  <2>1. Num(block, w) = up(0, up(1, up(2, up(3, up(4, up(5, up(6, d(7))))))))
    BY DEF Num, RADIX
  <2>2. d(7) = up(7, 0)
    BY <1>1
  <2>. QED  BY <2>1, <2>2
<1>. HIDE DEF d, p, u
<1>5. \A i \in 0 .. 7 : \A high \in Nat :
         high <= p(i + 1) - 1 => up(i, high) \in Nat /\ up(i, high) <= p(i) - 1
  BY <1>2
<1>. HIDE DEF up
<1>6. up(7, 0) \in Nat /\ up(7, 0) <= p(7) - 1
  <2>1. 0 \in Nat /\ 0 <= p(7 + 1) - 1
    BY <1>3
  <2>. QED  BY <1>5, <2>1
<1>. DEFINE x4 == up(4, up(5, up(6, up(7, 0))))
<1>7. x4 \in Nat /\ x4 <= p(4) - 1
  <2>1. up(6, up(7, 0)) \in Nat /\ up(6, up(7, 0)) <= p(6) - 1
    <3>1. 6 \in 0 .. 7 /\ p(6 + 1) = p(7)
      OBVIOUS
    <3>. QED  BY <1>5, <1>6, <3>1
  <2>2. up(5, up(6, up(7, 0))) \in Nat /\ up(5, up(6, up(7, 0))) <= p(5) - 1
    <3>1. 5 \in 0 .. 7 /\ p(5 + 1) = p(6)
      OBVIOUS
    <3>. QED  BY <1>5, <2>1, <3>1
  <2>3. 4 \in 0 .. 7 /\ p(4 + 1) = p(5)
    OBVIOUS
  <2>. QED  BY <1>5, <2>2, <2>3
<1>. HIDE DEF x4
<1>8. up(2, up(3, x4)) \in Nat /\ up(2, up(3, x4)) <= p(2) - 1
  <2>1. up(3, x4) \in Nat /\ up(3, x4) <= p(3) - 1
    <3>1. 3 \in 0 .. 7 /\ p(3 + 1) = p(4)
      OBVIOUS
    <3>. QED  BY <1>5, <1>7, <3>1
  <2>2. 2 \in 0 .. 7 /\ p(2 + 1) = p(3)
    OBVIOUS
  <2>. QED  BY <1>5, <2>1, <2>2
<1>9. u \in Nat /\ u <= p(0) - 1
  <2>1. up(1, up(2, up(3, x4))) \in Nat /\ up(1, up(2, up(3, x4))) <= p(1) - 1
    <3>1. 1 \in 0 .. 7 /\ p(1 + 1) = p(2)
      OBVIOUS
    <3>. QED  BY <1>5, <1>8, <3>1
  <2>2. 0 \in 0 .. 7 /\ p(0 + 1) = p(1)
    OBVIOUS
  <2>. QED  BY <1>4, <1>5, <2>1, <2>2 DEF x4
<1>10. PICK P \in Nat : P = RADIX^w
  BY PowerType
<1>. QED  BY <1>3, <1>9, <1>10 DEF u

=============================================================================

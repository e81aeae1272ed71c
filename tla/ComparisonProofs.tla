-------------------------- MODULE ComparisonProofs --------------------------
(***************************************************************************)
(* For every odd prime, every pair of values in its field and every random *)
(* number that is drawn, the protocols of CompareAndSwap put their inputs  *)
(* in order.                                                               *)
(*                                                                         *)
(* Each protocol has a contract: when a call of it is Proper, and what a   *)
(* result must be to meet the call (Meets); for most of them a result is   *)
(* a share of a value that follows from the arguments (Promised).  At says *)
(* of each stage of a protocol what it keeps in its fields and which calls *)
(* it has launched for which values.  GateInv is that this is so of every  *)
(* protocol on the stack: the calls that have run have met what was        *)
(* promised (FrameOK), and each protocol waits for the one above it        *)
(* (StackOK).                                                              *)
(*                                                                         *)
(* What is left is, stage by stage, arithmetic: which bit of the sum of a  *)
(* number and a random one is that of the number, that the highest bit in  *)
(* which two numbers differ tells which one is greater, and that a number  *)
(* is less than half of the prime if its double is even.                   *)
(***************************************************************************)
EXTENDS CompareAndSwap, SequenceLemmas

-----------------------------------------------------------------------------
(***************************************************************************)
(* Arithmetic modulo a number, and modulo a prime.                         *)
(***************************************************************************)

\* What division with remainder gives.
LEMMA Division ==
  ASSUME NEW p \in Nat \ {0}, NEW x \in Int
  PROVE  /\ x \div p \in Int
         /\ x % p \in 0..(p - 1)
         /\ x = p * (x \div p) + (x % p)
OBVIOUS

\* Quotient and remainder are unique, ...
LEMMA RemainderIsUnique ==
  ASSUME NEW p \in Nat \ {0}, NEW a \in Int, NEW b \in Int, NEW r \in 0..(p - 1), NEW s \in 0..(p - 1),
         p * a + r = p * b + s
  PROVE  r = s
<1>1. p * (a - b) = s - r
  OBVIOUS
<1>2. CASE a - b >= 1
  <2>1. p * (a - b) >= p
    BY <1>2
  <2> QED BY <2>1, <1>1
<1>3. CASE a - b <= -1
  <2>1. p * (b - a) >= p
    BY <1>3
  <2>2. p * (b - a) = r - s
    OBVIOUS
  <2> QED BY <2>1, <2>2
<1>4. CASE a - b = 0
  BY <1>4, <1>1
<1> QED
  BY <1>2, <1>3, <1>4

\* ... so that any way to write a number gives its remainder.
LEMMA RemainderIs ==
  ASSUME NEW p \in Nat \ {0}, NEW x \in Int, NEW q \in Int, NEW r \in 0..(p - 1), x = p * q + r
  PROVE  x % p = r
BY Division, RemainderIsUnique

\* Multiples of the modulus do not matter.
LEMMA ModShift ==
  ASSUME NEW p \in Nat \ {0}, NEW x \in Int, NEW q \in Int
  PROVE  (x + p * q) % p = x % p
<1>1. PICK d \in Int, r \in 0..(p - 1) : d = x \div p /\ r = x % p /\ x = p * d + r
  BY Division
<1>2. p * (d + q) = p * d + p * q
  OBVIOUS
<1>3. x + p * q = p * (d + q) + r
  BY <1>1, <1>2
<1>4. x + p * q \in Int /\ d + q \in Int
  OBVIOUS
<1> QED
  BY <1>1, <1>3, <1>4, RemainderIs

\* Remainders may be taken of the parts of a sum and of a product.
LEMMA ModOfSum ==
  ASSUME NEW p \in Nat \ {0}, NEW x \in Int, NEW y \in Int
  PROVE  ((x % p) + y) % p = (x + y) % p
<1>1. PICK d \in Int, r \in 0..(p - 1) : r = x % p /\ x = p * d + r
  BY Division
<1>2. x + y = (r + y) + p * d
  BY <1>1
<1>3. ((r + y) + p * d) % p = (r + y) % p
  <2>1. r + y \in Int
    OBVIOUS
  <2> QED BY <2>1, ModShift
<1> QED
  BY <1>1, <1>2, <1>3

\* A factor may be reduced first.
LEMMA ModOfProduct ==
  ASSUME NEW p \in Nat \ {0}, NEW x \in Int, NEW y \in Int
  PROVE  ((x % p) * y) % p = (x * y) % p
<1>1. PICK d \in Int, r \in 0..(p - 1) : r = x % p /\ x = p * d + r
  BY Division
<1>2. x * y = r * y + p * (d * y)
  BY <1>1
<1>3. (r * y + p * (d * y)) % p = (r * y) % p
  <2>1. r * y \in Int /\ d * y \in Int
    OBVIOUS
  <2> QED BY <2>1, ModShift
<1> QED
  BY <1>1, <1>2, <1>3

\* The remainders of numbers that are not much larger than the modulus.
LEMMA SmallRemainders ==
  ASSUME NEW p \in Nat \ {0}, NEW x \in Int
  PROVE  /\ 0 <= x /\ x < p => x % p = x
         /\ p <= x /\ x < 2 * p => x % p = x - p
         /\ 2 * p <= x /\ x < 3 * p => x % p = x - 2 * p
         /\ -p <= x /\ x < 0 => x % p = x + p
<1>1. ASSUME 0 <= x, x < p PROVE x % p = x
  <2>1. x = p * 0 + x
    OBVIOUS
  <2> QED BY <2>1, <1>1, RemainderIs
<1>2. ASSUME p <= x, x < 2 * p PROVE x % p = x - p
  <2>1. x = p * 1 + (x - p)
    OBVIOUS
  <2>2. x - p \in 0..(p - 1)
    BY <1>2
  <2> QED BY <2>1, <2>2, RemainderIs
<1>3. ASSUME 2 * p <= x, x < 3 * p PROVE x % p = x - 2 * p
  <2>1. x = p * 2 + (x - 2 * p)
    OBVIOUS
  <2>2. x - 2 * p \in 0..(p - 1)
    BY <1>3
  <2> QED BY <2>1, <2>2, RemainderIs
<1>4. ASSUME -p <= x, x < 0 PROVE x % p = x + p
  <2>1. x = p * (-1) + (x + p)
    OBVIOUS
  <2>2. x + p \in 0..(p - 1)
    BY <1>4
  <2> QED BY <2>1, <2>2, RemainderIs
<1> QED
  BY <1>1, <1>2, <1>3, <1>4

IsPrime(p) == p \in Nat /\ p > 2 /\ \A d \in 2..(p - 1) : p % d # 0

\* A number that is not a multiple of a prime has an inverse: the least number that is the
\* remainder of a multiple, and not 0, divides the prime.
LEMMA InverseExists ==
  ASSUME NEW p, IsPrime(p), NEW n \in Int, n % p # 0
  PROVE  \E m \in 1..(p - 1) : (n * m) % p = 1
<1>0. p \in Nat \ {0} /\ p > 2
  BY DEF IsPrime
<1> DEFINE T == {k \in 1..(p - 1) : \E m \in Nat : (n * m) % p = k}
<1>1. n % p \in T
  <2>1. n % p \in 1..(p - 1)
    BY <1>0, Division
  <2>2. n * 1 = n
    OBVIOUS
  <2> QED BY <2>1, <2>2
<1>2. PICK d \in T : \A k \in T : d <= k
  <2>1. T \subseteq 1..(p - 1)
    OBVIOUS
  <2> HIDE DEF T
  <2>2. T \subseteq Nat /\ T # {}
    BY <1>0, <1>1, <2>1
  <2> QED BY <2>2, LeastElement
<1>3. PICK m \in Nat : (n * m) % p = d
  OBVIOUS
<1>4. d = 1
  <2>1. SUFFICES ASSUME d >= 2 PROVE FALSE
    OBVIOUS
  <2> DEFINE s == p % d
             q == p \div d
  <2>2. s \in 1..(d - 1) /\ q \in Int /\ p = d * q + s
    <3>1. d \in Nat \ {0} /\ d \in 2..(p - 1) /\ p \in Int
      BY <1>0, <2>1
    <3>2. s # 0
      BY <3>1 DEF IsPrime
    <3>3. q \in Int /\ s \in 0..(d - 1) /\ p = d * q + s
      BY <3>1, Division
    <3> QED BY <3>1, <3>2, <3>3
  <2>2a. q \in Nat
    <3>1. SUFFICES ASSUME q <= -1 PROVE FALSE
      BY <2>2
    <3>2. d * q <= -d
      <4>1. PICK w \in Nat : q = -1 - w
        <5>1. q \in Int
          BY <2>2
        <5>2. 0 - (q + 1) \in Nat /\ q = -1 - (0 - (q + 1))
          BY <3>1, <5>1
        <5> QED BY <5>2
      <4>2. d * w \in Nat /\ d * (-1 - w) = -d - d * w
        BY <2>1
      <4> QED BY <4>1, <4>2, <2>1
    <3> QED BY <3>2, <2>2, <1>0
  <2> HIDE DEF s, q
  <2> DEFINE c == (p - 1) * q
  <2>3. c \in Nat /\ m * c \in Nat /\ n * (m * c) \in Int /\ n * m \in Int /\ (n * m) * c = n * (m * c)
    <3>1. c \in Nat
      BY <2>2a, <1>0
    <3> QED BY <3>1
  <2>4. (n * (m * c)) % p = (d * c) % p
    <3>1. PICK x \in Int : x = n * m
      BY <2>3
    <3>2. ((x % p) * c) % p = (x * c) % p
      <4> HIDE DEF c
      <4>1. c \in Int
        BY <2>3
      <4> QED BY <4>1, <1>0, ModOfProduct
    <3> QED BY <3>1, <3>2, <1>3, <2>3
  <2>5. d * c = s + p * (d * q - 1)
    <3>1. d * c = (d * q) * p - d * q
      BY <1>0, <2>2
    <3>2. p * (d * q - 1) = (d * q) * p - p
      BY <1>0, <2>2
    <3> QED BY <3>1, <3>2, <2>2
  <2>6. (d * c) % p = s % p
    <3>1. d * q - 1 \in Int /\ s \in Int
      BY <2>2
    <3> QED BY <3>1, <2>5, <1>0, ModShift
  <2>7. s % p = s
    BY <2>2, <1>0, SmallRemainders
  <2>8. s \in T
    <3>1. m * c \in Nat /\ (n * (m * c)) % p = s
      BY <2>3, <2>4, <2>6, <2>7
    <3>2. s \in 1..(p - 1)
      BY <2>2, <1>0
    <3> QED BY <3>1, <3>2
  <2> HIDE DEF T, c
  <2> QED BY <2>8, <2>2, <1>2, <2>1
<1>5. (n * (m % p)) % p = 1
  <2>1. PICK x \in Int : x = m /\ x % p \in Int
    BY <1>0, Division
  <2>2. ((x % p) * n) % p = (x * n) % p
    BY <1>0, ModOfProduct
  <2>3. (x % p) * n = n * (x % p) /\ x * n = n * x
    BY <2>1
  <2> QED BY <2>1, <2>2, <2>3, <1>3, <1>4
<1>6. m % p \in 1..(p - 1)
  <2>1. m % p \in 0..(p - 1)
    <3>1. m \in Int
      OBVIOUS
    <3> QED BY <3>1, <1>0, Division
  <2>2. n * 0 = 0 /\ 0 % p = 0
    BY <1>0, SmallRemainders
  <2> QED BY <2>1, <2>2, <1>5
<1> QED
  BY <1>5, <1>6

\* A prime that divides a product divides one of its factors.
LEMMA NoZeroDivisors ==
  ASSUME NEW p, IsPrime(p), NEW a \in Int, NEW b \in Int, (a * b) % p = 0
  PROVE  a % p = 0 \/ b % p = 0
<1>0. p \in Nat \ {0} /\ p > 2
  BY DEF IsPrime
<1> SUFFICES ASSUME a % p # 0 PROVE b % p = 0
  OBVIOUS
<1>1. PICK m \in 1..(p - 1) : (a * m) % p = 1
  BY InverseExists
<1>2. a * m \in Int /\ a * b \in Int /\ (a * m) * b = (a * b) * m
  OBVIOUS
<1>3. (((a * m) % p) * b) % p = ((a * m) * b) % p
  <2>1. PICK x \in Int : x = a * m
    BY <1>2
  <2>2. ((x % p) * b) % p = (x * b) % p
    BY <1>0, ModOfProduct
  <2> QED BY <2>1, <2>2
<1>4. (((a * b) % p) * m) % p = ((a * b) * m) % p
  <2>1. PICK x \in Int : x = a * b
    BY <1>2
  <2>2. m \in Int
    OBVIOUS
  <2>3. ((x % p) * m) % p = (x * m) % p
    BY <1>0, <2>2, ModOfProduct
  <2> QED BY <2>1, <2>3
<1>5. 1 * b = b /\ 0 * m = 0 /\ 0 % p = 0
  BY <1>0, SmallRemainders
<1> QED
  BY <1>1, <1>2, <1>3, <1>4, <1>5

\* One half of the residues has a root of each square.
LEMMA SmallerRootExists ==
  ASSUME NEW p, IsPrime(p), NEW r \in 1..(p - 1)
  PROVE  \E n \in 1..(p \div 2) : (n * n) % p = (r * r) % p
<1>0. p \in Nat \ {0} /\ p > 2
  BY DEF IsPrime
<1>1. p \div 2 \in Nat /\ p <= 2 * (p \div 2) + 1
  BY <1>0
<1>2. CASE r <= p \div 2
  BY <1>2, <1>1
<1>3. CASE r > p \div 2
  <2>1. p - r \in 1..(p \div 2)
    BY <1>0, <1>1, <1>3
  <2>2. (p - r) * (p - r) = r * r + p * (p - 2 * r)
    BY <1>0
  <2>3. (r * r + p * (p - 2 * r)) % p = (r * r) % p
    <3>1. r * r \in Int /\ p - 2 * r \in Int
      BY <1>0
    <3> QED BY <3>1, <1>0, ModShift
  <2> QED BY <2>1, <2>2, <2>3
<1> QED
  BY <1>0, <1>1, <1>2, <1>3

\* Numbers with the same square are equal or opposite.
LEMMA RootsOfSquare ==
  ASSUME NEW p, IsPrime(p), NEW r \in Int, NEW n \in Int, (n * n) % p = (r * r) % p
  PROVE  (r - n) % p = 0 \/ (r + n) % p = 0
<1>0. p \in Nat \ {0} /\ p > 2
  BY DEF IsPrime
<1>1. PICK d \in Int, e \in Int, s \in 0..(p - 1) : n * n = p * d + s /\ r * r = p * e + s
  <2>1. n * n \in Int /\ r * r \in Int
    OBVIOUS
  <2>2. (n * n) \div p \in Int /\ (n * n) % p \in 0..(p - 1)
        /\ n * n = p * ((n * n) \div p) + ((n * n) % p)
    BY <2>1, <1>0, Division
  <2>3. (r * r) \div p \in Int /\ r * r = p * ((r * r) \div p) + ((r * r) % p)
    BY <2>1, <1>0, Division
  <2> QED BY <2>2, <2>3
<1>2. (r - n) * (r + n) = r * r - n * n
  OBVIOUS
<1>3. (r - n) * (r + n) = p * (e - d) + 0
  BY <1>1, <1>2, <1>0
<1>4. ((r - n) * (r + n)) % p = 0
  <2>1. PICK x \in Int : x = (r - n) * (r + n)
    OBVIOUS
  <2>2. e - d \in Int /\ 0 \in 0..(p - 1)
    BY <1>0
  <2>3. x = p * (e - d) + 0
    BY <2>1, <1>3
  <2>4. x % p = 0
    BY <2>2, <2>3, <1>0, RemainderIs
  <2> QED BY <2>1, <2>4
<1> QED
  BY <1>4, NoZeroDivisors

\* A number is its remainder and a multiple of the modulus.
LEMMA Quotient ==
  ASSUME NEW p \in Nat \ {0}, NEW x \in Int
  PROVE  \E q \in Int : x = p * q + (x % p)
BY Division

\* A number divided by its root or by the opposite, and moved from 1 and -1 to 1 and 0.
LEMMA HalfOfSuccessor ==
  ASSUME NEW p \in Nat \ {0, 1}, NEW r \in Int, NEW n \in Int, NEW i \in Int, NEW h \in Int,
         (n * i) % p = 1, (2 * h) % p = 1, (r - n) % p = 0 \/ (r + n) % p = 0
  PROVE  (h * (i * r + 1)) % p \in {0, 1}
<1>0. /\ n * i \in Int /\ 2 * h \in Int /\ r - n \in Int /\ r + n \in Int
      /\ i * r \in Int /\ h * (i * r + 1) \in Int
  OBVIOUS
<1>1. PICK c \in Int : n * i = p * c + 1
  <2>1. \A x \in Int : x % p = 1 => \E q \in Int : x = p * q + 1
    BY Quotient
  <2> QED BY <2>1, <1>0
<1>2. PICK d \in Int : 2 * h = p * d + 1
  <2>1. \A x \in Int : x % p = 1 => \E q \in Int : x = p * q + 1
    BY Quotient
  <2> QED BY <2>1, <1>0
<1>3. \A x \in Int : x % p = 0 => \E q \in Int : x = p * q
  <2> SUFFICES ASSUME NEW x \in Int, x % p = 0
               PROVE  \E q \in Int : x = p * q
    OBVIOUS
  <2>1. PICK q \in Int : x = p * q + (x % p)
    BY Quotient
  <2> QED BY <2>1
<1>4. CASE (r - n) % p = 0
  <2>1. PICK e \in Int : r - n = p * e
    BY <1>3, <1>4, <1>0
  <2>2. PICK f \in Int : f = c + i * e
    OBVIOUS
  <2>3. i * r = n * i + p * (i * e)
    <3>1. r = n + p * e
      BY <2>1
    <3>2. i * (n + p * e) = n * i + p * (i * e)
      OBVIOUS
    <3> QED BY <3>1, <3>2
  <2>4. i * r + 1 = p * f + 2
    <3>1. p * f = p * c + p * (i * e)
      BY <2>2
    <3> QED BY <2>3, <3>1, <1>1
  <2>5. h * (i * r + 1) = p * (h * f + d) + 1
    <3>1. h * (p * f + 2) = p * (h * f) + 2 * h
      OBVIOUS
    <3>2. p * (h * f + d) = p * (h * f) + p * d
      OBVIOUS
    <3> QED BY <3>1, <3>2, <2>4, <1>2
  <2>6. \A x \in Int, q \in Int : x = p * q + 1 => x % p = 1
    <3>1. 1 \in 0..(p - 1)
      OBVIOUS
    <3> QED BY <3>1, RemainderIs
  <2>7. h * f + d \in Int
    OBVIOUS
  <2> QED BY <2>5, <2>6, <2>7, <1>0
<1>5. CASE (r + n) % p = 0
  <2>1. PICK e \in Int : r + n = p * e
    BY <1>3, <1>5, <1>0
  <2>2. PICK f \in Int : f = i * e - c
    OBVIOUS
  <2>3. i * r = p * (i * e) - n * i
    <3>1. r = p * e - n
      BY <2>1
    <3>2. i * (p * e - n) = p * (i * e) - n * i
      OBVIOUS
    <3> QED BY <3>1, <3>2
  <2>4. i * r + 1 = p * f
    <3>1. p * f = p * (i * e) - p * c
      BY <2>2
    <3> QED BY <2>3, <3>1, <1>1
  <2>5. h * (i * r + 1) = p * (h * f) + 0
    <3>1. h * (p * f) = p * (h * f)
      OBVIOUS
    <3> QED BY <3>1, <2>4
  <2>6. \A x \in Int, q \in Int : x = p * q + 0 => x % p = 0
    <3>1. 0 \in 0..(p - 1)
      OBVIOUS
    <3> QED BY <3>1, RemainderIs
  <2>7. h * f \in Int
    OBVIOUS
  <2> QED BY <2>5, <2>6, <2>7, <1>0
<1> QED
  BY <1>4, <1>5

\* A random number divided by the smaller root of its square is 1 or -1, and becomes 1 or 0.
LEMMA RandomBitIsBit ==
  ASSUME IsPrime(prime), NEW rand, rand.value \in 0..(prime - 1),
         (rand.value * rand.value) % prime # 0
  PROVE  RandomBit(rand, (rand.value * rand.value) % prime).value \in {0, 1}
<1>0. prime \in Nat \ {0, 1} /\ prime > 2
  BY DEF IsPrime
<1>1. PICK r \in 1..(prime - 1) : r = rand.value
  <2>1. 0 * 0 = 0 /\ 0 % prime = 0
    BY <1>0, SmallRemainders
  <2> QED BY <2>1
<1>2. PICK n \in 1..(prime \div 2) : n = SmallerRoot((r * r) % prime) /\ (n * n) % prime = (r * r) % prime
  <2>1. \E n \in 1..(prime \div 2) : (n * n) % prime = (r * r) % prime
    BY SmallerRootExists
  <2> QED BY <2>1 DEF SmallerRoot
<1>3. n \in Int /\ r \in Int /\ n \in 1..(prime - 1)
  BY <1>0
<1>4. PICK i \in 1..(prime - 1) : i = MultipInverse(n) /\ (n * i) % prime = 1
  <2>1. n % prime = n
    <3>1. 0 <= n /\ n < prime /\ prime \in Nat \ {0}
      BY <1>3, <1>0
    <3> QED BY <3>1, <1>3, SmallRemainders
  <2>2. \E m \in 1..(prime - 1) : (n * m) % prime = 1
    BY <2>1, <1>3, InverseExists
  <2> QED BY <2>2 DEF MultipInverse
<1>5. PICK h \in 1..(prime - 1) : h = MultipInverse(2) /\ (2 * h) % prime = 1
  <2>1. 2 % prime = 2
    BY <1>0, SmallRemainders
  <2>2. \E m \in 1..(prime - 1) : (2 * m) % prime = 1
    BY <2>1, InverseExists
  <2> QED BY <2>2 DEF MultipInverse
<1>6. RandomBit(rand, (r * r) % prime).value = (h * (i * r + 1)) % prime
  BY <1>1, <1>2, <1>4, <1>5 DEF RandomBit, Share
<1>7. (r - n) % prime = 0 \/ (r + n) % prime = 0
  BY <1>2, <1>3, RootsOfSquare
<1>8. (h * (i * r + 1)) % prime \in {0, 1}
  <2>1. i \in Int /\ h \in Int
    OBVIOUS
  <2> QED BY <2>1, <1>0, <1>3, <1>4, <1>5, <1>7, HalfOfSuccessor
<1> QED
  BY <1>1, <1>6, <1>8

-----------------------------------------------------------------------------
(***************************************************************************)
(* Shares.                                                                 *)
(***************************************************************************)

PublicShares(p) == {[value |-> v, isPublic |-> TRUE, degree |-> 0] : v \in 0..(p - 1)}
SecretShares(p) == {[value |-> v, isPublic |-> FALSE, degree |-> 1] : v \in 0..(p - 1)}
Shares(p) == PublicShares(p) \union SecretShares(p)
Bits(p) == {s \in Shares(p) : s.value \in {0, 1}}

\* What shares have, and the flags of those of either kind.
LEMMA SharesAre ==
  ASSUME NEW p \in Nat \ {0}, NEW s \in Shares(p)
  PROVE  /\ s.value \in 0..(p - 1)
         /\ \/ s \in PublicShares(p) /\ s.degree = 0
            \/ s \in SecretShares(p) /\ s.degree = 1
<1>1. CASE s \in PublicShares(p)
  BY <1>1 DEF PublicShares
<1>2. CASE s \in SecretShares(p)
  BY <1>2 DEF SecretShares
<1> QED
  BY <1>1, <1>2 DEF Shares

\* The degree of a share tells whether it is public,
LEMMA KindsOfShares ==
  ASSUME NEW p, NEW s
  PROVE  /\ s \in PublicShares(p) => s.degree = 0
         /\ s \in SecretShares(p) => s.degree = 1
BY DEF PublicShares, SecretShares

\* and so does its flag.
LEMMA Flags ==
  ASSUME NEW p, NEW s
  PROVE  /\ s \in PublicShares(p) => s.isPublic = TRUE
         /\ s \in SecretShares(p) => s.isPublic = FALSE
BY DEF PublicShares, SecretShares

\* What is made into a share is reduced.
LEMMA ShareIs ==
  ASSUME prime \in Nat \ {0}, NEW v \in Int
  PROVE  /\ Share(v, TRUE, 0) \in PublicShares(prime)
         /\ Share(v, FALSE, 1) \in SecretShares(prime)
         /\ Share(v, TRUE, 0).value = v % prime
         /\ Share(v, FALSE, 1).value = v % prime
<1>1. v % prime \in 0..(prime - 1)
  BY Division
<1> QED
  BY <1>1 DEF Share, PublicShares, SecretShares

\* Sums, products and inverses of shares are shares.
LEMMA SumIs ==
  ASSUME prime \in Nat \ {0}, NEW s \in Shares(prime), NEW t \in Shares(prime)
  PROVE  /\ Sum(s, t) \in Shares(prime)
         /\ Sum(s, t).value = (s.value + t.value) % prime
<1>1. s.value \in Int /\ t.value \in Int /\ s.value + t.value \in Int
  BY SharesAre
<1>2. CASE s \in PublicShares(prime) /\ t \in PublicShares(prime)
  <2>1. (s.isPublic /\ t.isPublic) = TRUE
    BY <1>2, Flags, Zenon
  <2>2. Larger(s.degree, t.degree) = 0
    BY <1>2, KindsOfShares DEF Larger
  <2>3. Sum(s, t) = Share(s.value + t.value, TRUE, 0)
    BY <2>1, <2>2, Zenon DEF Sum
  <2> QED BY <2>3, <1>1, ShareIs DEF Shares
<1>3. CASE s \in SecretShares(prime) \/ t \in SecretShares(prime)
  <2>1. (s.isPublic /\ t.isPublic) = FALSE
    BY <1>3, Flags, Zenon
  <2>2. Larger(s.degree, t.degree) = 1
    BY <1>3, SharesAre, KindsOfShares DEF Larger
  <2>3. Sum(s, t) = Share(s.value + t.value, FALSE, 1)
    BY <2>1, <2>2, Zenon DEF Sum
  <2> QED BY <2>3, <1>1, ShareIs DEF Shares
<1> QED
  BY <1>2, <1>3, SharesAre

\* ShareMultiplicationProtocol gives a share of the product, of a degree that can be opened.
LEMMA ProductIs ==
  ASSUME prime \in Nat \ {0}, NEW s \in Shares(prime), NEW t \in Shares(prime)
  PROVE  /\ Product(s, t) \in Shares(prime)
         /\ Product(s, t).value = (s.value * t.value) % prime
<1>1. s.value \in Int /\ t.value \in Int /\ s.value * t.value \in Int
  BY SharesAre
<1>2. CASE s \in PublicShares(prime) /\ t \in PublicShares(prime)
  <2>1. (s.isPublic /\ t.isPublic) = TRUE /\ (s.isPublic \/ t.isPublic)
    BY <1>2, Flags, Zenon
  <2>2. s.degree + t.degree = 0
    BY <1>2, KindsOfShares
  <2>3. Product(s, t) = Share(s.value * t.value, TRUE, 0)
    BY <2>1, <2>2, Zenon DEF Product
  <2> QED BY <2>3, <1>1, ShareIs DEF Shares
<1>3. CASE \/ s \in PublicShares(prime) /\ t \in SecretShares(prime)
           \/ s \in SecretShares(prime) /\ t \in PublicShares(prime)
  <2>1. (s.isPublic /\ t.isPublic) = FALSE /\ (s.isPublic \/ t.isPublic)
    BY <1>3, Flags, Zenon
  <2>2. s.degree + t.degree = 1
    BY <1>3, KindsOfShares
  <2>3. Product(s, t) = Share(s.value * t.value, FALSE, 1)
    BY <2>1, <2>2, Zenon DEF Product
  <2> QED BY <2>3, <1>1, ShareIs DEF Shares
<1>4. CASE s \in SecretShares(prime) /\ t \in SecretShares(prime)
  <2>1. Product(s, t) = Share(s.value * t.value, FALSE, 1)
    BY <1>4, Flags, Zenon DEF Product, SecretShare
  <2> QED BY <2>1, <1>1, ShareIs DEF Shares
<1> QED
  BY <1>2, <1>3, <1>4, SharesAre

\* A share of zero is its own inverse: the prime is reduced.
LEMMA InverseIs ==
  ASSUME prime \in Nat \ {0}, NEW s \in Shares(prime)
  PROVE  /\ ShareAdditiveInverse(s) \in Shares(prime)
         /\ ShareAdditiveInverse(s).value = IF s.value = 0 THEN 0 ELSE prime - s.value
<1>1. s.value \in 0..(prime - 1) /\ prime - s.value \in Int
  BY SharesAre
<1>2. (prime - s.value) % prime = IF s.value = 0 THEN 0 ELSE prime - s.value
  <2>1. CASE s.value = 0
    <3>1. prime % prime = 0
      BY SmallRemainders
    <3> QED BY <2>1, <3>1
  <2>2. CASE s.value # 0
    <3>1. prime - s.value \in Int /\ 0 <= prime - s.value /\ prime - s.value < prime
      BY <1>1, <2>2
    <3> QED BY <2>2, <3>1, SmallRemainders
  <2> QED BY <2>1, <2>2
<1>3. CASE s \in PublicShares(prime)
  <2>1. s.degree = 0
    BY <1>3, KindsOfShares
  <2>2. ShareAdditiveInverse(s) = Share(prime - s.value, TRUE, 0)
    BY <1>3, <2>1, Flags, Zenon DEF ShareAdditiveInverse
  <2> QED BY <2>2, <1>1, <1>2, ShareIs DEF Shares
<1>4. CASE s \in SecretShares(prime)
  <2>1. s.degree = 1
    BY <1>4, KindsOfShares
  <2>2. ShareAdditiveInverse(s) = Share(prime - s.value, FALSE, 1)
    BY <1>4, <2>1, Flags, Zenon DEF ShareAdditiveInverse
  <2> QED BY <2>2, <1>1, <1>2, ShareIs DEF Shares
<1> QED
  BY <1>3, <1>4, SharesAre

\* A value that is below the prime is kept as it is.
LEMMA ConstantIs ==
  ASSUME prime \in Nat \ {0}, NEW v \in 0..(prime - 1)
  PROVE  /\ CreateConstantShare(v) \in Shares(prime)
         /\ CreateConstantShare(v).value = v
         /\ SecretShare(v) \in Shares(prime)
         /\ SecretShare(v) \in SecretShares(prime)
         /\ SecretShare(v).value = v
<1>1. v \in Int /\ v % prime = v
  BY SmallRemainders
<1> QED
  BY <1>1, ShareIs DEF CreateConstantShare, SecretShare, Shares

-----------------------------------------------------------------------------
(***************************************************************************)
(* Powers of two.                                                          *)
(***************************************************************************)

\* The powers of two up to the k-th.
IsPowers(f, k) == f \in [0..k -> Nat] /\ \A i \in 0..k : f[i] = IF i = 0 THEN 1 ELSE 2 * f[i - 1]

\* There is such a table of any length,
LEMMA PowersExist ==
  ASSUME NEW k \in Nat
  PROVE  \E f : IsPowers(f, k)
<1> DEFINE T == {j \in Nat : \E f : IsPowers(f, j)}
<1>1. 0 \in T
  <2> DEFINE g == [i \in 0..0 |-> 1]
  <2>1. g \in [0..0 -> Nat] /\ g[0] = 1 /\ \A i \in 0..0 : i = 0
    OBVIOUS
  <2> HIDE DEF g
  <2>2. IsPowers(g, 0)
    BY <2>1 DEF IsPowers
  <2> QED BY <2>2
<1>2. ASSUME NEW j \in Nat, j \in T PROVE j + 1 \in T
  <2>1. PICK f : IsPowers(f, j)
    BY <1>2
  <2> DEFINE g == [i \in 0..(j + 1) |-> IF i <= j THEN f[i] ELSE 2 * f[j]]
  <2>2. g \in [0..(j + 1) -> Nat]
    BY <2>1 DEF IsPowers
  <2>3. ASSUME NEW i \in 0..(j + 1) PROVE g[i] = IF i = 0 THEN 1 ELSE 2 * g[i - 1]
    <3>1. CASE i <= j
      BY <3>1, <2>1 DEF IsPowers
    <3>2. CASE i = j + 1
      BY <3>2, <2>1 DEF IsPowers
    <3> QED BY <3>1, <3>2
  <2>4. IsPowers(g, j + 1)
    BY <2>2, <2>3 DEF IsPowers
  <2> QED BY <2>4
<1>3. Nat \subseteq T
  <2> HIDE DEF T
  <2> QED BY <1>1, <1>2, SetInduction
<1> QED
  BY <1>3

\* and tables of any two lengths agree as far as both go.
LEMMA PowersAgree ==
  ASSUME NEW k \in Nat, NEW l \in Nat, NEW f, NEW g, IsPowers(f, k), IsPowers(g, l)
  PROVE  \A i \in Nat : i <= k /\ i <= l => f[i] = g[i]
<1> DEFINE T == {i \in Nat : i <= k /\ i <= l => f[i] = g[i]}
<1>1. 0 \in T
  BY DEF IsPowers
<1>2. ASSUME NEW i \in Nat, i \in T PROVE i + 1 \in T
  BY <1>2 DEF IsPowers
<1>3. Nat \subseteq T
  <2> HIDE DEF T
  <2> QED BY <1>1, <1>2, SetInduction
<1> QED
  BY <1>3

\* What the recursive function returns.
LEMMA PowersOfTwo ==
  /\ PowerOfTwo[0] = 1
  /\ \A k \in Nat : PowerOfTwo[k] \in Nat \ {0} /\ PowerOfTwo[k + 1] = 2 * PowerOfTwo[k]
<1> DEFINE f(k) == CHOOSE h : IsPowers(h, k)
           all == [k \in Nat |-> f(k)[k]]
<1>1. \A k \in Nat : IsPowers(f(k), k)
  BY PowersExist
<1>2. ASSUME NEW k \in Nat PROVE all[k] = IF k = 0 THEN 1 ELSE 2 * all[k - 1]
  <2>1. IsPowers(f(k), k)
    BY <1>1
  <2>2. CASE k = 0
    BY <2>1, <2>2 DEF IsPowers
  <2>3. CASE k # 0
    <3>1. k - 1 \in Nat /\ IsPowers(f(k - 1), k - 1)
      BY <2>3, <1>1
    <3>2. f(k - 1)[k - 1] = f(k)[k - 1]
      <4> HIDE DEF f
      <4> QED BY <3>1, <2>1, PowersAgree
    <3>3. f(k)[k] = 2 * f(k)[k - 1]
      <4> HIDE DEF f
      <4> QED BY <2>1, <2>3 DEF IsPowers
    <3> QED BY <2>3, <3>1, <3>2, <3>3
  <2> QED BY <2>2, <2>3
<1>3. all = [k \in Nat |-> IF k = 0 THEN 1 ELSE 2 * all[k - 1]]
  <2> HIDE DEF f
  <2> QED BY <1>2
<1>4. PowerOfTwo = [k \in Nat |-> IF k = 0 THEN 1 ELSE 2 * PowerOfTwo[k - 1]]
  <2> HIDE DEF all
  <2> QED BY <1>3 DEF PowerOfTwo
<1> DEFINE T == {k \in Nat : PowerOfTwo[k] \in Nat \ {0}}
<1>5. 0 \in T
  BY <1>4
<1>6. ASSUME NEW k \in Nat PROVE PowerOfTwo[k + 1] = 2 * PowerOfTwo[k]
  BY <1>4
<1>7. Nat \subseteq T
  <2>1. ASSUME NEW k \in Nat, k \in T PROVE k + 1 \in T
    BY <2>1, <1>6
  <2> HIDE DEF T
  <2> QED BY <1>5, <2>1, SetInduction
<1> QED
  BY <1>4, <1>6, <1>7

\* The length of a number is that of the least power above it.
LEMMA BitLengthIs ==
  ASSUME NEW n \in Nat
  PROVE  BitLength(n) \in 0..n /\ n < PowerOfTwo[BitLength(n)]
<1> DEFINE T == {k \in Nat : k < PowerOfTwo[k]}
           U == {k \in Nat : n < PowerOfTwo[k]}
<1>1. n \in U
  <2>1. 0 \in T
    BY PowersOfTwo
  <2>2. ASSUME NEW k \in Nat, k \in T PROVE k + 1 \in T
    BY <2>2, PowersOfTwo
  <2>3. Nat \subseteq T
    <3> HIDE DEF T
    <3> QED BY <2>1, <2>2, SetInduction
  <2> QED BY <2>3
<1>2. PICK k \in U : \A m \in U : k <= m
  <2>1. U \subseteq Nat /\ U # {}
    BY <1>1
  <2> HIDE DEF U
  <2> QED BY <2>1, LeastElement
<1>3. k \in 0..n /\ n < PowerOfTwo[k]
  BY <1>1, <1>2
<1>4. ASSUME k > 0 PROVE PowerOfTwo[k - 1] <= n
  <2>1. k - 1 \in Nat /\ k - 1 \notin U
    BY <1>2, <1>4
  <2> QED BY <2>1, PowersOfTwo
<1> QED
  BY <1>3, <1>4 DEF BitLength

-----------------------------------------------------------------------------
(***************************************************************************)
(* Numbers as sequences of bits, the lowest first.                         *)
(***************************************************************************)

\* num[i] is the number that the bits from the i-th on stand for.
IsNumber(num, bits) ==
  /\ num \in [1..(Len(bits) + 1) -> Nat]
  /\ num[Len(bits) + 1] = 0
  /\ \A i \in 1..Len(bits) : num[i] = 2 * num[i + 1] + bits[i].value

NumberFrom(bits) == CHOOSE num : IsNumber(num, bits)
Number(bits) == NumberFrom(bits)[1]

\* Going through a sequence from its end to its beginning.
LEMMA Backward ==
  ASSUME NEW n \in Nat
  PROVE  /\ [i \in 1..(n + 1) |-> n + 1 - i] \in [1..(n + 1) -> 0..n]
         /\ [i \in 1..n |-> i + 1] \in [1..n -> 1..(n + 1)]
         /\ 1..n \in SUBSET (1..(n + 1))
         /\ \A i \in 1..n : [j \in 1..(n + 1) |-> n + 1 - j][[j \in 1..n |-> j + 1][i]]
                             < [j \in 1..(n + 1) |-> n + 1 - j][i]
OBVIOUS

\* What holds at the end, and is kept by going backward, holds everywhere.
LEMMA BackwardStays ==
  ASSUME NEW n \in Nat, NEW Good \in SUBSET (1..(n + 1)), n + 1 \in Good,
         \A i \in 1..n : i + 1 \in Good => i \in Good
  PROVE  1..(n + 1) \subseteq Good
<1> DEFINE T == {k \in Nat : k <= n => n + 1 - k \in Good}
<1>1. 0 \in T
  OBVIOUS
<1>2. ASSUME NEW k \in Nat, k \in T PROVE k + 1 \in T
  <2>1. SUFFICES ASSUME k + 1 <= n PROVE n + 1 - (k + 1) \in Good
    OBVIOUS
  <2>2. n - k \in 1..n /\ (n - k) + 1 \in Good /\ n + 1 - (k + 1) = n - k
    <3>1. n + 1 - k = (n - k) + 1
      OBVIOUS
    <3> QED BY <2>1, <1>2, <3>1
  <2> QED BY <2>2
<1>3. Nat \subseteq T
  <2> HIDE DEF T
  <2> QED BY <1>1, <1>2, SetInduction
<1>4. ASSUME NEW i \in 1..(n + 1) PROVE i \in Good
  <2>1. n + 1 - i \in T /\ n + 1 - i <= n /\ n + 1 - (n + 1 - i) = i
    BY <1>3
  <2> QED BY <2>1
<1> QED
  BY <1>4

\* Each sequence of bits stands for a number.
LEMMA NumbersExist ==
  ASSUME NEW p \in Nat \ {0}, NEW bits \in Seq(Bits(p))
  PROVE  IsNumber(NumberFrom(bits), bits)
<1> DEFINE n == Len(bits)
           D == 1..(n + 1)
           C == 1..n
           rank == [i \in D |-> n + 1 - i]
           next == [i \in C |-> i + 1]
           base == [i \in D |-> 0]
           step == [i \in D |-> [x \in Nat |-> IF i \in C THEN 2 * x + bits[i].value ELSE 0]]
<1>1. n \in Nat /\ \A i \in C : bits[i].value \in {0, 1}
  BY DEF Bits
<1>2. base \in [D -> Nat]
  OBVIOUS
<1>3. step \in [D -> [Nat -> Nat]]
  <2>1. ASSUME NEW i \in C, NEW x \in Nat PROVE 2 * x + bits[i].value \in Nat
    BY <1>1
  <2> QED BY <2>1
<1>4. PICK f \in [D -> Nat] : IsDescent(f, D, C, base, step, next)
  <2>1. /\ C \in SUBSET D /\ rank \in [D -> 0..n] /\ next \in [C -> D]
        /\ \A i \in C : rank[next[i]] < rank[i]
    BY <1>1, Backward
  <2>2. n \in Nat
    BY <1>1
  <2> HIDE DEF C, D, rank, next, base, step, n
  <2> QED BY <2>1, <2>2, <1>2, <1>3, DescentExists
<1>5. f[n + 1] = 0
  <2>1. n + 1 \in D /\ n + 1 \notin C /\ base[n + 1] = 0
    BY <1>1
  <2> HIDE DEF D, C, base, step, next
  <2> QED BY <2>1, <1>4 DEF IsDescent
<1>6. ASSUME NEW i \in C PROVE f[i] = 2 * f[i + 1] + bits[i].value
  <2>1. i \in D /\ i + 1 \in D /\ next[i] = i + 1
    BY <1>1
  <2>2. f[i] = step[i][f[i + 1]] /\ f[i + 1] \in Nat
    BY <1>4, <2>1 DEF IsDescent
  <2> QED BY <2>1, <2>2
<1>7. IsNumber(f, bits)
  BY <1>5, <1>6 DEF IsNumber
<1> QED
  BY <1>7 DEF NumberFrom

\* The higher bits stand for no more than all of them.
LEMMA NumbersGrow ==
  ASSUME NEW p \in Nat \ {0}, NEW bits \in Seq(Bits(p)), NEW num, IsNumber(num, bits),
         NEW i \in 1..(Len(bits) + 1)
  PROVE  num[i] \in Nat /\ num[i] <= num[1]
<1> DEFINE T == {k \in Nat : k + 1 <= Len(bits) + 1 => num[k + 1] <= num[1]}
<1>0. Len(bits) \in Nat /\ \A k \in 1..Len(bits) : bits[k].value \in {0, 1}
  BY DEF Bits
<1>1. 0 \in T
  BY <1>0 DEF IsNumber
<1>2. ASSUME NEW k \in Nat, k \in T PROVE k + 1 \in T
  <2>1. SUFFICES ASSUME k + 2 <= Len(bits) + 1 PROVE num[k + 2] <= num[1]
    OBVIOUS
  <2>2. k + 1 \in 1..Len(bits) /\ num[k + 1] = 2 * num[k + 2] + bits[k + 1].value
    <3>1. k + 1 \in 1..Len(bits) /\ (k + 1) + 1 = k + 2
      BY <2>1, <1>0
    <3> QED BY <3>1 DEF IsNumber
  <2>3. num[k + 1] \in Nat /\ num[k + 2] \in Nat /\ num[1] \in Nat /\ bits[k + 1].value \in Nat
    <3>1. {k + 1, k + 2, 1} \subseteq 1..(Len(bits) + 1)
      BY <2>1, <1>0
    <3>2. bits[k + 1].value \in Nat
      BY <2>2, <1>0
    <3> QED BY <3>1, <3>2 DEF IsNumber
  <2> QED BY <2>2, <2>3, <2>1, <1>2
<1>3. Nat \subseteq T
  <2> HIDE DEF T
  <2> QED BY <1>1, <1>2, SetInduction
<1>4. i - 1 \in T /\ (i - 1) + 1 = i
  <2>1. i - 1 \in Nat
    BY <1>0
  <2> HIDE DEF T
  <2> QED BY <2>1, <1>3, <1>0
<1> QED
  BY <1>4, <1>0 DEF IsNumber

\* BitCompositionProtocol computes the number, if it is less than the prime.
LEMMA CompositionIs ==
  ASSUME prime \in Nat, prime > 2, NEW bits \in Seq(Bits(prime)), Number(bits) < prime
  PROVE  Composition(bits) \in Shares(prime) /\ Composition(bits).value = Number(bits)
<1>0. prime \in Nat \ {0}
  OBVIOUS
<1> DEFINE n == Len(bits)
           D == 1..(n + 1)
           C == 1..n
           num == NumberFrom(bits)
           rank == [i \in D |-> n + 1 - i]
           next == [i \in C |-> i + 1]
           Values == [i \in D |-> {s \in Shares(prime) : s.value = num[i]}]
           base == [i \in D |-> CreateConstantShare(0)]
           S == UNION {Values[i] : i \in D}
           step == [i \in D |-> [x \in S |->
                      Sum(Product(x, CreateConstantShare(2)), bits[i])]]
<1>1. n \in Nat /\ \A i \in C : bits[i] \in Shares(prime) /\ bits[i].value \in {0, 1}
  BY DEF Bits
<1>2. IsNumber(num, bits) /\ \A i \in D : num[i] \in Nat /\ num[i] < prime
  <2>1. IsNumber(num, bits)
    BY <1>0, NumbersExist
  <2>2. \A i \in D : num[i] \in Nat /\ num[i] <= num[1]
    BY <1>0, <2>1, NumbersGrow
  <2> QED BY <2>1, <2>2 DEF Number
<1>3. \A i \in D \ C : base[i] \in Values[i]
  <2>1. \A i \in D \ C : i = n + 1
    BY <1>1
  <2>2. num[n + 1] = 0
    BY <1>2 DEF IsNumber
  <2>3. CreateConstantShare(0) \in Shares(prime) /\ CreateConstantShare(0).value = 0
    BY <1>0, ConstantIs
  <2> QED BY <2>1, <2>2, <2>3
<1>4. ASSUME NEW i \in C, NEW x \in Values[i + 1]
      PROVE  Sum(Product(x, CreateConstantShare(2)), bits[i]) \in Values[i]
  <2>1. i \in D /\ i + 1 \in D /\ x \in Shares(prime) /\ x.value = num[i + 1]
    BY <1>1
  <2>2. num[i] = 2 * num[i + 1] + bits[i].value /\ num[i] \in Nat /\ num[i + 1] \in Nat /\ num[i] < prime
    BY <1>2, <2>1 DEF IsNumber
  <2> DEFINE two == CreateConstantShare(2)
             double == Product(x, two)
             y == Sum(double, bits[i])
  <2>3. two \in Shares(prime) /\ two.value = 2
    BY <1>0, ConstantIs
  <2>4. double \in Shares(prime) /\ double.value = (x.value * two.value) % prime
    BY <1>0, <2>1, <2>3, ProductIs
  <2>5. y \in Shares(prime) /\ y.value = (double.value + bits[i].value) % prime
    <3> HIDE DEF double, two
    <3> QED BY <1>0, <2>4, <1>1, SumIs
  <2>6. double.value = 2 * num[i + 1]
    <3>1. x.value * two.value = 2 * num[i + 1]
      BY <2>1, <2>2, <2>3
    <3>2. 2 * num[i + 1] \in Int /\ 0 <= 2 * num[i + 1] /\ 2 * num[i + 1] < prime
      BY <2>2, <1>1
    <3> QED BY <3>1, <3>2, <2>4, <1>0, SmallRemainders
  <2>7. y.value = num[i]
    <3>1. double.value + bits[i].value = num[i]
      BY <2>6, <2>2
    <3>2. num[i] % prime = num[i]
      BY <2>2, <1>0, SmallRemainders
    <3> QED BY <3>1, <3>2, <2>5
  <2> QED BY <2>1, <2>5, <2>7
<1>5. \A i \in C : \A x \in Values[next[i]] : step[i][x] \in Values[i]
  <2>1. \A i \in C : i \in D /\ i + 1 \in D /\ next[i] = i + 1
    BY <1>1
  <2>2. \A i \in C : \A x \in Values[i + 1] : step[i][x] = Sum(Product(x, CreateConstantShare(2)), bits[i])
    BY <2>1
  <2> HIDE DEF Values, step, next
  <2> QED BY <2>1, <2>2, <1>4
<1>6. /\ C \in SUBSET D /\ rank \in [D -> 0..n] /\ next \in [C -> D]
      /\ \A i \in C : rank[next[i]] < rank[i]
  BY <1>1, Backward
<1>7. PICK f : /\ f = [i \in D |-> f[i]]
               /\ \A i \in D : f[i] \in Values[i]
               /\ IsDescent(f, D, C, base, step, next)
  <2> HIDE DEF C, D, rank, next, base, step, n, Values
  <2> QED BY <1>1, <1>3, <1>5, <1>6, DescentInto
<1> DEFINE go(h) == [i \in D |-> IF i > n THEN CreateConstantShare(0)
                                 ELSE Sum(Product(h[i + 1], CreateConstantShare(2)), bits[i])]
<1>8. f = go(f)
  <2>1. ASSUME NEW i \in D PROVE f[i] = go(f)[i]
    <3>1. CASE i = n + 1
      <4>1. i \notin C /\ i > n
        BY <3>1, <1>1
      <4> QED BY <4>1, <1>7 DEF IsDescent
    <3>2. CASE i # n + 1
      <4>1. i \in C /\ ~ (i > n) /\ i + 1 \in D
        BY <3>2, <1>1
      <4>2. f[i] = step[i][f[next[i]]]
        <5> HIDE DEF C, D, step, next
        <5> QED BY <4>1, <1>7 DEF IsDescent
      <4>3. next[i] = i + 1 /\ f[i + 1] \in S
        <5>1. f[i + 1] \in Values[i + 1]
          BY <4>1, <1>7
        <5> HIDE DEF Values
        <5> QED BY <4>1, <5>1
      <4>4. step[i][f[i + 1]] = Sum(Product(f[i + 1], CreateConstantShare(2)), bits[i])
        <5> HIDE DEF S
        <5> QED BY <4>3
      <4> QED BY <4>1, <4>2, <4>3, <4>4
    <3> QED BY <3>1, <3>2
  <2>2. go(f) = [i \in D |-> go(f)[i]]
    OBVIOUS
  <2> HIDE DEF go
  <2> QED BY <2>1, <2>2, <1>7
<1>9. PICK g : g = go(g) /\ Composition(bits) = g[1]
  <2>1. Composition(bits) = (CHOOSE h : h = go(h))[1]
    BY Zenon DEF Composition
  <2> QED BY <2>1, <1>8, Zenon
<1>10. \A i \in D : g[i] \in Values[i]
  <2> DEFINE Good == {i \in D : g[i] \in Values[i]}
  <2>1. n + 1 \in Good
    <3>1. g[n + 1] = CreateConstantShare(0) /\ n + 1 \in D \ C
      BY <1>9, <1>1
    <3> QED BY <3>1, <1>3
  <2>2. ASSUME NEW i \in 1..n, i + 1 \in Good PROVE i \in Good
    <3>1. i \in C /\ i \in D /\ ~ (i > n)
      BY <1>1
    <3>2. g[i] = Sum(Product(g[i + 1], CreateConstantShare(2)), bits[i])
      BY <1>9, <3>1
    <3>3. g[i + 1] \in Values[i + 1]
      BY <2>2
    <3> HIDE DEF Values
    <3> QED BY <3>1, <3>2, <3>3, <1>4
  <2>3. D \subseteq Good
    <3>1. Good \in SUBSET (1..(n + 1))
      OBVIOUS
    <3> HIDE DEF Good
    <3> QED BY <2>1, <2>2, <3>1, <1>1, BackwardStays
  <2> QED BY <2>3
<1> QED
  <2>1. 1 \in D
    BY <1>1
  <2>2. g[1] \in Shares(prime) /\ g[1].value = num[1]
    BY <2>1, <1>10
  <2> QED BY <2>2, <1>9 DEF Number

\* Any way to write a number gives its quotient.
LEMMA QuotientIs ==
  ASSUME NEW m \in Nat \ {0}, NEW x \in Int, NEW a \in Int, NEW b \in 0..(m - 1), x = m * a + b
  PROVE  x \div m = a
<1>1. PICK q \in Int, r \in 0..(m - 1) : q = x \div m /\ r = x % m /\ x = m * q + r
  BY Division
<1>2. r = b
  BY <1>1, RemainderIs
<1>3. m * (q - a) = 0
  BY <1>1, <1>2
<1>4. q - a = 0
  <2>1. ASSUME q - a >= 1 PROVE FALSE
    <3>1. m * (q - a) >= 1
      BY <2>1
    <3> QED BY <3>1, <1>3
  <2>2. ASSUME q - a <= -1 PROVE FALSE
    <3>1. m * (a - q) >= 1
      BY <2>2
    <3>2. m * (a - q) = 0 - m * (q - a)
      OBVIOUS
    <3> QED BY <3>1, <3>2, <1>3
  <2> QED BY <2>1, <2>2
<1> QED
  BY <1>1, <1>4

\* Dividing by twice as much leaves off a bit.
LEMMA Halves ==
  ASSUME NEW n \in Nat, NEW m \in Nat \ {0}
  PROVE  n \div m = 2 * (n \div (2 * m)) + ((n \div m) % 2)
<1>0. 2 * m \in Nat \ {0}
  OBVIOUS
<1>1. PICK q \in Int, r \in 0..(2 * m - 1) : q = n \div (2 * m) /\ n = (2 * m) * q + r
  <2>1. n \in Int
    OBVIOUS
  <2>2. n \div (2 * m) \in Int /\ n % (2 * m) \in 0..(2 * m - 1)
        /\ n = (2 * m) * (n \div (2 * m)) + (n % (2 * m))
    BY <2>1, <1>0, Division
  <2> QED BY <2>2
<1>2. CASE r < m
  <2>1. n = m * (2 * q) + r
    <3>1. (2 * m) * q = m * (2 * q)
      OBVIOUS
    <3> QED BY <1>1, <3>1
  <2>2. n \div m = 2 * q
    <3>1. 2 * q \in Int /\ r \in 0..(m - 1) /\ n \in Int
      BY <1>2
    <3> QED BY <3>1, <2>1, QuotientIs
  <2>3. (2 * q) % 2 = 0
    OBVIOUS
  <2> QED BY <2>2, <2>3, <1>1
<1>3. CASE r >= m
  <2>1. n = m * (2 * q + 1) + (r - m)
    <3>1. m * (2 * q + 1) = (2 * m) * q + m
      OBVIOUS
    <3> QED BY <1>1, <3>1
  <2>2. n \div m = 2 * q + 1
    <3>1. 2 * q + 1 \in Int /\ r - m \in 0..(m - 1) /\ n \in Int
      BY <1>3
    <3> QED BY <3>1, <2>1, QuotientIs
  <2>3. (2 * q + 1) % 2 = 1
    OBVIOUS
  <2> QED BY <2>2, <2>3, <1>1
<1> QED
  BY <1>2, <1>3

\* GetBitDecomposition returns the bits of a number that fits the length.
LEMMA DecompositionIs ==
  ASSUME prime \in Nat, prime > 2, NEW n \in Nat, NEW length \in Nat, n < PowerOfTwo[length]
  PROVE  /\ BitDecomposition(n, length) \in Seq(Bits(prime))
         /\ Len(BitDecomposition(n, length)) = length
         /\ Number(BitDecomposition(n, length)) = n
<1>0. prime \in Nat \ {0}
  OBVIOUS
<1> DEFINE d == BitDecomposition(n, length)
           rest(i) == n \div PowerOfTwo[i - 1]
<1>1. ASSUME NEW i \in 1..(length + 1) PROVE rest(i) \in Nat /\ rest(i) % 2 \in {0, 1}
  <2>1. i - 1 \in Nat
    OBVIOUS
  <2>2. PICK m \in Nat \ {0} : m = PowerOfTwo[i - 1]
    BY <2>1, PowersOfTwo
  <2>3. n \div m \in Nat
    <3>0. n \in Int
      OBVIOUS
    <3>1. PICK q \in Int, r \in 0..(m - 1) : q = n \div m /\ n = m * q + r
      <4>1. n \div m \in Int /\ n % m \in 0..(m - 1) /\ n = m * (n \div m) + (n % m)
        BY <3>0, Division
      <4> QED BY <4>1
    <3>2. SUFFICES ASSUME q <= -1 PROVE FALSE
      BY <3>1
    <3>3. m * q <= 0 - m
      <4>1. m * (-1 - q) >= 0
        <5>1. 0 - (q + 1) \in Nat
          BY <3>2
        <5>2. m * (0 - (q + 1)) \in Nat
          BY <5>1
        <5>3. m * (0 - (q + 1)) = 0 - m - m * q
          OBVIOUS
        <5> QED BY <5>2, <5>3
      <4>2. m * (-1 - q) = 0 - m - m * q
        OBVIOUS
      <4> QED BY <4>1, <4>2
    <3> QED BY <3>1, <3>3
  <2> QED BY <2>2, <2>3
<1>2. ASSUME NEW i \in 1..length
      PROVE  /\ CreateConstantShare(rest(i) % 2) \in Bits(prime)
             /\ CreateConstantShare(rest(i) % 2).value = rest(i) % 2
  <2>1. rest(i) % 2 \in {0, 1} /\ rest(i) % 2 \in 0..(prime - 1)
    BY <1>1
  <2> HIDE DEF rest
  <2> QED BY <2>1, <1>0, ConstantIs DEF Bits
<1>3. d = [i \in 1..length |-> CreateConstantShare(rest(i) % 2)]
  BY Zenon DEF BitDecomposition
<1>4. d \in Seq(Bits(prime)) /\ Len(d) = length /\ \A i \in 1..length : d[i].value = rest(i) % 2
  <2> HIDE DEF rest, d
  <2> QED BY <1>2, <1>3
<1>5. IsNumber(NumberFrom(d), d)
  BY <1>0, <1>4, NumbersExist
<1>6. PICK num : num = NumberFrom(d)
  OBVIOUS
<1> DEFINE Good == {i \in 1..(length + 1) : num[i] = rest(i)}
<1>7. length + 1 \in Good
  <2>1. num[length + 1] = 0
    BY <1>4, <1>5, <1>6 DEF IsNumber
  <2>2. PICK m \in Nat \ {0} : m = PowerOfTwo[length]
    BY PowersOfTwo
  <2>3. n \div m = 0
    <3>1. n = m * 0 + n /\ n \in 0..(m - 1) /\ n \in Int
      BY <2>2
    <3> QED BY <3>1, QuotientIs
  <2>4. (length + 1) - 1 = length
    OBVIOUS
  <2> QED BY <2>1, <2>2, <2>3, <2>4
<1>8. ASSUME NEW i \in 1..length, i + 1 \in Good PROVE i \in Good
  <2>1. num[i] = 2 * num[i + 1] + d[i].value
    BY <1>4, <1>5, <1>6 DEF IsNumber
  <2>2. PICK m \in Nat \ {0} : m = PowerOfTwo[i - 1] /\ 2 * m = PowerOfTwo[i]
    <3>1. i - 1 \in Nat /\ (i - 1) + 1 = i
      OBVIOUS
    <3> QED BY <3>1, PowersOfTwo
  <2>3. rest(i) = n \div m /\ rest(i + 1) = n \div (2 * m)
    <3>1. (i + 1) - 1 = i
      OBVIOUS
    <3> QED BY <2>2, <3>1
  <2>4. n \div m = 2 * (n \div (2 * m)) + ((n \div m) % 2)
    BY Halves
  <2>5. num[i] = rest(i)
    BY <2>1, <2>3, <2>4, <1>8, <1>4
  <2> QED BY <2>5
<1>9. 1 \in Good
  <2>1. Good \in SUBSET (1..(length + 1))
    OBVIOUS
  <2>2. 1..(length + 1) \subseteq Good
    <3> HIDE DEF Good
    <3> QED BY <2>1, <1>7, <1>8, BackwardStays
  <2> QED BY <2>2
<1>10. rest(1) = n
  <2>1. n = 1 * n + 0 /\ 0 \in 0..(1 - 1) /\ n \in Int /\ 1 \in Nat \ {0}
    OBVIOUS
  <2>2. n \div 1 = n
    BY <2>1, QuotientIs
  <2>3. PowerOfTwo[1 - 1] = 1
    BY PowersOfTwo
  <2> QED BY <2>2, <2>3
<1> QED
  BY <1>4, <1>6, <1>9, <1>10 DEF Number

-----------------------------------------------------------------------------
(***************************************************************************)
(* Comparing numbers by their bits.                                        *)
(***************************************************************************)

\* a[i] and b[i] are the numbers that the bits of u and v stand for from the i-th on.
AreNumbers(a, b, u, v, n) ==
  /\ n \in Nat \ {0}
  /\ a \in [1..(n + 1) -> Nat] /\ b \in [1..(n + 1) -> Nat]
  /\ u \in [1..n -> {0, 1}] /\ v \in [1..n -> {0, 1}]
  /\ a[n + 1] = 0 /\ b[n + 1] = 0
  /\ \A i \in 1..n : a[i] = 2 * a[i + 1] + u[i] /\ b[i] = 2 * b[i + 1] + v[i]

\* One step of comparing.
LEMMA Doubles ==
  ASSUME NEW x \in Nat, NEW y \in Nat, NEW e \in {0, 1}, NEW f \in {0, 1}
  PROVE  /\ 2 * x + e # 2 * y + f <=> x # y \/ e # f
         /\ 2 * x + e < 2 * y + f <=> x < y \/ (x = y /\ e < f)
OBVIOUS

\* A prefix of disjunctions tells where the numbers differ.
LEMMA PrefixOr ==
  ASSUME NEW a, NEW b, NEW u, NEW v, NEW n, AreNumbers(a, b, u, v, n), NEW d,
         d[n] = IF u[n] # v[n] THEN 1 ELSE 0,
         \A i \in 1..(n - 1) : d[i] = IF u[i] # v[i] \/ d[i + 1] = 1 THEN 1 ELSE 0
  PROVE  \A i \in 1..n : d[i] = IF a[i] # b[i] THEN 1 ELSE 0
<1> DEFINE Good == {i \in 1..n : d[i] = IF a[i] # b[i] THEN 1 ELSE 0}
<1>0. n \in Nat \ {0}
  BY DEF AreNumbers
<1>1. ASSUME NEW i \in 1..n
      PROVE  /\ i + 1 \in 1..(n + 1) /\ a[i + 1] \in Nat /\ b[i + 1] \in Nat
             /\ a[i] # b[i] <=> a[i + 1] # b[i + 1] \/ u[i] # v[i]
  <2>1. PICK x \in Nat, y \in Nat, e \in {0, 1}, f \in {0, 1} :
          /\ x = a[i + 1] /\ y = b[i + 1] /\ e = u[i] /\ f = v[i]
          /\ a[i] = 2 * x + e /\ b[i] = 2 * y + f
    <3>1. i + 1 \in 1..(n + 1)
      BY <1>0
    <3>2. /\ a[i + 1] \in Nat /\ b[i + 1] \in Nat /\ u[i] \in {0, 1} /\ v[i] \in {0, 1}
          /\ a[i] = 2 * a[i + 1] + u[i] /\ b[i] = 2 * b[i + 1] + v[i]
      BY <3>1 DEF AreNumbers
    <3> QED BY <3>2
  <2> QED BY <1>0, <2>1, Doubles
<1>2. n \in Good
  <2>1. a[n + 1] = b[n + 1] /\ n \in 1..n
    BY <1>0 DEF AreNumbers
  <2> QED BY <2>1, <1>1
<1>3. ASSUME NEW i \in 1..(n - 1), i + 1 \in Good PROVE i \in Good
  <2>1. i \in 1..n /\ d[i + 1] = IF a[i + 1] # b[i + 1] THEN 1 ELSE 0
    BY <1>0, <1>3
  <2>2. d[i] = IF u[i] # v[i] \/ d[i + 1] = 1 THEN 1 ELSE 0
    OBVIOUS
  <2> QED BY <2>1, <2>2, <1>1
<1>4. 1..n \subseteq Good
  <2>1. n - 1 \in Nat /\ (n - 1) + 1 = n /\ Good \in SUBSET (1..((n - 1) + 1))
    BY <1>0
  <2> HIDE DEF Good
  <2>2. 1..((n - 1) + 1) \subseteq Good
    BY <2>1, <1>2, <1>3, BackwardStays
  <2> QED BY <2>1, <2>2
<1> QED
  BY <1>4

\* The sum of the bits of the second number, where the numbers differ first, tells whether it
\* is the greater one.
LEMMA HighestDecides ==
  ASSUME NEW a, NEW b, NEW u, NEW v, NEW n, AreNumbers(a, b, u, v, n), NEW m, NEW s,
         NEW p \in Nat, p > 2,
         \A i \in 1..n : m[i] = IF a[i] # b[i] /\ a[i + 1] = b[i + 1] /\ v[i] = 1 THEN 1 ELSE 0,
         s[n] = m[n],
         \A i \in 1..(n - 1) : s[i] = (m[i] + s[i + 1]) % p
  PROVE  s[1] = IF a[1] < b[1] THEN 1 ELSE 0
<1> DEFINE Good == {i \in 1..n : s[i] = IF a[i] < b[i] THEN 1 ELSE 0}
<1>0. n \in Nat \ {0} /\ p \in Nat \ {0}
  BY DEF AreNumbers
<1>1. ASSUME NEW i \in 1..n
      PROVE  /\ i + 1 \in 1..(n + 1) /\ a[i + 1] \in Nat /\ b[i + 1] \in Nat
             /\ a[i] # b[i] <=> a[i + 1] # b[i + 1] \/ u[i] # v[i]
             /\ a[i] < b[i] <=> a[i + 1] < b[i + 1] \/ (a[i + 1] = b[i + 1] /\ u[i] < v[i])
             /\ u[i] \in {0, 1} /\ v[i] \in {0, 1}
  <2>1. PICK x \in Nat, y \in Nat, e \in {0, 1}, f \in {0, 1} :
          /\ x = a[i + 1] /\ y = b[i + 1] /\ e = u[i] /\ f = v[i]
          /\ a[i] = 2 * x + e /\ b[i] = 2 * y + f
    <3>1. i + 1 \in 1..(n + 1)
      BY <1>0
    <3>2. /\ a[i + 1] \in Nat /\ b[i + 1] \in Nat /\ u[i] \in {0, 1} /\ v[i] \in {0, 1}
          /\ a[i] = 2 * a[i + 1] + u[i] /\ b[i] = 2 * b[i + 1] + v[i]
      BY <3>1 DEF AreNumbers
    <3> QED BY <3>2
  <2> QED BY <1>0, <2>1, Doubles
<1>2. ASSUME NEW i \in 1..n
      PROVE  /\ a[i + 1] < b[i + 1] => m[i] = 0
             /\ a[i] < b[i] /\ ~ a[i + 1] < b[i + 1] => m[i] = 1
             /\ ~ a[i] < b[i] => m[i] = 0
  BY <1>1
<1>3. n \in Good
  <2>1. a[n + 1] = b[n + 1] /\ n \in 1..n /\ a[n + 1] = 0
    BY <1>0 DEF AreNumbers
  <2>2. m[n] = IF a[n] < b[n] THEN 1 ELSE 0
    <3>1. a[n + 1] = 0 /\ b[n + 1] = 0
      BY <2>1
    <3>2. ~ a[n + 1] < b[n + 1]
      BY <3>1
    <3> QED BY <2>1, <3>2, <1>2
  <2> QED BY <2>1, <2>2
<1>4. ASSUME NEW i \in 1..(n - 1), i + 1 \in Good PROVE i \in Good
  <2>1. i \in 1..n /\ s[i + 1] = IF a[i + 1] < b[i + 1] THEN 1 ELSE 0
    BY <1>0, <1>4
  <2>2. s[i] = (m[i] + s[i + 1]) % p
    OBVIOUS
  <2>3. 0 % p = 0 /\ 1 % p = 1
    BY <1>0, SmallRemainders
  <2>4. CASE a[i + 1] < b[i + 1]
    <3>1. m[i] = 0 /\ s[i + 1] = 1 /\ a[i] < b[i]
      BY <2>1, <2>4, <1>1, <1>2
    <3>2. s[i] = 1
      BY <3>1, <2>2, <2>3
    <3> QED BY <3>1, <3>2, <2>1
  <2>5. CASE ~ a[i + 1] < b[i + 1]
    <3>1. s[i + 1] = 0 /\ m[i] = IF a[i] < b[i] THEN 1 ELSE 0
      BY <2>1, <2>5, <1>2
    <3>2. s[i] = m[i]
      BY <3>1, <2>2, <2>3
    <3> QED BY <3>1, <3>2, <2>1
  <2> QED BY <2>4, <2>5
<1>5. 1..n \subseteq Good
  <2>1. n - 1 \in Nat /\ (n - 1) + 1 = n /\ Good \in SUBSET (1..((n - 1) + 1))
    BY <1>0
  <2> HIDE DEF Good
  <2>2. 1..((n - 1) + 1) \subseteq Good
    BY <2>1, <1>3, <1>4, BackwardStays
  <2> QED BY <2>1, <2>2
<1> QED
  BY <1>0, <1>5

-----------------------------------------------------------------------------
(***************************************************************************)
(* What the protocols promise, and what they are called with.              *)
(***************************************************************************)

Truth(b) == IF b THEN 1 ELSE 0
IsShareOf(r, v, p) == r \in Shares(p) /\ r.value = v

\* The protocols whose result is a share of a value that follows from what they are called
\* with, and this value.
Functional == {"ShareAddition", "ShareMultiplication", "BitComposition", "SharedBitOr",
               "SharedBitXor", "BitwiseLessThan", "LeastSignificantBit", "LessThanHalfPrime",
               "ShareLessThan"}

Promised(c, p) ==
  LET s == c.args[1]  t == c.args[2]
  IN CASE c.protocol = "ShareAddition" -> (s.value + t.value) % p
       [] c.protocol = "ShareMultiplication" -> (s.value * t.value) % p
       [] c.protocol = "BitComposition" -> Number(s)
       [] c.protocol = "SharedBitOr" -> IF s.value = 1 \/ t.value = 1 THEN 1 ELSE 0
       [] c.protocol = "SharedBitXor" -> IF s.value # t.value THEN 1 ELSE 0
       [] c.protocol = "BitwiseLessThan" -> IF Number(s) < Number(t) THEN 1 ELSE 0
       [] c.protocol = "LeastSignificantBit" -> s.value % 2
       [] c.protocol = "LessThanHalfPrime" -> IF 2 * s.value < p THEN 1 ELSE 0
       [] OTHER -> IF s.value < t.value THEN 1 ELSE 0

\* Two shares in the order given, or the other way round.
Arranged(r1, r2, s, t, keep, p) ==
  /\ IsShareOf(r1, IF keep = 1 THEN s.value ELSE t.value, p)
  /\ IsShareOf(r2, IF keep = 1 THEN t.value ELSE s.value, p)

IsPair(r) == r = <<r[1], r[2]>>

IsBelowNumber(r, max, p) == r \in Seq(Bits(p)) /\ Len(r) = BitLength(max) /\ Number(r) < max

\* The results of an operation on each bit, and on each bit and the result for the one above.
EachIs(r, as, bs, op, p) ==
  /\ r \in Seq(Shares(p)) /\ Len(r) = Len(as)
  /\ \A i \in 1..Len(as) : IsShareOf(r[i], Promised(Call(op, <<as[i], bs[i]>>), p), p)

PrefixIs(r, bits, op, p) ==
  /\ r \in Seq(Shares(p)) /\ Len(r) = Len(bits)
  /\ r[Len(bits)] = bits[Len(bits)]
  /\ \A i \in 1..(Len(bits) - 1) :
       IsShareOf(r[i], Promised(Call(op, <<bits[i], r[i + 1]>>), p), p)

\* What is launched together with a call that is proper brings such a result.
Meets(c, r, p) ==
  LET a == c.args
  IN /\ c.protocol \in Functional => IsShareOf(r, Promised(c, p), p)
     /\ c.protocol = "Reconstruction" => r = a[1].value
     /\ c.protocol = "Loopback" => r = a[1]
     /\ c.protocol = "RandGen" => r \in SecretShares(p)
     /\ c.protocol = "RandomBitGen" => r \in Bits(p)
     /\ c.protocol = "RandomBitwiseGen" => IsBelowNumber(r, a[1], p)
     /\ c.protocol = "BitwiseOperation" => EachIs(r, a[1], a[2], a[3], p)
     /\ c.protocol = "PrefixOperation" => PrefixIs(r, a[1], a[2], p)
     /\ c.protocol = "ConditionalSwap" =>
          IsPair(r) /\ Arranged(r[1], r[2], a[1], a[2], a[3].value, p)
     /\ c.protocol = "CompareAndSwap" =>
          IsPair(r) /\ Arranged(r[1], r[2], a[1], a[2], Truth(a[1].value < a[2].value), p)
     /\ c.protocol = "TaggedCompareAndSwap" =>
          /\ IsPair(r) /\ IsPair(r[1]) /\ IsPair(r[2])
          /\ \A k \in {1, 2} : Arranged(r[1][k], r[2][k], a[1][k], a[2][k],
                                        Truth(a[1][1].value < a[2][1].value), p)

TwoOf(a, S) == a \in Seq(S) /\ Len(a) = 2

\* What a call is made with.
Proper(c, p) ==
  LET a == c.args
  IN /\ c.protocol \in {"ShareAddition", "ShareMultiplication", "ShareLessThan",
                        "CompareAndSwap"} => TwoOf(a, Shares(p))
     /\ c.protocol \in {"SharedBitOr", "SharedBitXor"} => TwoOf(a, Bits(p))
     /\ c.protocol = "Reconstruction" => a \in Seq(Shares(p)) /\ Len(a) = 1
     /\ c.protocol = "BitComposition" => a[1] \in Seq(Bits(p)) /\ Number(a[1]) < p
     /\ c.protocol \in {"LeastSignificantBit", "LessThanHalfPrime"} => a[1] \in Shares(p)
     /\ c.protocol = "RandGen" => c = RandGen
     /\ c.protocol = "RandomBitwiseGen" => a[1] = p
     /\ c.protocol = "BitwiseLessThan" =>
          /\ a[1] \in Seq(Bits(p)) /\ a[2] \in Seq(Bits(p))
          /\ Len(a[1]) = Len(a[2]) /\ Len(a[1]) > 0
     /\ c.protocol = "BitwiseOperation" =>
          /\ a[1] \in Seq(Shares(p)) /\ a[2] \in Seq(Shares(p)) /\ Len(a[1]) = Len(a[2])
          /\ a[3] \in {"SharedBitXor", "ShareAddition", "ShareMultiplication"}
          /\ a[3] = "SharedBitXor" => a[1] \in Seq(Bits(p)) /\ a[2] \in Seq(Bits(p))
     /\ c.protocol = "PrefixOperation" =>
          /\ a[1] \in Seq(Shares(p)) /\ Len(a[1]) > 0
          /\ a[2] \in {"SharedBitOr", "ShareAddition"}
          /\ a[2] = "SharedBitOr" => a[1] \in Seq(Bits(p))
     /\ c.protocol = "ConditionalSwap" =>
          a[1] \in Shares(p) /\ a[2] \in Shares(p) /\ a[3] \in Bits(p)
     /\ c.protocol = "TaggedCompareAndSwap" => TwoOf(a[1], Shares(p)) /\ TwoOf(a[2], Shares(p))
     /\ c.protocol \in Functional \union
          {"Reconstruction", "Loopback", "RandGen", "RandomBitGen", "RandomBitwiseGen",
           "BitwiseOperation", "PrefixOperation", "ConditionalSwap", "CompareAndSwap",
           "TaggedCompareAndSwap"}

-----------------------------------------------------------------------------
(***************************************************************************)
(* What a protocol has launched and keeps, stage by stage.                 *)
(***************************************************************************)

\* A call that brings a share of this value, and a batch of one.
Gives(c, v, p) == c.protocol \in Functional /\ Promised(c, p) = v
One(batch, v, p) == Len(batch) = 1 /\ Gives(batch[1], v, p)

Opens(c, v, p) == c.protocol = "Reconstruction" /\ c.args[1].value = v
Swaps(c, s, t, v) ==
  c.protocol = "ConditionalSwap" /\ c.args[1] = s /\ c.args[2] = t /\ c.args[3].value = v

AtCompareAndSwap(a, stage, batch, p) ==
  LET less == Truth(a[1].value < a[2].value)
  IN \/ stage = 0 /\ One(batch, less, p)
     \/ stage = 1 /\ Len(batch) = 1 /\ Swaps(batch[1], a[1], a[2], less)

AtTaggedCompareAndSwap(a, stage, batch, p) ==
  LET less == Truth(a[1][1].value < a[2][1].value)
  IN \/ stage = 0 /\ One(batch, less, p)
     \/ /\ stage = 1 /\ Len(batch) = 2
        /\ Swaps(batch[1], a[1][1], a[2][1], less)
        /\ Swaps(batch[2], a[1][2], a[2][2], less)

AtConditionalSwap(a, stage, batch, p) ==
  LET b == a[3].value  s == a[1].value  t == a[2].value
  IN \/ stage = 0 /\ One(batch, 1 - b, p)
     \/ /\ stage = 1 /\ Len(batch) = 4
        /\ Gives(batch[1], b * s, p) /\ Gives(batch[2], (1 - b) * s, p)
        /\ Gives(batch[3], b * t, p) /\ Gives(batch[4], (1 - b) * t, p)
     \/ /\ stage = 2 /\ Len(batch) = 2
        /\ Gives(batch[1], IF b = 1 THEN s ELSE t, p)
        /\ Gives(batch[2], IF b = 1 THEN t ELSE s, p)

Half(v, p) == IF 2 * v < p THEN 1 ELSE 0

\* Whether the first value, the second and their difference are less than half of the prime,
\* and the exclusive disjunction of two bits.
FirstHalf(a, p) == Half(a[1].value, p)
SecondHalf(a, p) == Half(a[2].value, p)
DifferenceHalf(a, p) == Half((a[1].value - a[2].value) % p, p)
TwoBits(x, y) == x + y - 2 * x * y

AtLessThan(a, stage, fields, batch, p) ==
  LET w == FirstHalf(a, p)  x == SecondHalf(a, p)  y == DifferenceHalf(a, p)
  IN \/ stage = 0 /\ One(batch, (a[1].value - a[2].value) % p, p)
     \/ /\ stage = 1 /\ Len(batch) = 3
        /\ Gives(batch[1], w, p) /\ Gives(batch[2], x, p) /\ Gives(batch[3], y, p)
     \/ /\ stage = 2 /\ Len(batch) = 2
        /\ IsShareOf(fields.w, w, p)
        /\ Gives(batch[1], x * y, p) /\ Gives(batch[2], x + y, p)
     \/ /\ stage \in 3..8
        /\ IsShareOf(fields.w, w, p) /\ IsShareOf(fields.xy, x * y, p)
        /\ IsShareOf(fields.xpy, x + y, p)
        /\ stage = 3 => One(batch, 2 * (x * y), p)
        /\ stage = 4 => One(batch, TwoBits(x, y), p)
        /\ stage = 5 => One(batch, w * TwoBits(x, y), p)
        /\ stage = 6 => One(batch, x * y + w * TwoBits(x, y), p)
        /\ stage = 7 => One(batch, (x * y + w * TwoBits(x, y) - (x + y)) % p, p)
        /\ stage = 8 => One(batch, Truth(a[1].value < a[2].value), p)

AtLessThanHalfPrime(a, stage, batch, p) ==
  LET s == a[1].value
  IN \/ stage = 0 /\ One(batch, (2 * s) % p, p)
     \/ stage = 1 /\ One(batch, 1 - Half(s, p), p)
     \/ stage = 2 /\ One(batch, Half(s, p), p)

Unequal(u, v) == IF u # v THEN 1 ELSE 0

AtLeastSignificantBit(a, stage, fields, batch, p) ==
  LET s == a[1].value  r == fields.bitwiseRand  padded == (Number(r) + s) % p
  IN \/ stage = 0 /\ batch = <<RandomBitwiseGen(p)>>
     \/ stage = 1 /\ IsBelowNumber(r, p, p) /\ One(batch, Number(r), p)
     \/ stage = 2 /\ IsBelowNumber(r, p, p) /\ One(batch, padded, p)
     \/ stage = 3 /\ IsBelowNumber(r, p, p) /\ Len(batch) = 1 /\ Opens(batch[1], padded, p)
     \/ /\ stage = 4 /\ IsBelowNumber(r, p, p) /\ fields.revealedPadded = padded
        /\ One(batch, Unequal(padded % 2, r[1].value), p)
     \/ /\ stage = 5 /\ fields.x \in Bits(p)
        /\ \E v \in {0, 1} : One(batch, v, p) /\ Unequal(fields.x.value, v) = s % 2
     \/ stage = 6 /\ One(batch, s % 2, p)

AtRandomBitwiseGen(stage, fields, batch, p) ==
  LET r == fields.result  below == IF Number(r) < p THEN 1 ELSE 0
  IN \/ stage = 0 /\ batch = [i \in 1..BitLength(p) |-> RandomBitGen]
     \/ /\ stage \in {1, 2} /\ r \in Seq(Bits(p)) /\ Len(r) = BitLength(p)
        /\ stage = 1 => One(batch, below, p)
        /\ stage = 2 => Len(batch) = 1 /\ Opens(batch[1], below, p)

AtRandomBitGen(stage, fields, batch, p) ==
  LET v == fields.randShare.value
  IN \/ stage = 0 /\ batch = <<RandGen>>
     \/ /\ stage \in {1, 2} /\ fields.randShare \in SecretShares(p)
        /\ stage = 1 => One(batch, (v * v) % p, p)
        /\ stage = 2 => Len(batch) = 1 /\ Opens(batch[1], (v * v) % p, p)

\* Where two numbers differ, where they differ first, and where they do while this bit is set.
Differ(A, B, i) == Unequal(A[i], B[i])
DifferFirst(A, B, i) == Truth(A[i] # B[i] /\ A[i + 1] = B[i + 1])
Decides(A, B, i, bit) == IF A[i] # B[i] /\ A[i + 1] = B[i + 1] /\ bit = 1 THEN 1 ELSE 0

AtBitwiseLessThan(a, stage, fields, batch, p) ==
  LET as == a[1]  bs == a[2]  n == Len(as)  A == NumberFrom(as)  B == NumberFrom(bs)
  IN \/ stage = 0 /\ batch = <<BitwiseOperation(as, bs, "SharedBitXor")>>
     \/ /\ stage = 1
        /\ \E x : /\ batch = <<PrefixOperation(x, "SharedBitOr")>> /\ Len(x) = n
                  /\ \A i \in 1..n : IsShareOf(x[i], Unequal(as[i].value, bs[i].value), p)
     \/ /\ stage = 2
        /\ fields.d \in Seq(Shares(p)) /\ Len(fields.d) = n
        /\ \A i \in 1..n : IsShareOf(fields.d[i], Differ(A, B, i), p)
        /\ Len(batch) = 1
        /\ \A r : Meets(batch[1], r, p) =>
             /\ r \in Seq(Shares(p)) /\ Len(r) = n - 1
             /\ \A i \in 1..(n - 1) : IsShareOf(r[i], DifferFirst(A, B, i), p)
     \/ /\ stage = 3
        /\ \E e : /\ batch = <<BitwiseOperation(bs, e, "ShareMultiplication")>> /\ Len(e) = n
                  /\ \A i \in 1..n : IsShareOf(e[i], DifferFirst(A, B, i), p)
     \/ /\ stage = 4
        /\ \E m : /\ batch = <<PrefixOperation(m, "ShareAddition")>> /\ Len(m) = n
                  /\ \A i \in 1..n : IsShareOf(m[i], Decides(A, B, i, bs[i].value), p)

AtBitwiseOperation(a, stage, batch) ==
  stage = 0 /\ batch = [i \in 1..Len(a[1]) |-> Call(a[3], <<a[1][i], a[2][i]>>)]

\* The part of the result that is there, its highest bit first.
PrefixSoFar(f, bits, op, p) ==
  /\ f \in Seq(Shares(p)) /\ Len(f) \in 1..Len(bits)
  /\ f[1] = bits[Len(bits)]
  /\ op = "SharedBitOr" => f \in Seq(Bits(p))
  /\ \A k \in 1..(Len(f) - 1) :
       IsShareOf(f[k + 1], Promised(Call(op, <<bits[Len(bits) - k], f[k]>>), p), p)

AtPrefixOperation(a, stage, fields, batch, p) ==
  LET bits == a[1]  op == a[2]  n == Len(bits)
  IN /\ stage = 0
     /\ \/ fields = <<>> /\ batch = <<>>
        \/ /\ fields # <<>> /\ PrefixSoFar(fields, bits, op, p) /\ Len(fields) < n
           /\ batch = <<Call(op, <<bits[n - Len(fields)], fields[Len(fields)]>>)>>

AtSharedBitXor(a, stage, fields, batch, p) ==
  LET s == a[1].value  t == a[2].value
  IN \/ stage = 0 /\ One(batch, s * t, p)
     \/ stage = 1 /\ IsShareOf(fields.bitProd, s * t, p) /\ One(batch, s + t, p)
     \/ stage = 2 /\ One(batch, Unequal(s, t), p)

AtSharedBitOr(a, stage, fields, batch, p) ==
  LET s == a[1].value  t == a[2].value
  IN \/ stage = 0 /\ One(batch, s * t, p)
     \/ stage = 1 /\ IsShareOf(fields.bitProd, s * t, p) /\ One(batch, s + t, p)
     \/ stage = 2 /\ One(batch, IF s = 1 \/ t = 1 THEN 1 ELSE 0, p)

At(c, stage, fields, batch, p) ==
  LET a == c.args
  IN /\ c.protocol = "CompareAndSwap" => AtCompareAndSwap(a, stage, batch, p)
     /\ c.protocol = "TaggedCompareAndSwap" => AtTaggedCompareAndSwap(a, stage, batch, p)
     /\ c.protocol = "ConditionalSwap" => AtConditionalSwap(a, stage, batch, p)
     /\ c.protocol = "ShareLessThan" => AtLessThan(a, stage, fields, batch, p)
     /\ c.protocol = "LessThanHalfPrime" => AtLessThanHalfPrime(a, stage, batch, p)
     /\ c.protocol = "LeastSignificantBit" => AtLeastSignificantBit(a, stage, fields, batch, p)
     /\ c.protocol = "RandomBitwiseGen" => AtRandomBitwiseGen(stage, fields, batch, p)
     /\ c.protocol = "RandomBitGen" => AtRandomBitGen(stage, fields, batch, p)
     /\ c.protocol = "BitwiseLessThan" => AtBitwiseLessThan(a, stage, fields, batch, p)
     /\ c.protocol = "BitwiseOperation" => AtBitwiseOperation(a, stage, batch)
     /\ c.protocol = "PrefixOperation" => AtPrefixOperation(a, stage, fields, batch, p)
     /\ c.protocol = "SharedBitXor" => AtSharedBitXor(a, stage, fields, batch, p)
     /\ c.protocol = "SharedBitOr" => AtSharedBitOr(a, stage, fields, batch, p)

-----------------------------------------------------------------------------
(***************************************************************************)
(* Frames: a batch of calls, of which the first have met what was promised *)
(* and the others are to do.                                               *)
(***************************************************************************)

IsFrame(f) ==
  f \in [call : {f.call}, stage : {f.stage}, fields : {f.fields}, todo : {f.todo},
         results : {f.results}]

IsBatch(batch, p) == (\E S : batch \in Seq(S)) /\ \A i \in 1..Len(batch) : Proper(batch[i], p)

InProgress(f, batch, p) ==
  /\ IsFrame(f) /\ IsBatch(batch, p)
  /\ \E R : f.results \in Seq(R)
  /\ Len(f.results) <= Len(batch)
  /\ f.todo = SubSeq(batch, Len(f.results) + 1, Len(batch))
  /\ \A i \in 1..Len(f.results) : Meets(batch[i], f.results[i], p)

FrameOK(f, p) ==
  /\ Proper(f.call, p)
  /\ \E batch : InProgress(f, batch, p) /\ At(f.call, f.stage, f.fields, batch, p)

\* The rest of a sequence, its head and its tail.
LEMMA RestOf ==
  ASSUME NEW S, NEW batch \in Seq(S), NEW k \in Nat, NEW n, n = Len(batch), k <= n
  PROVE  /\ SubSeq(batch, k + 1, n) = <<>> => k = n
         /\ k < n => /\ Head(SubSeq(batch, k + 1, n)) = batch[k + 1]
                     /\ Tail(SubSeq(batch, k + 1, n)) = SubSeq(batch, k + 2, n)
<1>0. n \in Nat
  OBVIOUS
<1>1. SubSeq(batch, k + 1, n) \in Seq(S) /\ Len(SubSeq(batch, k + 1, n)) = n - k
      /\ \A i \in 1..(n - k) : SubSeq(batch, k + 1, n)[i] = batch[k + i]
  BY <1>0
<1>2. ASSUME k < n
      PROVE  /\ Head(SubSeq(batch, k + 1, n)) = batch[k + 1]
             /\ Tail(SubSeq(batch, k + 1, n)) = SubSeq(batch, k + 2, n)
  <2> DEFINE q == SubSeq(batch, k + 1, n)
             r == SubSeq(batch, k + 2, n)
  <2>1. Head(q) = batch[k + 1]
    BY <1>1, <1>2
  <2>2. r \in Seq(S) /\ Len(r) = n - k - 1 /\ \A i \in 1..(n - k - 1) : r[i] = batch[k + 1 + i]
    BY <1>0, <1>2
  <2>3. Tail(q) \in Seq(S) /\ Len(Tail(q)) = n - k - 1 /\ \A i \in 1..(n - k - 1) : Tail(q)[i] = q[i + 1]
    BY <1>0, <1>1, <1>2
  <2>4. \A i \in 1..(n - k - 1) : Tail(q)[i] = r[i]
    BY <2>2, <2>3, <1>1, <1>0, <1>2
  <2> HIDE DEF q, r
  <2>5. Tail(q) = r
    BY <2>2, <2>3, <2>4, SeqEqual
  <2> QED BY <2>1, <2>5 DEF q, r
<1>3. ASSUME SubSeq(batch, k + 1, n) = <<>> PROVE k = n
  <2>1. Len(SubSeq(batch, k + 1, n)) = 0
    BY <1>3
  <2> QED BY <1>0, <1>1, <2>1
<1> QED
  BY <1>2, <1>3

\* A frame with these fields.
LEMMA FramesAre ==
  ASSUME NEW f, NEW c, NEW stage, NEW fields, NEW todo, NEW results,
         f \in [call : {c}, stage : {stage}, fields : {fields}, todo : {todo},
               results : {results}]
  PROVE  f = [call |-> c, stage |-> stage, fields |-> fields, todo |-> todo,
              results |-> results]
OBVIOUS

\* What answering and executing do to a frame.
LEMMA FrameAnswers ==
  ASSUME NEW f, IsFrame(f), NEW r
  PROVE  [f EXCEPT !.todo = Tail(@), !.results = Append(@, r)] =
           [call |-> f.call, stage |-> f.stage, fields |-> f.fields, todo |-> Tail(f.todo),
            results |-> Append(f.results, r)]
<1> DEFINE g == [f EXCEPT !.todo = Tail(@), !.results = Append(@, r)]
<1>1. g \in [call : {f.call}, stage : {f.stage}, fields : {f.fields}, todo : {Tail(f.todo)},
             results : {Append(f.results, r)}]
  BY DEF IsFrame
<1> HIDE DEF g
<1>2. g = [call |-> f.call, stage |-> f.stage, fields |-> f.fields, todo |-> Tail(f.todo),
           results |-> Append(f.results, r)]
  BY ONLY <1>1, FramesAre
<1> QED
  BY <1>2 DEF g

\* What ExecuteSubProtocols makes of the frame on top.
LEMMA FrameExecutes ==
  ASSUME NEW f, IsFrame(f), NEW stage, NEW calls, NEW fields
  PROVE  [f EXCEPT !.stage = stage, !.todo = calls, !.results = <<>>, !.fields = fields] =
           [call |-> f.call, stage |-> stage, fields |-> fields, todo |-> calls,
            results |-> <<>>]
<1> DEFINE h == [f EXCEPT !.stage = stage, !.todo = calls, !.results = <<>>, !.fields = fields]
<1>1. h \in [call : {f.call}, stage : {stage}, fields : {fields}, todo : {calls},
             results : {<<>>}]
  BY DEF IsFrame
<1> HIDE DEF h
<1>2. h = [call |-> f.call, stage |-> stage, fields |-> fields, todo |-> calls,
           results |-> <<>>]
  BY ONLY <1>1, FramesAre
<1> QED
  BY <1>2 DEF h

\* A batch that has just been launched.
LEMMA Launches ==
  ASSUME NEW p, NEW c, NEW stage, NEW fields, NEW batch, IsBatch(batch, p),
         NEW f, f = [call |-> c, stage |-> stage, fields |-> fields, todo |-> batch,
                     results |-> <<>>]
  PROVE  InProgress(f, batch, p)
<1>1. IsFrame(f) /\ f.todo = batch /\ f.results = <<>>
  BY DEF IsFrame
<1>2. PICK S : batch \in Seq(S)
  BY DEF IsBatch
<1>3. batch = SubSeq(batch, 0 + 1, Len(batch))
  BY <1>2
<1>4. <<>> \in Seq(S) /\ Len(<<>>) = 0 /\ 0 <= Len(batch)
  BY <1>2
<1> QED
  BY <1>1, <1>3, <1>4 DEF InProgress

\* The first of the calls that are to do, and what its result does.
LEMMA Answers ==
  ASSUME NEW p, NEW f, NEW batch, InProgress(f, batch, p), f.todo # <<>>
  PROVE  /\ Proper(Head(f.todo), p)
         /\ \A r : Meets(Head(f.todo), r, p) =>
              InProgress([f EXCEPT !.todo = Tail(@), !.results = Append(@, r)], batch, p)
<1>1. PICK S : batch \in Seq(S)
  BY DEF InProgress, IsBatch
<1>2. PICK R : f.results \in Seq(R)
  BY DEF InProgress
<1> DEFINE k == Len(f.results)
           n == Len(batch)
<1>3. k \in Nat /\ n \in Nat /\ k <= n /\ f.todo = SubSeq(batch, k + 1, n)
  BY <1>1, <1>2 DEF InProgress
<1>4. k < n
  <2>1. SUFFICES ASSUME k = n PROVE FALSE
    BY <1>3
  <2>2. SubSeq(batch, k + 1, n) = <<>>
    BY <1>3, <2>1, SubSeqEmpty
  <2> QED BY <1>3, <2>2
<1>5. Head(f.todo) = batch[k + 1] /\ Tail(f.todo) = SubSeq(batch, k + 2, n)
  <2> HIDE DEF k
  <2> QED BY <1>1, <1>3, <1>4, RestOf
<1>6. Proper(Head(f.todo), p)
  BY <1>3, <1>4, <1>5 DEF InProgress, IsBatch
<1>7. ASSUME NEW r, Meets(Head(f.todo), r, p)
      PROVE  InProgress([f EXCEPT !.todo = Tail(@), !.results = Append(@, r)], batch, p)
  <2> DEFINE g == [f EXCEPT !.todo = Tail(@), !.results = Append(@, r)]
  <2>1. g = [call |-> f.call, stage |-> f.stage, fields |-> f.fields, todo |-> Tail(f.todo),
             results |-> Append(f.results, r)]
    BY FrameAnswers DEF InProgress
  <2>2. Append(f.results, r) \in Seq(R \union {r}) /\ Len(Append(f.results, r)) = k + 1
        /\ Append(f.results, r)[k + 1] = r
        /\ \A i \in 1..k : Append(f.results, r)[i] = f.results[i]
    <3>1. f.results \in Seq(R \union {r})
      BY <1>2
    <3> QED BY <3>1
  <2>3. (k + 1) + 1 = k + 2 /\ k + 1 <= n
    BY <1>3, <1>4
  <2>4. ASSUME NEW i \in 1..(k + 1) PROVE Meets(batch[i], Append(f.results, r)[i], p)
    <3>1. CASE i = k + 1
      BY <3>1, <1>7, <1>5, <2>2
    <3>2. CASE i # k + 1
      <4>1. i \in 1..k
        BY <1>3, <3>2
      <4> QED BY <4>1, <2>2 DEF InProgress
    <3> QED BY <3>1, <3>2
  <2>5. IsFrame(g)
    <3> HIDE DEF g
    <3> QED BY <2>1 DEF IsFrame
  <2>6. g.todo = SubSeq(batch, k + 2, n) /\ g.results = Append(f.results, r)
    <3> HIDE DEF g
    <3> QED BY <2>1, <1>5
  <2>7. IsBatch(batch, p)
    BY DEF InProgress
  <2> HIDE DEF g, k, n
  <2>8. InProgress(g, batch, p)
    BY <2>2, <2>3, <2>4, <2>5, <2>6, <2>7 DEF InProgress, n
  <2> QED BY <2>8 DEF g
<1> QED
  BY <1>6, <1>7

\* When nothing is left to do, there is a result for each call.
LEMMA AllDone ==
  ASSUME NEW p, NEW f, NEW batch, InProgress(f, batch, p), f.todo = <<>>
  PROVE  /\ \E R : f.results \in Seq(R)
         /\ Len(f.results) = Len(batch)
         /\ \A i \in 1..Len(batch) : Meets(batch[i], f.results[i], p)
<1>1. PICK S : batch \in Seq(S)
  BY DEF InProgress, IsBatch
<1>2. PICK R : f.results \in Seq(R)
  BY DEF InProgress
<1>3. Len(f.results) = Len(batch)
  <2>1. Len(f.results) \in Nat /\ Len(batch) \in Nat
    BY <1>1, <1>2
  <2>2. Len(f.results) <= Len(batch) /\ SubSeq(batch, Len(f.results) + 1, Len(batch)) = <<>>
    BY DEF InProgress
  <2>3. PICK k \in Nat : k = Len(f.results)
    BY <2>1
  <2> QED BY <1>1, <2>2, <2>3, RestOf
<1> QED
  BY <1>3 DEF InProgress

-----------------------------------------------------------------------------
(***************************************************************************)
(* The stack: each frame waits for the first call that it has to do.       *)
(***************************************************************************)

Asked ==
  IF Untagged THEN Call("CompareAndSwap", <<inputs[1][1], inputs[2][1]>>)
  ELSE Call("TaggedCompareAndSwap", inputs)

StackOK ==
  /\ \E S : stack \in Seq(S)
  /\ \A i \in 1..Len(stack) : FrameOK(stack[i], prime)
  /\ \A i \in 1..(Len(stack) - 1) :
       stack[i + 1].todo # <<>> /\ Head(stack[i + 1].todo) = stack[i].call
  /\ stack # <<>> => stack[Len(stack)].call = Asked /\ outcome = <<>>
  /\ stack = <<>> => Meets(Asked, outcome, prime)

InputsOK ==
  \/ /\ Len(inputs) = 2 /\ \A i \in {1, 2} : inputs[i] \in Seq(Shares(prime)) /\ Len(inputs[i]) = 1
  \/ /\ Len(inputs) = 2 /\ \A i \in {1, 2} : inputs[i] \in Seq(Shares(prime)) /\ Len(inputs[i]) = 2

GateOK == IsPrime(prime) /\ StackOK

\* The frame on top is replaced.
LEMMA TopReplaced ==
  ASSUME GateOK, stack # <<>>, NEW g, FrameOK(g, prime), g.call = Top.call,
         stack' = [stack EXCEPT ![1] = g], UNCHANGED <<prime, inputs, outcome>>
  PROVE  GateOK'
<1>1. PICK S : stack \in Seq(S)
  BY DEF GateOK, StackOK
<1>2. Len(stack) \in Nat /\ Len(stack) > 0
  BY <1>1
<1>3. stack' \in Seq(S \union {g}) /\ Len(stack') = Len(stack) /\ stack'[1] = g
      /\ \A i \in 2..Len(stack) : stack'[i] = stack[i]
  <2>1. stack \in Seq(S \union {g})
    BY <1>1
  <2> QED BY <1>2, <2>1
<1>4. prime' = prime /\ inputs' = inputs /\ outcome' = outcome
  OBVIOUS
<1>5. Asked' = Asked
  BY <1>4 DEF Asked, Untagged
<1>6. ASSUME NEW i \in 1..Len(stack') PROVE FrameOK(stack'[i], prime')
  <2>1. CASE i = 1
    BY <2>1, <1>3, <1>4
  <2>2. CASE i # 1
    <3>1. i \in 2..Len(stack) /\ i \in 1..Len(stack)
      BY <1>2, <1>3, <2>2
    <3>2. stack'[i] = stack[i] /\ FrameOK(stack[i], prime)
      BY <3>1, <1>3 DEF GateOK, StackOK
    <3> QED BY <3>2, <1>4
  <2> QED BY <2>1, <2>2
<1>7. ASSUME NEW i \in 1..(Len(stack') - 1)
      PROVE  stack'[i + 1].todo # <<>> /\ Head(stack'[i + 1].todo) = stack'[i].call
  <2>1. i \in 1..(Len(stack) - 1) /\ i + 1 \in 2..Len(stack)
    BY <1>2, <1>3
  <2>2. stack'[i + 1] = stack[i + 1] /\ stack'[i].call = stack[i].call
    <3>1. CASE i = 1
      BY <2>1, <3>1, <1>3 DEF Top
    <3>2. CASE i # 1
      <4>1. i \in 2..Len(stack)
        BY <2>1, <3>2, <1>2
      <4> QED BY <2>1, <4>1, <1>3
    <3> QED BY <3>1, <3>2
  <2> QED BY <2>1, <2>2 DEF GateOK, StackOK
<1>8. stack'[Len(stack')].call = stack[Len(stack)].call
  <2>1. CASE Len(stack) = 1
    BY <2>1, <1>3 DEF Top
  <2>2. CASE Len(stack) # 1
    <3>0. PICK n \in Nat : n = Len(stack)
      BY <1>2
    <3>1. Len(stack) \in 2..Len(stack)
      BY <1>2, <2>2, <3>0
    <3> QED BY <3>1, <1>3
  <2> QED BY <2>1, <2>2
<1>9. stack' # <<>>
  BY <1>2, <1>3
<1>10. stack[Len(stack)].call = Asked /\ outcome = <<>>
  BY DEF GateOK, StackOK
<1> QED
  BY <1>3, <1>4, <1>5, <1>6, <1>7, <1>8, <1>9, <1>10 DEF GateOK, StackOK

\* The frame on top, and that its call is proper.
LEMMA TopIs ==
  ASSUME GateOK, stack # <<>>
  PROVE  /\ FrameOK(Top, prime) /\ Proper(Top.call, prime) /\ IsFrame(Top)
         /\ IsPrime(prime)
<1>1. PICK S : stack \in Seq(S)
  BY DEF GateOK, StackOK
<1>2. 1 \in 1..Len(stack)
  BY <1>1
<1>3. FrameOK(Top, prime)
  BY <1>2 DEF GateOK, StackOK, Top
<1> QED
  BY <1>3 DEF FrameOK, InProgress, GateOK

\* A protocol that goes on with another batch.
LEMMA ExecuteStays ==
  ASSUME GateOK, stack # <<>>, NEW stage, NEW calls, NEW fields, IsBatch(calls, prime),
         At(Top.call, stage, fields, calls, prime), ExecuteIn(stage, calls, fields)
  PROVE  GateOK'
<1> DEFINE f == Top
           g == [f EXCEPT !.stage = stage, !.todo = calls, !.results = <<>>,
                          !.fields = fields]
<1>1. g = [call |-> f.call, stage |-> stage, fields |-> fields, todo |-> calls,
           results |-> <<>>]
  <2>1. IsFrame(f)
    BY TopIs
  <2> HIDE DEF f
  <2> QED BY ONLY <2>1, FrameExecutes DEF g
<1>2. stack' = [stack EXCEPT ![1] = g]
  BY DEF ExecuteIn, Top
<1>3. UNCHANGED <<prime, inputs, outcome>>
  BY DEF ExecuteIn
<1> HIDE DEF g
<1>4. InProgress(g, calls, prime)
  BY <1>1, Launches
<1>5. g.call = Top.call /\ g.stage = stage /\ g.fields = fields
  BY <1>1
<1>6. FrameOK(g, prime)
  BY <1>4, <1>5, TopIs DEF FrameOK
<1> QED
  BY <1>2, <1>3, <1>5, <1>6, TopReplaced

\* The result of a call that has been run goes to the frame on top.
LEMMA FrameAnswered ==
  ASSUME NEW p, NEW f, FrameOK(f, p), f.todo # <<>>, NEW r, Meets(Head(f.todo), r, p)
  PROVE  LET g == [f EXCEPT !.todo = Tail(@), !.results = Append(@, r)]
         IN  FrameOK(g, p) /\ g.call = f.call
<1>1. PICK batch : InProgress(f, batch, p) /\ At(f.call, f.stage, f.fields, batch, p)
  BY DEF FrameOK
<1> DEFINE g == [f EXCEPT !.todo = Tail(@), !.results = Append(@, r)]
<1>2. InProgress(g, batch, p)
  BY <1>1, Answers
<1>3. g = [call |-> f.call, stage |-> f.stage, fields |-> f.fields, todo |-> Tail(f.todo),
           results |-> Append(f.results, r)]
  BY <1>1, FrameAnswers DEF InProgress
<1> HIDE DEF g
<1>4. g.call = f.call /\ g.stage = f.stage /\ g.fields = f.fields
  BY <1>3
<1>5. FrameOK(g, p)
  BY <1>1, <1>2, <1>4 DEF FrameOK
<1> QED
  BY <1>4, <1>5 DEF g

\* A result that meets what was promised may be given to the protocol that waits for it.
LEMMA AnsweredStays ==
  ASSUME GateOK, stack # <<>>, Top.todo # <<>>, NEW r, Meets(Head(Top.todo), r, prime),
         stack' = Answered(stack, r), UNCHANGED <<prime, inputs, outcome>>
  PROVE  GateOK'
<1> DEFINE f == Top
           g == [f EXCEPT !.todo = Tail(@), !.results = Append(@, r)]
<1>1. FrameOK(f, prime)
  BY TopIs
<1>2. FrameOK(g, prime) /\ g.call = f.call
  <2> HIDE DEF f
  <2> QED BY <1>1, FrameAnswered DEF f
<1>3. stack' = [stack EXCEPT ![1] = g]
  BY DEF Answered, Top
<1> HIDE DEF g
<1> QED
  BY <1>2, <1>3, TopReplaced

\* The result of a protocol that is completed goes to the frame that launched it.
LEMMA CompleteStays ==
  ASSUME GateOK, stack # <<>>, NEW result, Meets(Top.call, result, prime), Complete(result)
  PROVE  GateOK'
<1>1. PICK S : stack \in Seq(S)
  BY DEF GateOK, StackOK
<1>2. PICK n \in Nat : n = Len(stack) /\ n > 0
  BY <1>1
<1>3. prime' = prime /\ inputs' = inputs
  BY DEF Complete
<1>4. Asked' = Asked
  BY <1>3 DEF Asked, Untagged
<1>5. CASE n = 1
  <2>1. stack' = <<>> /\ outcome' = result
    BY <1>2, <1>5 DEF Complete
  <2>2. Top.call = Asked
    BY <1>2, <1>5 DEF GateOK, StackOK, Top
  <2>3. Meets(Asked', outcome', prime')
    BY <2>1, <2>2, <1>3, <1>4
  <2>4. <<>> \in Seq(S) /\ Len(<<>>) = 0
    OBVIOUS
  <2> QED BY <2>1, <2>3, <2>4, <1>3 DEF GateOK, StackOK
<1>6. CASE n # 1
  <2> DEFINE f == stack[2]
             g == [f EXCEPT !.todo = Tail(@), !.results = Append(@, result)]
  <2>1. stack' = Answered(Tail(stack), result) /\ outcome' = outcome
    BY <1>2, <1>6 DEF Complete
  <2>2. 2 \in 1..n /\ 1 \in 1..(n - 1) /\ n - 1 \in Nat /\ n - 1 > 0
    BY <1>2, <1>6
  <2>3. FrameOK(f, prime) /\ f.todo # <<>> /\ Head(f.todo) = Top.call
    <3>1. \A i \in 1..(n - 1) : stack[i + 1].todo # <<>> /\ Head(stack[i + 1].todo) = stack[i].call
      BY <1>2 DEF GateOK, StackOK
    <3>2. 1 + 1 = 2
      OBVIOUS
    <3>3. f.todo # <<>> /\ Head(f.todo) = Top.call
      BY <2>2, <3>1, <3>2 DEF Top
    <3> QED BY <1>2, <2>2, <3>3 DEF GateOK, StackOK
  <2>4. FrameOK(g, prime) /\ g.call = f.call
    <3>1. Meets(Head(f.todo), result, prime)
      BY <2>3
    <3> HIDE DEF f
    <3> QED BY ONLY <2>3, <3>1, FrameAnswered DEF g
  <2>5. Tail(stack) \in Seq(S) /\ Len(Tail(stack)) = n - 1
        /\ \A i \in 1..(n - 1) : Tail(stack)[i] = stack[i + 1]
    BY <1>1, <1>2
  <2>6. stack' = [Tail(stack) EXCEPT ![1] = g]
    <3>1. Tail(stack)[1] = f
      <4>1. Tail(stack)[1] = stack[1 + 1]
        BY <2>2, <2>5
      <4>2. 1 + 1 = 2
        OBVIOUS
      <4> QED BY <4>1, <4>2
    <3> QED BY <2>1, <3>1 DEF Answered
  <2> HIDE DEF g
  <2>7. stack' \in Seq(S \union {g}) /\ Len(stack') = n - 1 /\ stack'[1] = g
        /\ \A i \in 2..(n - 1) : stack'[i] = stack[i + 1]
    <3>1. PICK rest : rest = Tail(stack)
      OBVIOUS
    <3>2. rest \in Seq(S \union {g}) /\ Len(rest) = n - 1
          /\ \A i \in 1..(n - 1) : rest[i] = stack[i + 1]
      BY <2>5, <3>1
    <3>3. stack' = [rest EXCEPT ![1] = g]
      BY <2>6, <3>1
    <3> QED BY <2>2, <3>2, <3>3
  <2>8. ASSUME NEW i \in 1..(n - 1) PROVE stack'[i].call = stack[i + 1].call
    <3>1. CASE i = 1
      BY <3>1, <2>7, <2>4
    <3>2. CASE i # 1
      <4>1. i \in 2..(n - 1)
        BY <2>2, <3>2
      <4> QED BY <4>1, <2>7
    <3> QED BY <3>1, <3>2
  <2>9. ASSUME NEW i \in 1..(n - 1) PROVE FrameOK(stack'[i], prime')
    <3>1. CASE i = 1
      BY <3>1, <2>7, <2>4, <1>3
    <3>2. CASE i # 1
      <4>1. i \in 2..(n - 1) /\ i + 1 \in 1..Len(stack)
        BY <2>2, <1>2, <3>2
      <4>2. FrameOK(stack[i + 1], prime)
        BY <4>1 DEF GateOK, StackOK
      <4> QED BY <4>1, <4>2, <2>7, <1>3
    <3> QED BY <3>1, <3>2
  <2>10. ASSUME NEW i \in 1..((n - 1) - 1)
         PROVE  stack'[i + 1].todo # <<>> /\ Head(stack'[i + 1].todo) = stack'[i].call
    <3>1. i + 1 \in 2..(n - 1) /\ i \in 1..(n - 1) /\ i + 1 \in 1..(Len(stack) - 1)
      BY <2>2, <1>2
    <3>2. stack[(i + 1) + 1].todo # <<>> /\ Head(stack[(i + 1) + 1].todo) = stack[i + 1].call
      BY <3>1 DEF GateOK, StackOK
    <3> QED BY <3>1, <3>2, <2>7, <2>8
  <2>11. stack'[Len(stack')].call = Asked' /\ outcome' = <<>> /\ stack' # <<>>
    <3>1. stack[Len(stack)].call = Asked /\ outcome = <<>>
      BY DEF GateOK, StackOK
    <3>2. n - 1 \in 1..(n - 1) /\ (n - 1) + 1 = n
      BY <2>2
    <3>3. stack'[n - 1].call = stack[n].call
      BY <3>2, <2>8
    <3>4. stack' # <<>>
      BY <2>7, <2>2
    <3> QED BY <3>1, <3>3, <3>4, <2>7, <2>1, <1>2, <1>4
  <2> QED BY <2>7, <2>9, <2>10, <2>11, <1>3 DEF GateOK, StackOK
<1> QED
  BY <1>5, <1>6

\* A protocol that is started is put on the stack.
LEMMA StartStays ==
  ASSUME GateOK, stack # <<>>, Top.todo # <<>>, NEW c, c = Head(Top.todo),
         IsBatch(Launched(c), prime), At(c, 0, <<>>, Launched(c), prime),
         stack' = <<Frame(c)>> \o stack, UNCHANGED <<prime, inputs, outcome>>
  PROVE  GateOK'
<1> DEFINE g == Frame(c)
<1>1. PICK S : stack \in Seq(S)
  BY DEF GateOK, StackOK
<1>2. PICK n \in Nat : n = Len(stack) /\ n > 0
  BY <1>1
<1>3. prime' = prime /\ inputs' = inputs /\ outcome' = outcome
  OBVIOUS
<1>4. Asked' = Asked
  BY <1>3 DEF Asked, Untagged
<1>5. Proper(c, prime)
  BY TopIs, Answers DEF FrameOK
<1>6. FrameOK(g, prime) /\ g.call = c
  <2> DEFINE l == Launched(c)
  <2>1. g = [call |-> c, stage |-> 0, fields |-> <<>>, todo |-> l, results |-> <<>>]
    BY DEF Frame
  <2> HIDE DEF g, l
  <2>2. IsBatch(l, prime) /\ At(c, 0, <<>>, l, prime)
    BY DEF l
  <2>3. InProgress(g, l, prime)
    BY <2>1, <2>2, Launches
  <2>4. g.call = c /\ g.stage = 0 /\ g.fields = <<>>
    BY <2>1
  <2> QED BY <2>2, <2>3, <2>4, <1>5 DEF FrameOK
<1>7. stack' = <<g>> \o stack
  OBVIOUS
<1> HIDE DEF g
<1>8. stack' \in Seq(S \union {g}) /\ Len(stack') = n + 1 /\ stack'[1] = g
      /\ \A i \in 1..n : stack'[i + 1] = stack[i]
  <2>1. <<g>> \in Seq(S \union {g}) /\ stack \in Seq(S \union {g}) /\ Len(<<g>>) = 1
    BY <1>1
  <2> QED BY <2>1, <1>2, <1>7
<1>9. ASSUME NEW i \in 1..(n + 1) PROVE FrameOK(stack'[i], prime')
  <2>1. CASE i = 1
    BY <2>1, <1>8, <1>6, <1>3
  <2>2. CASE i # 1
    <3>1. i - 1 \in 1..Len(stack) /\ (i - 1) + 1 = i
      BY <2>2, <1>2
    <3>2. stack'[i] = stack[i - 1]
      <4>1. stack'[(i - 1) + 1] = stack[i - 1]
        BY <3>1, <1>2, <1>8
      <4> QED BY <3>1, <4>1
    <3> QED BY <3>1, <3>2, <1>3 DEF GateOK, StackOK
  <2> QED BY <2>1, <2>2
<1>10. ASSUME NEW i \in 1..((n + 1) - 1)
       PROVE  stack'[i + 1].todo # <<>> /\ Head(stack'[i + 1].todo) = stack'[i].call
  <2>0. stack'[i + 1] = stack[i]
    BY <1>2, <1>8
  <2>1. CASE i = 1
    <3>1. stack[i] = Top /\ stack'[i] = g
      BY <2>1, <1>8 DEF Top
    <3> QED BY <2>0, <3>1, <1>6
  <2>2. CASE i # 1
    <3>1. i - 1 \in 1..(Len(stack) - 1) /\ (i - 1) + 1 = i /\ i - 1 \in 1..n
      BY <2>2, <1>2
    <3>2. stack[(i - 1) + 1].todo # <<>> /\ Head(stack[(i - 1) + 1].todo) = stack[i - 1].call
      BY <3>1 DEF GateOK, StackOK
    <3>3. stack'[(i - 1) + 1] = stack[i - 1]
      BY <3>1, <1>8
    <3> QED BY <2>0, <3>1, <3>2, <3>3
  <2> QED BY <2>1, <2>2
<1>11. stack'[Len(stack')].call = Asked' /\ outcome' = <<>> /\ stack' # <<>>
  <2>1. stack[Len(stack)].call = Asked /\ outcome = <<>>
    BY DEF GateOK, StackOK
  <2>2. stack'[n + 1] = stack[n] /\ stack' # <<>>
    BY <1>2, <1>8
  <2> QED BY <2>1, <2>2, <1>8, <1>2, <1>3, <1>4
<1> QED
  BY <1>8, <1>9, <1>10, <1>11, <1>3 DEF GateOK, StackOK

-----------------------------------------------------------------------------
(***************************************************************************)
(* The calls: when they are proper, and what they give.                    *)
(***************************************************************************)

\* ShareAdditionProtocol.
LEMMA AddIs ==
  ASSUME NEW p, NEW s \in Shares(p), NEW t \in Shares(p)
  PROVE  Proper(Add(s, t), p) /\ Gives(Add(s, t), (s.value + t.value) % p, p)
BY DEF Proper, Gives, Promised, Functional, Add, Call, TwoOf

\* ShareMultiplicationProtocol.
LEMMA MultiplyIs ==
  ASSUME NEW p, NEW s \in Shares(p), NEW t \in Shares(p)
  PROVE  Proper(Multiply(s, t), p) /\ Gives(Multiply(s, t), (s.value * t.value) % p, p)
BY DEF Proper, Gives, Promised, Functional, Multiply, Call, TwoOf

\* SharedBitOrProtocol.
LEMMA OrIs ==
  ASSUME NEW p, NEW s \in Bits(p), NEW t \in Bits(p)
  PROVE  Proper(Or(s, t), p) /\ Gives(Or(s, t), IF s.value = 1 \/ t.value = 1 THEN 1 ELSE 0, p)
BY DEF Proper, Gives, Promised, Functional, Or, Call, TwoOf

\* SharedBitXorProtocol.
LEMMA XorIs ==
  ASSUME NEW p, NEW s \in Bits(p), NEW t \in Bits(p)
  PROVE  Proper(Xor(s, t), p) /\ Gives(Xor(s, t), Unequal(s.value, t.value), p)
BY DEF Proper, Gives, Promised, Functional, Xor, Call, TwoOf, Unequal

\* ReconstructionProtocol gives the value itself.
LEMMA ReconstructIs ==
  ASSUME NEW p, NEW s \in Shares(p)
  PROVE  Proper(Reconstruct(s), p) /\ Opens(Reconstruct(s), s.value, p)
BY DEF Proper, Opens, Functional, Reconstruct, Call

\* BitCompositionProtocol gives the number, reduced.
LEMMA ComposeIs ==
  ASSUME NEW p, NEW bits \in Seq(Bits(p)), Number(bits) < p
  PROVE  Proper(Compose(bits), p) /\ Gives(Compose(bits), Number(bits), p)
BY DEF Proper, Gives, Promised, Functional, Compose, Call

\* BitwiseLessThanProtocol.
LEMMA BitwiseLessThanIs ==
  ASSUME NEW p, NEW as \in Seq(Bits(p)), NEW bs \in Seq(Bits(p)), Len(as) = Len(bs), Len(as) > 0
  PROVE  /\ Proper(BitwiseLessThan(as, bs), p)
         /\ Gives(BitwiseLessThan(as, bs), IF Number(as) < Number(bs) THEN 1 ELSE 0, p)
BY DEF Proper, Gives, Promised, Functional, BitwiseLessThan, Call

\* LeastSignificantBitProtocol.
LEMMA LeastSignificantBitIs ==
  ASSUME NEW p, NEW s \in Shares(p)
  PROVE  Proper(LeastSignificantBit(s), p) /\ Gives(LeastSignificantBit(s), s.value % 2, p)
BY DEF Proper, Gives, Promised, Functional, LeastSignificantBit, Call

\* LessThanHalfPrimeProtocol.
LEMMA LessThanHalfPrimeIs ==
  ASSUME NEW p, NEW s \in Shares(p)
  PROVE  Proper(LessThanHalfPrime(s), p) /\ Gives(LessThanHalfPrime(s), Half(s.value, p), p)
BY DEF Proper, Gives, Promised, Functional, LessThanHalfPrime, Call, Half

\* ShareLessThanProtocol.
LEMMA LessThanIs ==
  ASSUME NEW p, NEW s \in Shares(p), NEW t \in Shares(p)
  PROVE  Proper(LessThan(s, t), p) /\ Gives(LessThan(s, t), Truth(s.value < t.value), p)
BY DEF Proper, Gives, Promised, Functional, LessThan, Call, Truth, TwoOf

\* ConditionalSwapProtocol.
LEMMA ConditionalSwapIs ==
  ASSUME NEW p, NEW s \in Shares(p), NEW t \in Shares(p), NEW bit \in Bits(p)
  PROVE  Proper(ConditionalSwap(s, t, bit), p) /\ Swaps(ConditionalSwap(s, t, bit), s, t, bit.value)
BY DEF Proper, Swaps, Functional, ConditionalSwap, Call

\* The protocols that give random numbers.
LEMMA RandomIs ==
  ASSUME NEW p
  PROVE  Proper(RandGen, p) /\ Proper(RandomBitGen, p) /\ Proper(RandomBitwiseGen(p), p)
BY DEF Proper, Functional, RandGen, RandomBitGen, RandomBitwiseGen, Call

\* LoopbackProtocol gives what it is made with.
LEMMA LoopbackIs ==
  ASSUME NEW p, NEW v
  PROVE  Proper(Loopback(v), p) /\ \A r : Meets(Loopback(v), r, p) => r = v
BY DEF Proper, Meets, Functional, Loopback, Call

\* BitwiseOperationProtocol.
LEMMA BitwiseOperationIs ==
  ASSUME NEW p, NEW as \in Seq(Shares(p)), NEW bs \in Seq(Shares(p)), Len(as) = Len(bs), NEW op,
         \/ op \in {"ShareAddition", "ShareMultiplication"}
         \/ op = "SharedBitXor" /\ as \in Seq(Bits(p)) /\ bs \in Seq(Bits(p))
  PROVE  /\ Proper(BitwiseOperation(as, bs, op), p)
         /\ \A r : Meets(BitwiseOperation(as, bs, op), r, p) => EachIs(r, as, bs, op, p)
<1> DEFINE c == BitwiseOperation(as, bs, op)
<1>1. c.protocol = "BitwiseOperation" /\ c.args[1] = as /\ c.args[2] = bs /\ c.args[3] = op
  BY DEF BitwiseOperation, Call
<1> HIDE DEF c
<1>2. Proper(c, p)
  BY <1>1 DEF Proper, Functional
<1>3. \A r : Meets(c, r, p) => EachIs(r, as, bs, op, p)
  BY <1>1 DEF Meets
<1> QED
  BY <1>2, <1>3 DEF c

\* PrefixOperationProtocol.
LEMMA PrefixOperationIs ==
  ASSUME NEW p, NEW bits \in Seq(Shares(p)), Len(bits) > 0, NEW op,
         op = "ShareAddition" \/ (op = "SharedBitOr" /\ bits \in Seq(Bits(p)))
  PROVE  /\ Proper(PrefixOperation(bits, op), p)
         /\ \A r : Meets(PrefixOperation(bits, op), r, p) => PrefixIs(r, bits, op, p)
<1> DEFINE c == PrefixOperation(bits, op)
<1>1. c.protocol = "PrefixOperation" /\ c.args[1] = bits /\ c.args[2] = op
  BY DEF PrefixOperation, Call
<1> HIDE DEF c
<1>2. Proper(c, p)
  BY <1>1 DEF Proper, Functional
<1>3. \A r : Meets(c, r, p) => PrefixIs(r, bits, op, p)
  BY <1>1 DEF Meets
<1> QED
  BY <1>2, <1>3 DEF c

\* What the result of a call is.
LEMMA Brings ==
  ASSUME NEW p, NEW c, NEW r, Meets(c, r, p)
  PROVE  /\ \A v : Gives(c, v, p) => IsShareOf(r, v, p)
         /\ \A v : Opens(c, v, p) => r = v
         /\ \A s, t, v : Swaps(c, s, t, v) => IsPair(r) /\ Arranged(r[1], r[2], s, t, v, p)
<1>1. \A v : Gives(c, v, p) => IsShareOf(r, v, p)
  BY DEF Meets, Gives
<1>2. \A v : Opens(c, v, p) => r = v
  BY DEF Meets, Opens
<1>3. \A s, t, v : Swaps(c, s, t, v) => IsPair(r) /\ Arranged(r[1], r[2], s, t, v, p)
  BY DEF Meets, Swaps
<1> QED
  BY <1>1, <1>2, <1>3

\* What is known of random numbers.
LEMMA RandomBrings ==
  ASSUME NEW p, NEW r
  PROVE  /\ Meets(RandGen, r, p) => r \in SecretShares(p)
         /\ Meets(RandomBitGen, r, p) => r \in Bits(p)
         /\ Meets(RandomBitwiseGen(p), r, p) => IsBelowNumber(r, p, p)
BY DEF Meets, RandGen, RandomBitGen, RandomBitwiseGen, Call

\* Proper calls are a batch.
LEMMA BatchOf ==
  ASSUME NEW p, NEW S, NEW batch \in Seq(S), \A c \in S : Proper(c, p)
  PROVE  IsBatch(batch, p)
<1>1. \A i \in 1..Len(batch) : batch[i] \in S
  BY ElementOfSeq
<1> QED
  BY <1>1 DEF IsBatch

\* Batches of a few calls.
LEMMA Batches ==
  ASSUME NEW p, NEW c1, Proper(c1, p)
  PROVE  /\ IsBatch(<<c1>>, p)
         /\ \A c2 : Proper(c2, p) => IsBatch(<<c1, c2>>, p)
         /\ \A c2, c3 : Proper(c2, p) /\ Proper(c3, p) => IsBatch(<<c1, c2, c3>>, p)
         /\ \A c2, c3, c4 : Proper(c2, p) /\ Proper(c3, p) /\ Proper(c4, p) =>
              IsBatch(<<c1, c2, c3, c4>>, p)
<1>1. IsBatch(<<c1>>, p)
  <2>0. PICK batch : batch = <<c1>>
    OBVIOUS
  <2>1. batch \in Seq({c1})
    BY <2>0
  <2>2. \A c \in {c1} : Proper(c, p)
    OBVIOUS
  <2>3. IsBatch(batch, p)
    BY <2>1, <2>2, BatchOf
  <2> QED BY <2>0, <2>3
<1>2. ASSUME NEW c2, Proper(c2, p) PROVE IsBatch(<<c1, c2>>, p)
  <2>0. PICK batch : batch = <<c1, c2>>
    OBVIOUS
  <2>1. batch \in Seq({c1, c2})
    BY <2>0
  <2>2. \A c \in {c1, c2} : Proper(c, p)
    BY <1>2
  <2>3. IsBatch(batch, p)
    BY <2>1, <2>2, BatchOf
  <2> QED BY <2>0, <2>3
<1>3. ASSUME NEW c2, NEW c3, Proper(c2, p), Proper(c3, p) PROVE IsBatch(<<c1, c2, c3>>, p)
  <2>0. PICK batch : batch = <<c1, c2, c3>>
    OBVIOUS
  <2>1. batch \in Seq({c1, c2, c3})
    BY <2>0
  <2>2. \A c \in {c1, c2, c3} : Proper(c, p)
    BY <1>3
  <2>3. IsBatch(batch, p)
    BY <2>1, <2>2, BatchOf
  <2> QED BY <2>0, <2>3
<1>4. ASSUME NEW c2, NEW c3, NEW c4, Proper(c2, p), Proper(c3, p), Proper(c4, p)
      PROVE  IsBatch(<<c1, c2, c3, c4>>, p)
  <2>0. PICK batch : batch = <<c1, c2, c3, c4>>
    OBVIOUS
  <2>1. batch \in Seq({c1, c2, c3, c4})
    BY <2>0
  <2>2. \A c \in {c1, c2, c3, c4} : Proper(c, p)
    BY <1>4
  <2>3. IsBatch(batch, p)
    BY <2>1, <2>2, BatchOf
  <2> QED BY <2>0, <2>3
<1> QED
  BY <1>1, <1>2, <1>3, <1>4

\* What is known when a protocol handles its message.
Met(batch, results, p) ==
  Len(results) = Len(batch) /\ \A i \in 1..Len(batch) : Meets(batch[i], results[i], p)

\* What a handler knows when its message comes: what was launched, and that it was met.
LEMMA Handled ==
  ASSUME GateOK, NEW protocol, NEW stage, Handling(protocol, stage)
  PROVE  /\ stack # <<>> /\ Top.call.protocol = protocol /\ Top.stage = stage
         /\ Proper(Top.call, prime) /\ IsPrime(prime)
         /\ \E R : Results \in Seq(R)
         /\ \E batch : At(Top.call, stage, Fields, batch, prime) /\ Met(batch, Results, prime)
<1>1. stack # <<>> /\ Top.call.protocol = protocol /\ Top.stage = stage /\ Top.todo = <<>>
  BY DEF Handling
<1>2. FrameOK(Top, prime) /\ Proper(Top.call, prime) /\ IsPrime(prime)
  BY <1>1, TopIs
<1>3. PICK batch : /\ InProgress(Top, batch, prime)
                   /\ At(Top.call, Top.stage, Top.fields, batch, prime)
  BY <1>2 DEF FrameOK
<1>4. (\E R : Top.results \in Seq(R)) /\ Met(batch, Top.results, prime)
  BY <1>1, <1>3, AllDone DEF Met
<1> QED
  BY <1>1, <1>2, <1>3, <1>4 DEF Fields, Results

\* The result of the only call that was launched.
LEMMA MetOne ==
  ASSUME NEW p, NEW batch, NEW results, Met(batch, results, p), NEW v, One(batch, v, p)
  PROVE  IsShareOf(results[1], v, p)
<1>1. Meets(batch[1], results[1], p) /\ Gives(batch[1], v, p)
  BY DEF Met, One
<1> QED
  BY <1>1, Brings

-----------------------------------------------------------------------------
(***************************************************************************)
(* Protocols that are completed when they start, and what the others       *)
(* launch.                                                                 *)
(***************************************************************************)

\* A share of what is promised meets it.
LEMMA FunctionalMeets ==
  ASSUME NEW p, NEW c, NEW r, c.protocol \in Functional, IsShareOf(r, Promised(c, p), p)
  PROVE  Meets(c, r, p)
BY DEF Meets, Functional

\* The protocols that launch no others do what they promise.
LEMMA LeafMeets ==
  ASSUME IsPrime(prime), NEW c, Proper(c, prime), IsLeaf(c)
  PROVE  Meets(c, LeafResult(c), prime)
<1>0. prime \in Nat \ {0} /\ prime \in Nat /\ prime > 2
  BY DEF IsPrime
<1>1. CASE c.protocol = "ShareAddition"
  <2>1. c.args[1] \in Shares(prime) /\ c.args[2] \in Shares(prime)
    BY <1>1 DEF Proper, TwoOf
  <2>2. PICK s, t : s = c.args[1] /\ t = c.args[2]
    OBVIOUS
  <2>3. LeafResult(c) = Sum(s, t) /\ Promised(c, prime) = (s.value + t.value) % prime
    BY <1>1, <2>2 DEF LeafResult, Promised
  <2>4. IsShareOf(Sum(s, t), (s.value + t.value) % prime, prime)
    BY <1>0, <2>1, <2>2, SumIs DEF IsShareOf
  <2>5. c.protocol \in Functional
    BY <1>1 DEF Functional
  <2> QED BY <2>3, <2>4, <2>5, FunctionalMeets
<1>2. CASE c.protocol = "ShareMultiplication"
  <2>1. c.args[1] \in Shares(prime) /\ c.args[2] \in Shares(prime)
    BY <1>2 DEF Proper, TwoOf
  <2>2. PICK s, t : s = c.args[1] /\ t = c.args[2]
    OBVIOUS
  <2>3. LeafResult(c) = Product(s, t) /\ Promised(c, prime) = (s.value * t.value) % prime
    BY <1>2, <2>2 DEF LeafResult, Promised
  <2>4. IsShareOf(Product(s, t), (s.value * t.value) % prime, prime)
    BY <1>0, <2>1, <2>2, ProductIs DEF IsShareOf
  <2>5. c.protocol \in Functional
    BY <1>2 DEF Functional
  <2> QED BY <2>3, <2>4, <2>5, FunctionalMeets
<1>3. CASE c.protocol = "BitComposition"
  <2>1. c.args[1] \in Seq(Bits(prime)) /\ Number(c.args[1]) < prime
    BY <1>3 DEF Proper
  <2>2. PICK bits : bits = c.args[1]
    OBVIOUS
  <2>3. LeafResult(c) = Composition(bits) /\ Promised(c, prime) = Number(bits)
    BY <1>3, <2>2 DEF LeafResult, Promised
  <2>4. IsShareOf(Composition(bits), Number(bits), prime)
    BY <1>0, <2>1, <2>2, CompositionIs DEF IsShareOf
  <2>5. c.protocol \in Functional
    BY <1>3 DEF Functional
  <2> QED BY <2>3, <2>4, <2>5, FunctionalMeets
<1>4. CASE c.protocol = "Reconstruction"
  BY <1>4 DEF Meets, LeafResult, Functional
<1>5. CASE c.protocol = "Loopback"
  BY <1>5 DEF Meets, LeafResult, Functional
<1> QED
  BY <1>1, <1>2, <1>3, <1>4, <1>5 DEF IsLeaf

-----------------------------------------------------------------------------

\* A batch of one call that is proper.
LEMMA OneIs ==
  ASSUME NEW p, NEW c, Proper(c, p), NEW v, Gives(c, v, p)
  PROVE  IsBatch(<<c>>, p) /\ One(<<c>>, v, p)
<1>1. IsBatch(<<c>>, p)
  BY Batches
<1>2. Len(<<c>>) = 1 /\ <<c>>[1] = c
  OBVIOUS
<1> QED
  BY <1>1, <1>2 DEF One

\* A bit as a share, and the opposite bit.
LEMMA ComplementIs ==
  ASSUME prime \in Nat \ {0, 1}, NEW s \in Shares(prime), s.value \in {0, 1}
  PROVE  LET c == Add(CreateConstantShare(1), ShareAdditiveInverse(s))
         IN  Proper(c, prime) /\ Gives(c, 1 - s.value, prime)
<1>1. prime \in Nat \ {0} /\ 1 \in 0..(prime - 1)
  OBVIOUS
<1>2. PICK one, inverse : one = CreateConstantShare(1) /\ inverse = ShareAdditiveInverse(s)
  OBVIOUS
<1>3. one \in Shares(prime) /\ one.value = 1
  BY <1>1, <1>2, ConstantIs
<1>4. inverse \in Shares(prime) /\ inverse.value = IF s.value = 0 THEN 0 ELSE prime - s.value
  BY <1>1, <1>2, InverseIs
<1>5. (one.value + inverse.value) % prime = 1 - s.value
  <2>1. CASE s.value = 0
    <3>1. one.value + inverse.value = 1 /\ 1 - s.value = 1
      BY <1>3, <1>4, <2>1
    <3>2. 1 % prime = 1
      BY <1>1, SmallRemainders
    <3> QED BY <3>1, <3>2
  <2>2. CASE s.value = 1
    <3>1. one.value + inverse.value = prime /\ 1 - s.value = 0
      BY <1>3, <1>4, <2>2
    <3>2. prime % prime = prime - prime
      BY <1>1, SmallRemainders
    <3> QED BY <3>1, <3>2, <1>1
  <2> QED BY <2>1, <2>2
<1>6. Proper(Add(one, inverse), prime) /\ Gives(Add(one, inverse), 1 - s.value, prime)
  BY <1>3, <1>4, <1>5, AddIs
<1> QED
  BY <1>2, <1>6

\* The difference of two shares.
LEMMA DifferenceIs ==
  ASSUME prime \in Nat \ {0}, NEW s \in Shares(prime), NEW t \in Shares(prime)
  PROVE  LET c == Add(s, ShareAdditiveInverse(t))
         IN  Proper(c, prime) /\ Gives(c, (s.value - t.value) % prime, prime)
<1>2. PICK inverse : inverse = ShareAdditiveInverse(t)
  OBVIOUS
<1>4. inverse \in Shares(prime) /\ inverse.value = IF t.value = 0 THEN 0 ELSE prime - t.value
  BY <1>2, InverseIs
<1>5. s.value \in Nat /\ t.value \in Nat
  BY SharesAre
<1>6. (s.value + inverse.value) % prime = (s.value - t.value) % prime
  <2>1. CASE t.value = 0
    BY <1>4, <1>5, <2>1
  <2>2. CASE t.value # 0
    <3>1. PICK d \in Int : d = s.value - t.value
      BY <1>5
    <3>2. PICK q \in Int : q = 1
      OBVIOUS
    <3>3. s.value + inverse.value = d + prime * q
      BY <1>4, <1>5, <2>2, <3>1, <3>2
    <3>4. (d + prime * q) % prime = d % prime
      BY ModShift
    <3> QED BY <3>1, <3>3, <3>4
  <2> QED BY <2>1, <2>2
<1>7. Proper(Add(s, inverse), prime) /\ Gives(Add(s, inverse), (s.value - t.value) % prime, prime)
  BY <1>4, <1>6, AddIs
<1> QED
  BY <1>2, <1>7

\* What a protocol launches when it starts is a batch for its first stage.
StartsWell(c) == IsBatch(Launched(c), prime) /\ At(c, 0, <<>>, Launched(c), prime)

\* Start of SharedBitXorProtocol and of SharedBitOrProtocol.
LEMMA StartOfBitOperations ==
  ASSUME IsPrime(prime), NEW c, Proper(c, prime),
         c.protocol = "SharedBitXor" \/ c.protocol = "SharedBitOr"
  PROVE  StartsWell(c)
<1>1. PICK s, t : s = c.args[1] /\ t = c.args[2]
  OBVIOUS
<1>2. s \in Shares(prime) /\ t \in Shares(prime) /\ s.value \in {0, 1} /\ t.value \in {0, 1}
  BY <1>1 DEF Proper, TwoOf, Bits
<1>3. (s.value * t.value) % prime = s.value * t.value
  <2>1. prime \in Nat \ {0} /\ prime > 2
    BY DEF IsPrime
  <2>2. PICK x \in Int : x = s.value * t.value /\ 0 <= x /\ x < prime
    BY <1>2, <2>1
  <2> QED BY <2>1, <2>2, SmallRemainders
<1>4. Launched(c) = <<Multiply(s, t)>>
  BY <1>1 DEF Launched
<1>5. Proper(Multiply(s, t), prime) /\ Gives(Multiply(s, t), s.value * t.value, prime)
  BY <1>2, <1>3, MultiplyIs
<1>6. IsBatch(Launched(c), prime) /\ One(Launched(c), s.value * t.value, prime)
  BY <1>4, <1>5, OneIs
<1> QED
  BY <1>1, <1>6 DEF StartsWell, At, AtSharedBitXor, AtSharedBitOr

\* Start of CompareAndSwapProtocol and of TaggedCompareAndSwapProtocol.
LEMMA StartOfGates ==
  ASSUME IsPrime(prime), NEW c, Proper(c, prime),
         c.protocol = "CompareAndSwap" \/ c.protocol = "TaggedCompareAndSwap"
  PROVE  StartsWell(c)
<1>1. CASE c.protocol = "CompareAndSwap"
  <2>1. PICK s, t : s = c.args[1] /\ t = c.args[2]
    OBVIOUS
  <2>2. s \in Shares(prime) /\ t \in Shares(prime)
    BY <1>1, <2>1 DEF Proper, TwoOf
  <2>3. Launched(c) = <<LessThan(s, t)>>
    BY <1>1, <2>1 DEF Launched
  <2>4. IsBatch(Launched(c), prime) /\ One(Launched(c), Truth(s.value < t.value), prime)
    BY <2>2, <2>3, LessThanIs, OneIs
  <2> QED BY <1>1, <2>1, <2>4 DEF StartsWell, At, AtCompareAndSwap
<1>2. CASE c.protocol = "TaggedCompareAndSwap"
  <2>1. PICK s, t : s = c.args[1][1] /\ t = c.args[2][1]
    OBVIOUS
  <2>2. s \in Shares(prime) /\ t \in Shares(prime)
    BY <1>2, <2>1 DEF Proper, TwoOf
  <2>3. Launched(c) = <<LessThan(s, t)>>
    BY <1>2, <2>1 DEF Launched
  <2>4. IsBatch(Launched(c), prime) /\ One(Launched(c), Truth(s.value < t.value), prime)
    BY <2>2, <2>3, LessThanIs, OneIs
  <2> QED BY <1>2, <2>1, <2>4 DEF StartsWell, At, AtTaggedCompareAndSwap
<1> QED
  BY <1>1, <1>2

\* Start of ConditionalSwapProtocol.
LEMMA StartOfConditionalSwap ==
  ASSUME IsPrime(prime), NEW c, Proper(c, prime), c.protocol = "ConditionalSwap"
  PROVE  StartsWell(c)
<1>1. PICK b : b = c.args[3]
  OBVIOUS
<1>2. b \in Shares(prime) /\ b.value \in {0, 1} /\ prime \in Nat \ {0, 1}
  BY <1>1 DEF Proper, Bits, IsPrime
<1>3. PICK first : first = Add(CreateConstantShare(1), ShareAdditiveInverse(b))
  OBVIOUS
<1>4. Launched(c) = <<first>>
  BY <1>1, <1>3 DEF Launched
<1>5. Proper(first, prime) /\ Gives(first, 1 - b.value, prime)
  BY <1>2, <1>3, ComplementIs
<1>6. IsBatch(Launched(c), prime) /\ One(Launched(c), 1 - b.value, prime)
  BY <1>4, <1>5, OneIs
<1> QED
  BY <1>1, <1>6 DEF StartsWell, At, AtConditionalSwap

\* Start of ShareLessThan-, LessThanHalfPrime- and LeastSignificantBitProtocol.
LEMMA StartOfComparisons ==
  ASSUME IsPrime(prime), NEW c, Proper(c, prime),
         c.protocol = "ShareLessThan" \/ c.protocol = "LessThanHalfPrime"
  PROVE  StartsWell(c)
<1>0. prime \in Nat \ {0} /\ prime \in Nat /\ prime > 2 /\ 2 \in 0..(prime - 1)
  BY DEF IsPrime
<1>1. CASE c.protocol = "ShareLessThan"
  <2>1. PICK s, t : s = c.args[1] /\ t = c.args[2]
    OBVIOUS
  <2>2. s \in Shares(prime) /\ t \in Shares(prime)
    BY <1>1, <2>1 DEF Proper, TwoOf
  <2>3. PICK first : first = Add(s, ShareAdditiveInverse(t))
    OBVIOUS
  <2>4. Launched(c) = <<first>>
    BY <1>1, <2>1, <2>3 DEF Launched
  <2>5. Proper(first, prime) /\ Gives(first, (s.value - t.value) % prime, prime)
    BY <1>0, <2>2, <2>3, DifferenceIs
  <2>6. IsBatch(Launched(c), prime) /\ One(Launched(c), (s.value - t.value) % prime, prime)
    BY <2>4, <2>5, OneIs
  <2> QED BY <1>1, <2>1, <2>6 DEF StartsWell, At, AtLessThan
<1>2. CASE c.protocol = "LessThanHalfPrime"
  <2>1. PICK s, two : s = c.args[1] /\ two = CreateConstantShare(2)
    OBVIOUS
  <2>2. s \in Shares(prime) /\ two \in Shares(prime) /\ two.value = 2
    <3>1. s \in Shares(prime)
      BY <1>2, <2>1 DEF Proper
    <3> QED BY <1>0, <2>1, <3>1, ConstantIs
  <2>3. Launched(c) = <<Multiply(s, two)>>
    BY <1>2, <2>1 DEF Launched
  <2>4. s.value * two.value = 2 * s.value
    <3>1. s.value \in Int
      BY <1>0, <2>2, SharesAre
    <3> QED BY <2>2, <3>1
  <2>5. Proper(Multiply(s, two), prime) /\ Gives(Multiply(s, two), (2 * s.value) % prime, prime)
    <3>1. Gives(Multiply(s, two), (s.value * two.value) % prime, prime)
      BY <2>2, MultiplyIs
    <3> QED BY <2>2, <2>4, <3>1, MultiplyIs
  <2>6. IsBatch(Launched(c), prime) /\ One(Launched(c), (2 * s.value) % prime, prime)
    BY <2>3, <2>5, OneIs
  <2> QED BY <1>2, <2>1, <2>6 DEF StartsWell, At, AtLessThanHalfPrime
<1> QED
  BY <1>1, <1>2

\* Start of RandomBitwiseGen- and RandomBitGenProtocol.
LEMMA StartOfRandom ==
  ASSUME IsPrime(prime), NEW c, Proper(c, prime),
         \/ c.protocol = "LeastSignificantBit" \/ c.protocol = "RandomBitwiseGen"
         \/ c.protocol = "RandomBitGen"
  PROVE  StartsWell(c)
<1>1. CASE c.protocol = "LeastSignificantBit"
  <2>1. Launched(c) = <<RandomBitwiseGen(prime)>>
    BY <1>1 DEF Launched
  <2>2. IsBatch(Launched(c), prime)
    BY <2>1, RandomIs, Batches
  <2> QED BY <1>1, <2>1, <2>2 DEF StartsWell, At, AtLeastSignificantBit
<1>2. CASE c.protocol = "RandomBitwiseGen"
  <2>1. c.args[1] = prime
    BY <1>2 DEF Proper
  <2>2. PICK n : n = BitLength(prime)
    OBVIOUS
  <2>3. n \in Nat
    <3>1. prime \in Nat
      BY DEF IsPrime
    <3> QED BY <3>1, <2>2, BitLengthIs
  <2>4. PICK batch : batch = [i \in 1..n |-> RandomBitGen]
    OBVIOUS
  <2>5. batch \in Seq({RandomBitGen})
    BY <2>3, <2>4
  <2>6. \A d \in {RandomBitGen} : Proper(d, prime)
    BY RandomIs
  <2>7. IsBatch(batch, prime)
    BY <2>5, <2>6, BatchOf
  <2>8. Launched(c) = batch
    BY <1>2, <2>1, <2>2, <2>4 DEF Launched
  <2> QED BY <1>2, <2>2, <2>4, <2>7, <2>8 DEF StartsWell, At, AtRandomBitwiseGen
<1>3. CASE c.protocol = "RandomBitGen"
  <2>1. Launched(c) = <<RandGen>>
    BY <1>3 DEF Launched
  <2>2. IsBatch(Launched(c), prime)
    BY <2>1, RandomIs, Batches
  <2> QED BY <1>3, <2>1, <2>2 DEF StartsWell, At, AtRandomBitGen
<1> QED
  BY <1>1, <1>2, <1>3

\* Bits are shares with the value 0 or 1.
LEMMA BitsAreShares ==
  ASSUME NEW p, NEW bits \in Seq(Bits(p))
  PROVE  /\ bits \in Seq(Shares(p))
         /\ \A i \in 1..Len(bits) : bits[i] \in Bits(p) /\ bits[i] \in Shares(p)
                                    /\ bits[i].value \in {0, 1}
<1>1. Bits(p) \subseteq Shares(p)
  BY DEF Bits
<1>2. bits \in Seq(Shares(p))
  BY <1>1, SeqMonotonic
<1>3. \A i \in 1..Len(bits) : bits[i] \in Bits(p)
  BY ElementOfSeq
<1> QED
  BY <1>2, <1>3 DEF Bits

\* Start of the protocols for sequences of bits.
LEMMA StartOfSequences ==
  ASSUME IsPrime(prime), NEW c, Proper(c, prime),
         \/ c.protocol = "BitwiseLessThan" \/ c.protocol = "BitwiseOperation"
         \/ c.protocol = "PrefixOperation"
  PROVE  StartsWell(c)
<1>1. CASE c.protocol = "BitwiseLessThan"
  <2>1. PICK as, bs : as = c.args[1] /\ bs = c.args[2]
    OBVIOUS
  <2>2. as \in Seq(Bits(prime)) /\ bs \in Seq(Bits(prime)) /\ Len(as) = Len(bs)
    BY <1>1, <2>1 DEF Proper
  <2>3. Launched(c) = <<BitwiseOperation(as, bs, "SharedBitXor")>>
    BY <1>1, <2>1 DEF Launched
  <2>4. Proper(BitwiseOperation(as, bs, "SharedBitXor"), prime)
    BY <2>2, BitsAreShares, BitwiseOperationIs
  <2>5. IsBatch(Launched(c), prime)
    BY <2>3, <2>4, Batches
  <2> QED BY <1>1, <2>1, <2>3, <2>5 DEF StartsWell, At, AtBitwiseLessThan
<1>2. CASE c.protocol = "BitwiseOperation"
  <2>1. PICK as, bs, op : as = c.args[1] /\ bs = c.args[2] /\ op = c.args[3]
    OBVIOUS
  <2>2. /\ as \in Seq(Shares(prime)) /\ bs \in Seq(Shares(prime)) /\ Len(as) = Len(bs)
        /\ op \in {"SharedBitXor", "ShareAddition", "ShareMultiplication"}
        /\ op = "SharedBitXor" => as \in Seq(Bits(prime)) /\ bs \in Seq(Bits(prime))
    BY <1>2, <2>1 DEF Proper
  <2>3. PICK n \in Nat : n = Len(as)
    BY <2>2, LenProperties
  <2>4. ASSUME NEW i \in 1..n PROVE Proper(Call(op, <<as[i], bs[i]>>), prime)
    <3>1. as[i] \in Shares(prime) /\ bs[i] \in Shares(prime)
      BY <2>2, <2>3, ElementOfSeq
    <3>2. CASE op = "SharedBitXor"
      <4>1. as[i] \in Bits(prime) /\ bs[i] \in Bits(prime)
        BY <2>2, <2>3, <3>2, ElementOfSeq
      <4> QED BY <3>2, <4>1, XorIs DEF Xor
    <3>3. CASE op = "ShareAddition"
      BY <3>1, <3>3, AddIs DEF Add
    <3>4. CASE op = "ShareMultiplication"
      BY <3>1, <3>4, MultiplyIs DEF Multiply
    <3> QED BY <2>2, <3>2, <3>3, <3>4
  <2>5. PICK batch : batch = [i \in 1..n |-> Call(op, <<as[i], bs[i]>>)]
    OBVIOUS
  <2>6. PICK S : S = {Call(op, <<as[i], bs[i]>>) : i \in 1..n}
    OBVIOUS
  <2>7. batch \in Seq(S) /\ \A d \in S : Proper(d, prime)
    <3>1. \A d \in S : Proper(d, prime)
      BY <2>4, <2>6
    <3> DEFINE e(i) == Call(op, <<as[i], bs[i]>>)
    <3>2. (\A i \in 1..n : e(i) \in S) /\ batch = [i \in 1..n |-> e(i)]
      BY <2>5, <2>6
    <3> HIDE DEF e
    <3>3. batch \in [1..n -> S] /\ n \in Nat
      BY <2>3, <3>2
    <3>4. batch \in Seq(S)
      BY <3>3, SeqDef
    <3> QED BY <3>1, <3>4
  <2>8. IsBatch(batch, prime)
    BY <2>7, BatchOf
  <2>9. DOMAIN as = 1..n
    BY <2>2, <2>3, LenProperties
  <2>10. Launched(c) = batch
    BY <1>2, <2>1, <2>9, <2>5 DEF Launched
  <2> QED BY <1>2, <2>1, <2>3, <2>5, <2>8, <2>10 DEF StartsWell, At, AtBitwiseOperation
<1>3. CASE c.protocol = "PrefixOperation"
  <2>1. Launched(c) = <<>>
    BY <1>3 DEF Launched
  <2>2. IsBatch(<<>>, prime)
    <3>1. <<>> \in Seq({}) /\ Len(<<>>) = 0
      OBVIOUS
    <3> QED BY <3>1 DEF IsBatch
  <2> QED BY <1>3, <2>1, <2>2 DEF StartsWell, At, AtPrefixOperation
<1> QED
  BY <1>1, <1>2, <1>3

\* Whatever is started starts well.
LEMMA StartIs ==
  ASSUME IsPrime(prime), NEW c, Proper(c, prime), ~IsLeaf(c), c # RandGen
  PROVE  StartsWell(c)
<1>1. c.protocol \in {"SharedBitXor", "SharedBitOr", "CompareAndSwap", "TaggedCompareAndSwap",
        "ConditionalSwap", "ShareLessThan", "LessThanHalfPrime", "LeastSignificantBit",
        "RandomBitwiseGen", "RandomBitGen", "BitwiseLessThan", "BitwiseOperation",
        "PrefixOperation"}
  BY DEF Proper, Functional, IsLeaf
<1> QED
  BY <1>1, StartOfBitOperations, StartOfGates, StartOfConditionalSwap, StartOfComparisons,
     StartOfRandom, StartOfSequences

-----------------------------------------------------------------------------
(***************************************************************************)
(* The handlers keep what is promised: the operations on bits.             *)
(***************************************************************************)

\* A batch of one call.
LEMMA GoesOn ==
  ASSUME GateOK, stack # <<>>, NEW c, Proper(c, prime), NEW v, Gives(c, v, prime), NEW stage,
         NEW fields, ExecuteIn(stage, <<c>>, fields),
         \A batch : One(batch, v, prime) => At(Top.call, stage, fields, batch, prime)
  PROVE  GateOK'
<1>1. IsBatch(<<c>>, prime) /\ One(<<c>>, v, prime)
  BY OneIs
<1>2. PICK batch : batch = <<c>>
  OBVIOUS
<1>3. IsBatch(batch, prime) /\ At(Top.call, stage, fields, batch, prime)
      /\ ExecuteIn(stage, batch, fields)
  BY <1>1, <1>2
<1> QED
  BY <1>3, ExecuteStays

\* A protocol is completed with the share that it promises.
LEMMA CompletesWith ==
  ASSUME GateOK, stack # <<>>, Top.call.protocol \in Functional, NEW r,
         IsShareOf(r, Promised(Top.call, prime), prime), Complete(r)
  PROVE  GateOK'
BY FunctionalMeets, CompleteStays

\* The product and the sum of two bits are below the prime.
LEMMA BitSums ==
  ASSUME prime \in Nat, prime > 2, NEW x \in {0, 1}, NEW y \in {0, 1}
  PROVE  /\ x * y \in {0, 1} /\ (x * y) % prime = x * y
         /\ x + y \in Nat /\ (x + y) % prime = x + y
<1>1. prime \in Nat \ {0}
  OBVIOUS
<1>2. x * y \in {0, 1} /\ x + y \in 0..2
  OBVIOUS
<1>3. PICK m \in Int, a \in Int : m = x * y /\ a = x + y /\ m \in {0, 1} /\ a \in 0..2
  BY <1>2
<1>4. m % prime = m /\ a % prime = a
  <2>1. 0 <= m /\ m < prime /\ 0 <= a /\ a < prime
    BY <1>3
  <2> QED BY <1>1, <2>1, SmallRemainders
<1> QED
  BY <1>2, <1>3, <1>4

\* What the protocols for two bits know at each stage.
LEMMA BitOperationKnows ==
  ASSUME GateOK, NEW stage, NEW protocol \in {"SharedBitXor", "SharedBitOr"},
         Handling(protocol, stage)
  PROVE  /\ stack # <<>> /\ Top.call.protocol = protocol /\ Top.stage = stage
         /\ IsPrime(prime)
         /\ Args[1] \in Shares(prime) /\ Args[2] \in Shares(prime)
         /\ Args[1].value \in {0, 1} /\ Args[2].value \in {0, 1}
         /\ stage = 0 => IsShareOf(Results[1], Args[1].value * Args[2].value, prime)
         /\ stage = 1 => /\ IsShareOf(Fields.bitProd, Args[1].value * Args[2].value, prime)
                         /\ IsShareOf(Results[1], Args[1].value + Args[2].value, prime)
         /\ stage = 2 => IsShareOf(Results[1], Promised(Top.call, prime), prime)
<1>1. /\ stack # <<>> /\ Top.call.protocol = protocol /\ Top.stage = stage
      /\ Proper(Top.call, prime) /\ IsPrime(prime)
  BY Handled
<1>2. PICK batch : At(Top.call, stage, Fields, batch, prime) /\ Met(batch, Results, prime)
  BY Handled
<1>3. Args[1] \in Bits(prime) /\ Args[2] \in Bits(prime)
  BY <1>1 DEF Proper, TwoOf, Args
<1>4. AtSharedBitXor(Args, stage, Fields, batch, prime)
      \/ AtSharedBitOr(Args, stage, Fields, batch, prime)
  BY <1>1, <1>2 DEF At, Args
<1>5. /\ stage = 0 => One(batch, Args[1].value * Args[2].value, prime)
      /\ stage = 1 => /\ IsShareOf(Fields.bitProd, Args[1].value * Args[2].value, prime)
                      /\ One(batch, Args[1].value + Args[2].value, prime)
  BY <1>4 DEF AtSharedBitXor, AtSharedBitOr
<1>6. stage = 2 => One(batch, Promised(Top.call, prime), prime)
  BY <1>1, <1>2 DEF At, Args, AtSharedBitXor, AtSharedBitOr, Promised, Unequal
<1> QED
  BY <1>1, <1>2, <1>3, <1>5, <1>6, MetOne DEF Bits

\* What the two operations on bits keep and launch after the first stage.
LEMMA BitOperationAt ==
  ASSUME NEW p, NEW c, c.protocol \in {"SharedBitXor", "SharedBitOr"}, NEW fields, NEW batch
  PROVE  /\ /\ IsShareOf(fields.bitProd, c.args[1].value * c.args[2].value, p)
            /\ One(batch, c.args[1].value + c.args[2].value, p)
            => At(c, 1, fields, batch, p)
         /\ One(batch, Promised(c, p), p) => At(c, 2, fields, batch, p)
BY DEF At, AtSharedBitXor, AtSharedBitOr, Promised, Unequal

\* Their second stage, which is the same.
LEMMA BitOperationSecond ==
  ASSUME GateOK, NEW protocol \in {"SharedBitXor", "SharedBitOr"}, Handling(protocol, 0),
         Execute(<<Add(Args[1], Args[2])>>, [bitProd |-> Results[1]])
  PROVE  GateOK'
<1>1. PICK s, t : s = Args[1] /\ t = Args[2]
  OBVIOUS
<1>2. /\ stack # <<>> /\ Top.call.protocol = protocol /\ Top.stage = 0
      /\ s \in Shares(prime) /\ t \in Shares(prime)
      /\ s.value \in {0, 1} /\ t.value \in {0, 1}
      /\ IsShareOf(Results[1], s.value * t.value, prime)
      /\ prime \in Nat /\ prime > 2
  BY <1>1, BitOperationKnows DEF IsPrime
<1>3. (s.value + t.value) % prime = s.value + t.value
  BY <1>2, BitSums
<1>4. Proper(Add(s, t), prime) /\ Gives(Add(s, t), s.value + t.value, prime)
  BY <1>2, <1>3, AddIs
<1>5. PICK fields : fields = [bitProd |-> Results[1]]
  OBVIOUS
<1>6. \A batch : One(batch, s.value + t.value, prime) => At(Top.call, 1, fields, batch, prime)
  <2>1. fields.bitProd = Results[1] /\ s = Top.call.args[1] /\ t = Top.call.args[2]
    BY <1>1, <1>5 DEF Args
  <2>2. IsShareOf(fields.bitProd, Top.call.args[1].value * Top.call.args[2].value, prime)
    BY <1>2, <2>1
  <2>3. s.value + t.value = Top.call.args[1].value + Top.call.args[2].value
    BY <2>1
  <2>4. PICK a : a = Top.call
    OBVIOUS
  <2>5. ASSUME NEW batch, One(batch, s.value + t.value, prime) PROVE At(a, 1, fields, batch, prime)
    <3>1. One(batch, a.args[1].value + a.args[2].value, prime)
      BY <2>3, <2>4, <2>5
    <3>2. IsShareOf(fields.bitProd, a.args[1].value * a.args[2].value, prime)
      BY <2>2, <2>4
    <3>3. a.protocol \in {"SharedBitXor", "SharedBitOr"}
      BY <1>2, <2>4
    <3> QED BY <3>1, <3>2, <3>3, BitOperationAt
  <2> QED BY <2>4, <2>5
<1>7. ExecuteIn(1, <<Add(s, t)>>, fields)
  BY <1>1, <1>2, <1>5 DEF Execute
<1> QED
  BY <1>2, <1>4, <1>6, <1>7, GoesOn

\* SharedBitXorProtocol.HandleMessage.
LEMMA XorStays ==
  ASSUME GateOK, HandleSharedBitXor
  PROVE  GateOK'
<1>0. prime \in Nat \ {0} /\ prime \in Nat /\ prime > 2
  BY DEF GateOK, IsPrime
<1>1. CASE Handling("SharedBitXor", 0) /\ Execute(<<Add(Args[1], Args[2])>>, [bitProd |-> Results[1]])
  BY <1>1, BitOperationSecond
<1>2. CASE /\ Handling("SharedBitXor", 1)
           /\ Execute(<<Add(Results[1], Share(2 * (prime - Fields.bitProd.value),
                       Fields.bitProd.isPublic, Fields.bitProd.degree))>>, Fields)
  <2>1. PICK x, y, product, sum :
          x = Args[1].value /\ y = Args[2].value /\ product = Fields.bitProd /\ sum = Results[1]
    OBVIOUS
  <2>2. /\ stack # <<>> /\ Top.call.protocol = "SharedBitXor" /\ Top.stage = 1
        /\ x \in {0, 1} /\ y \in {0, 1}
        /\ IsShareOf(product, x * y, prime) /\ IsShareOf(sum, x + y, prime)
    BY <1>2, <2>1, BitOperationKnows
  <2>3. PICK twice : twice = Share(2 * (prime - product.value), product.isPublic, product.degree)
    OBVIOUS
  <2>4. twice \in Shares(prime) /\ twice.value = IF x * y = 0 THEN 0 ELSE prime - 2
    <3>1. PICK m \in Int : m = 2 * (prime - product.value)
      BY <1>0, <2>2 DEF IsShareOf
    <3>2. m % prime = IF x * y = 0 THEN 0 ELSE prime - 2
      <4>1. CASE x * y = 0
        <5>1. m = 2 * prime /\ 2 * prime < 3 * prime
          BY <1>0, <2>2, <3>1, <4>1 DEF IsShareOf
        <5> QED BY <1>0, <4>1, <5>1, SmallRemainders
      <4>2. CASE x * y # 0
        <5>1. product.value = 1
          BY <2>2, <4>2 DEF IsShareOf
        <5>2. m = 2 * prime - 2 /\ prime <= m /\ m < 2 * prime
          BY <1>0, <3>1, <5>1
        <5> QED BY <1>0, <4>2, <5>2, SmallRemainders
      <4> QED BY <4>1, <4>2
    <3>3. product \in PublicShares(prime) \/ product \in SecretShares(prime)
      BY <2>2 DEF IsShareOf, Shares
    <3>4. twice = Share(m, TRUE, 0) \/ twice = Share(m, FALSE, 1)
      <4>1. CASE product \in PublicShares(prime)
        <5>1. product.degree = 0 /\ product.isPublic = TRUE
          BY <4>1, KindsOfShares, Flags, Zenon
        <5> QED BY <5>1, <3>1, <2>3, Zenon
      <4>2. CASE product \in SecretShares(prime)
        <5>1. product.degree = 1 /\ product.isPublic = FALSE
          BY <4>2, KindsOfShares, Flags, Zenon
        <5> QED BY <5>1, <3>1, <2>3, Zenon
      <4> QED BY <3>3, <4>1, <4>2
    <3>5. twice \in Shares(prime) /\ twice.value = m % prime
      BY <1>0, <3>4, ShareIs DEF Shares
    <3> QED BY <3>2, <3>5
  <2>5. PICK c : c = Add(sum, twice)
    OBVIOUS
  <2>6. Proper(c, prime) /\ Gives(c, (sum.value + twice.value) % prime, prime)
    BY <2>2, <2>4, <2>5, AddIs DEF IsShareOf
  <2>7. (sum.value + twice.value) % prime = Unequal(x, y)
    <3>0. x * y \in {0, 1} /\ (x * y = 1 <=> x = 1 /\ y = 1)
      BY <2>2
    <3>1. PICK m \in Int : m = sum.value + twice.value
      BY <1>0, <2>2, <2>4 DEF IsShareOf
    <3>2. CASE x = 1 /\ y = 1
      <4>1. m = prime
        BY <1>0, <2>2, <2>4, <3>0, <3>1, <3>2 DEF IsShareOf
      <4>2. m % prime = 0
        BY <1>0, <4>1, SmallRemainders
      <4> QED BY <3>1, <3>2, <4>2 DEF Unequal
    <3>3. CASE ~ (x = 1 /\ y = 1)
      <4>1. x * y = 0
        BY <3>0, <3>3
      <4>2. m = x + y /\ x + y = Unequal(x, y)
        BY <2>2, <2>4, <3>1, <3>3, <4>1 DEF IsShareOf, Unequal
      <4>3. m % prime = m
        BY <1>0, <2>2, <4>2, SmallRemainders
      <4> QED BY <3>1, <4>2, <4>3
    <3> QED BY <3>2, <3>3
  <2>8. Promised(Top.call, prime) = Unequal(x, y)
    BY <2>1, <2>2 DEF Promised, Unequal, Args
  <2>9. \A batch : One(batch, Unequal(x, y), prime) => At(Top.call, 2, Fields, batch, prime)
    BY <2>2, <2>8, BitOperationAt
  <2>10. ExecuteIn(2, <<c>>, Fields)
    BY <1>2, <2>1, <2>2, <2>3, <2>5 DEF Execute
  <2>11. Gives(c, Unequal(x, y), prime)
    BY <2>6, <2>7
  <2> QED BY <2>2, <2>6, <2>9, <2>10, <2>11, GoesOn
<1>3. CASE Handling("SharedBitXor", 2) /\ Complete(Results[1])
  <2>1. /\ stack # <<>> /\ Top.call.protocol = "SharedBitXor"
        /\ IsShareOf(Results[1], Promised(Top.call, prime), prime)
    BY <1>3, BitOperationKnows
  <2> QED BY <1>3, <2>1, CompletesWith DEF Functional
<1> QED
  BY <1>1, <1>2, <1>3 DEF HandleSharedBitXor

\* SharedBitOrProtocol.HandleMessage.
LEMMA OrStays ==
  ASSUME GateOK, HandleSharedBitOr
  PROVE  GateOK'
<1>0. prime \in Nat \ {0} /\ prime \in Nat /\ prime > 2
  BY DEF GateOK, IsPrime
<1>1. CASE Handling("SharedBitOr", 0) /\ Execute(<<Add(Args[1], Args[2])>>, [bitProd |-> Results[1]])
  BY <1>1, BitOperationSecond
<1>2. CASE /\ Handling("SharedBitOr", 1)
           /\ Execute(<<Add(Results[1], Uncounted(Fields.bitProd))>>, Fields)
  <2>1. PICK x, y, product, sum :
          x = Args[1].value /\ y = Args[2].value /\ product = Fields.bitProd /\ sum = Results[1]
    OBVIOUS
  <2>2. /\ stack # <<>> /\ Top.call.protocol = "SharedBitOr" /\ Top.stage = 1
        /\ x \in {0, 1} /\ y \in {0, 1}
        /\ IsShareOf(product, x * y, prime) /\ IsShareOf(sum, x + y, prime)
    BY <1>2, <2>1, BitOperationKnows
  <2>3. PICK c : c = Add(sum, ShareAdditiveInverse(product))
    OBVIOUS
  <2>4. Proper(c, prime) /\ Gives(c, (sum.value - product.value) % prime, prime)
    BY <1>0, <2>2, <2>3, DifferenceIs DEF IsShareOf
  <2>5. (sum.value - product.value) % prime = IF x = 1 \/ y = 1 THEN 1 ELSE 0
    <3>1. PICK m \in Int : m = sum.value - product.value
      BY <2>2 DEF IsShareOf
    <3>2. m = IF x = 1 \/ y = 1 THEN 1 ELSE 0
      BY <2>2, <3>1 DEF IsShareOf
    <3>3. m % prime = m
      BY <1>0, <3>2, SmallRemainders
    <3> QED BY <3>1, <3>2, <3>3
  <2>6. Promised(Top.call, prime) = IF x = 1 \/ y = 1 THEN 1 ELSE 0
    BY <2>1, <2>2 DEF Promised, Args
  <2>7. Gives(c, Promised(Top.call, prime), prime)
    BY <2>4, <2>5, <2>6
  <2>8. \A batch : One(batch, Promised(Top.call, prime), prime) => At(Top.call, 2, Fields, batch, prime)
    BY <2>2, BitOperationAt
  <2>9. ExecuteIn(2, <<c>>, Fields)
    BY <1>2, <2>1, <2>2, <2>3 DEF Execute, Uncounted
  <2> QED BY <2>2, <2>4, <2>7, <2>8, <2>9, GoesOn
<1>3. CASE Handling("SharedBitOr", 2) /\ Complete(Results[1])
  <2>1. /\ stack # <<>> /\ Top.call.protocol = "SharedBitOr"
        /\ IsShareOf(Results[1], Promised(Top.call, prime), prime)
    BY <1>3, BitOperationKnows
  <2> QED BY <1>3, <2>1, CompletesWith DEF Functional
<1> QED
  BY <1>1, <1>2, <1>3 DEF HandleSharedBitOr

-----------------------------------------------------------------------------
(***************************************************************************)
(* The handlers keep what is promised: random bits, and what is built on   *)
(* comparisons.                                                            *)
(***************************************************************************)

\* A handler that launches one proper call for its next stage.
LEMMA GoesOnWith ==
  ASSUME GateOK, stack # <<>>, NEW c, Proper(c, prime), NEW stage, NEW fields,
         ExecuteIn(stage, <<c>>, fields),
         \A batch : Len(batch) = 1 /\ batch[1] = c => At(Top.call, stage, fields, batch, prime)
  PROVE  GateOK'
<1>1. PICK batch : batch = <<c>>
  OBVIOUS
<1>2. IsBatch(<<c>>, prime)
  BY Batches
<1>3. IsBatch(batch, prime) /\ ExecuteIn(stage, batch, fields)
  BY <1>1, <1>2
<1>4. Len(batch) = 1 /\ batch[1] = c
  BY <1>1
<1> QED
  BY <1>3, <1>4, ExecuteStays

\* A handler that tries again.
LEMMA StartsAgain ==
  ASSUME GateOK, stack # <<>>, ~IsLeaf(Top.call), Top.call # RandGen,
         ExecuteIn(0, Launched(Top.call), <<>>)
  PROVE  GateOK'
<1>1. Proper(Top.call, prime) /\ IsPrime(prime)
  BY TopIs
<1>2. StartsWell(Top.call)
  BY <1>1, StartIs
<1>3. PICK batch : batch = Launched(Top.call)
  OBVIOUS
<1>4. IsBatch(batch, prime) /\ At(Top.call, 0, <<>>, batch, prime) /\ ExecuteIn(0, batch, <<>>)
  BY <1>2, <1>3 DEF StartsWell
<1> QED
  BY <1>4, ExecuteStays

\* RandomBitGenProtocol.HandleMessage.
LEMMA RandomBitGenStays ==
  ASSUME GateOK, HandleRandomBitGen
  PROVE  GateOK'
<1>0. prime \in Nat \ {0, 1}
  BY DEF GateOK, IsPrime
<1>1. ASSUME NEW stage, Handling("RandomBitGen", stage)
      PROVE  /\ stack # <<>> /\ Top.call.protocol = "RandomBitGen" /\ Top.stage = stage
             /\ \E batch : AtRandomBitGen(stage, Fields, batch, prime) /\ Met(batch, Results, prime)
  BY <1>1, Handled DEF At
<1>2. CASE Handling("RandomBitGen", 0)
           /\ Execute(<<Multiply(Results[1], Results[1])>>, [randShare |-> Results[1]])
  <2>1. PICK batch : AtRandomBitGen(0, Fields, batch, prime) /\ Met(batch, Results, prime)
    BY <1>1, <1>2
  <2>2. batch = <<RandGen>>
    BY <2>1 DEF AtRandomBitGen
  <2>3. PICK r : r = Results[1]
    OBVIOUS
  <2>4. r \in SecretShares(prime)
    <3>1. Meets(RandGen, r, prime)
      BY <2>1, <2>2, <2>3 DEF Met
    <3> QED BY <3>1, RandomBrings
  <2>5. r \in Shares(prime)
    BY <2>4 DEF Shares
  <2>6. Proper(Multiply(r, r), prime) /\ Gives(Multiply(r, r), (r.value * r.value) % prime, prime)
    BY <2>5, MultiplyIs
  <2>7. PICK fields : fields = [randShare |-> r]
    OBVIOUS
  <2>8. ExecuteIn(1, <<Multiply(r, r)>>, fields)
    BY <1>1, <1>2, <2>3, <2>7 DEF Execute
  <2>9. \A b : One(b, (r.value * r.value) % prime, prime) => At(Top.call, 1, fields, b, prime)
    <3>1. fields.randShare = r
      BY <2>7
    <3> QED BY <1>1, <1>2, <2>4, <3>1 DEF At, AtRandomBitGen
  <2> QED BY <1>1, <1>2, <2>6, <2>8, <2>9, GoesOn
<1>3. CASE Handling("RandomBitGen", 1) /\ Execute(<<Reconstruct(Results[1])>>, Fields)
  <2>1. PICK batch : AtRandomBitGen(1, Fields, batch, prime) /\ Met(batch, Results, prime)
    BY <1>1, <1>3
  <2>2. PICK v, r : v = Fields.randShare.value /\ r = Results[1]
    OBVIOUS
  <2>3. Fields.randShare \in SecretShares(prime) /\ One(batch, (v * v) % prime, prime)
    BY <2>1, <2>2 DEF AtRandomBitGen
  <2>4. IsShareOf(r, (v * v) % prime, prime)
    BY <2>1, <2>2, <2>3, MetOne
  <2>5. Proper(Reconstruct(r), prime) /\ Opens(Reconstruct(r), (v * v) % prime, prime)
    BY <2>4, ReconstructIs DEF IsShareOf
  <2>6. ExecuteIn(2, <<Reconstruct(r)>>, Fields)
    BY <1>1, <1>3, <2>2 DEF Execute
  <2>7. \A b : Len(b) = 1 /\ b[1] = Reconstruct(r) => At(Top.call, 2, Fields, b, prime)
    BY <1>1, <1>3, <2>2, <2>3, <2>5 DEF At, AtRandomBitGen
  <2> QED BY <1>1, <1>3, <2>5, <2>6, <2>7, GoesOnWith
<1>4. CASE /\ Handling("RandomBitGen", 2)
           /\ Results[1] # 0
           /\ Complete(RandomBit(Fields.randShare, Results[1]))
  <2>1. PICK batch : AtRandomBitGen(2, Fields, batch, prime) /\ Met(batch, Results, prime)
    BY <1>1, <1>4
  <2>2. PICK s, v : s = Fields.randShare /\ v = s.value
    OBVIOUS
  <2>3. s \in SecretShares(prime) /\ Len(batch) = 1 /\ Opens(batch[1], (v * v) % prime, prime)
    BY <2>1, <2>2 DEF AtRandomBitGen
  <2>4. Results[1] = (v * v) % prime
    BY <2>1, <2>3, Brings DEF Met
  <2>5. v \in 0..(prime - 1)
    BY <1>0, <2>2, <2>3, SharesAre DEF Shares
  <2>6. PICK bit : bit = RandomBit(s, (v * v) % prime)
    OBVIOUS
  <2>7. bit.value \in {0, 1}
    <3>1. IsPrime(prime)
      BY DEF GateOK
    <3> QED BY <1>4, <2>2, <2>4, <2>5, <2>6, <3>1, RandomBitIsBit
  <2>8. bit \in Shares(prime)
    <3>1. s.degree = 1
      BY <2>3, KindsOfShares
    <3>2. PICK x : bit = [value |-> x, isPublic |-> FALSE, degree |-> s.degree]
      BY <2>6, Zenon DEF RandomBit, Share
    <3>3. bit = [value |-> x, isPublic |-> FALSE, degree |-> 1]
      BY <3>1, <3>2
    <3>4. x \in 0..(prime - 1)
      <4>1. x = bit.value
        BY <3>3
      <4> QED BY <4>1, <2>7, <1>0
    <3> QED BY <3>3, <3>4 DEF Shares, SecretShares
  <2>9. bit \in Bits(prime)
    BY <2>7, <2>8 DEF Bits
  <2>10. Meets(Top.call, bit, prime)
    BY <1>1, <1>4, <2>9 DEF Meets, Functional
  <2> QED BY <1>1, <1>4, <2>2, <2>4, <2>6, <2>10, CompleteStays
<1>5. CASE /\ Handling("RandomBitGen", 2)
           /\ Results[1] = 0
           /\ ExecuteIn(0, Launched(Top.call), <<>>)
  <2>1. stack # <<>> /\ ~IsLeaf(Top.call) /\ Top.call # RandGen
    BY <1>1, <1>5 DEF IsLeaf, RandGen, Call
  <2> QED BY <1>5, <2>1, StartsAgain
<1> QED
  BY <1>2, <1>3, <1>4, <1>5 DEF HandleRandomBitGen

\* LessThanHalfPrimeProtocol.HandleMessage.
LEMMA LessThanHalfPrimeStays ==
  ASSUME GateOK, HandleLessThanHalfPrime
  PROVE  GateOK'
<1>0. prime \in Nat \ {0, 1} /\ prime > 2 /\ prime % 2 = 1
  <2>1. prime \in Nat /\ prime > 2 /\ \A d \in 2..(prime - 1) : prime % d # 0
    BY DEF GateOK, IsPrime
  <2>2. prime % 2 # 0
    BY <2>1
  <2> QED BY <2>1, <2>2
<1>1. ASSUME NEW stage, Handling("LessThanHalfPrime", stage)
      PROVE  /\ stack # <<>> /\ Top.call.protocol = "LessThanHalfPrime" /\ Top.stage = stage
             /\ Args[1] \in Shares(prime) /\ Args[1].value \in 0..(prime - 1)
             /\ \E batch : AtLessThanHalfPrime(Args, stage, batch, prime) /\ Met(batch, Results, prime)
  <2>1. Args[1] \in Shares(prime)
    BY <1>1, Handled DEF Proper, Args
  <2> QED BY <1>0, <1>1, <2>1, Handled, SharesAre DEF At, Args
<1>2. CASE Handling("LessThanHalfPrime", 0) /\ Execute(<<LeastSignificantBit(Results[1])>>, Fields)
  <2>1. PICK batch : AtLessThanHalfPrime(Args, 0, batch, prime) /\ Met(batch, Results, prime)
    BY <1>1, <1>2
  <2>2. PICK s, r : s = Args[1].value /\ r = Results[1]
    OBVIOUS
  <2>3. IsShareOf(r, (2 * s) % prime, prime)
    BY <2>1, <2>2, MetOne DEF AtLessThanHalfPrime
  <2>4. r.value % 2 = 1 - Half(s, prime)
    <3>1. s \in 0..(prime - 1)
      BY <1>1, <1>2, <2>2
    <3>0. PICK m \in Int : m = 2 * s
      BY <3>1
    <3>2. CASE 2 * s < prime
      <4>1. (2 * s) % prime = 2 * s
        <5>1. 0 <= m /\ m < prime
          BY <3>0, <3>1, <3>2
        <5>2. m % prime = m
          BY <1>0, <5>1, SmallRemainders
        <5> QED BY <3>0, <5>2
      <4> QED BY <2>3, <3>1, <3>2, <4>1 DEF Half, IsShareOf
    <3>3. CASE ~ 2 * s < prime
      <4>1. (2 * s) % prime = 2 * s - prime
        <5>1. prime <= m /\ m < 2 * prime
          BY <1>0, <3>0, <3>1, <3>3
        <5>2. m % prime = m - prime
          BY <1>0, <5>1, SmallRemainders
        <5> QED BY <3>0, <5>2
      <4>2. (2 * s - prime) % 2 = 1
        BY <1>0, <3>1
      <4> QED BY <2>3, <3>1, <3>3, <4>1, <4>2 DEF Half, IsShareOf
    <3> QED BY <3>2, <3>3
  <2>5. Proper(LeastSignificantBit(r), prime) /\ Gives(LeastSignificantBit(r), 1 - Half(s, prime), prime)
    <3>1. r \in Shares(prime)
      BY <2>3 DEF IsShareOf
    <3> QED BY <2>4, <3>1, LeastSignificantBitIs
  <2>6. ExecuteIn(1, <<LeastSignificantBit(r)>>, Fields)
    BY <1>1, <1>2, <2>2 DEF Execute
  <2>7. \A b : One(b, 1 - Half(s, prime), prime) => At(Top.call, 1, Fields, b, prime)
    BY <1>1, <1>2, <2>2 DEF At, AtLessThanHalfPrime, Args
  <2> QED BY <1>1, <1>2, <2>5, <2>6, <2>7, GoesOn
<1>3. CASE Handling("LessThanHalfPrime", 1)
           /\ Execute(<<Add(CreateConstantShare(1), ShareAdditiveInverse(Results[1]))>>, Fields)
  <2>1. PICK batch : AtLessThanHalfPrime(Args, 1, batch, prime) /\ Met(batch, Results, prime)
    BY <1>1, <1>3
  <2>2. PICK s, r : s = Args[1].value /\ r = Results[1]
    OBVIOUS
  <2>3. IsShareOf(r, 1 - Half(s, prime), prime)
    BY <2>1, <2>2, MetOne DEF AtLessThanHalfPrime
  <2>4. PICK c : c = Add(CreateConstantShare(1), ShareAdditiveInverse(r))
    OBVIOUS
  <2>5. Proper(c, prime) /\ Gives(c, 1 - r.value, prime)
    <3>1. r \in Shares(prime) /\ r.value \in {0, 1}
      BY <2>3 DEF IsShareOf, Half
    <3> QED BY <1>0, <2>4, <3>1, ComplementIs
  <2>6. 1 - r.value = Half(s, prime)
    BY <2>3 DEF IsShareOf, Half
  <2>7. ExecuteIn(2, <<c>>, Fields)
    BY <1>1, <1>3, <2>2, <2>4 DEF Execute
  <2>8. \A b : One(b, Half(s, prime), prime) => At(Top.call, 2, Fields, b, prime)
    BY <1>1, <1>3, <2>2 DEF At, AtLessThanHalfPrime, Args
  <2>9. Gives(c, Half(s, prime), prime)
    BY <2>5, <2>6
  <2> QED BY <1>1, <1>3, <2>5, <2>7, <2>8, <2>9, GoesOn
<1>4. CASE Handling("LessThanHalfPrime", 2) /\ Complete(Results[1])
  <2>1. PICK batch : AtLessThanHalfPrime(Args, 2, batch, prime) /\ Met(batch, Results, prime)
    BY <1>1, <1>4
  <2>2. PICK r : r = Results[1]
    OBVIOUS
  <2>3. IsShareOf(r, Half(Args[1].value, prime), prime)
    BY <2>1, <2>2, MetOne DEF AtLessThanHalfPrime
  <2>4. Promised(Top.call, prime) = Half(Args[1].value, prime)
    BY <1>1, <1>4 DEF Promised, Half, Args
  <2>5. Top.call.protocol \in Functional
    BY <1>1, <1>4 DEF Functional
  <2> QED BY <1>1, <1>4, <2>2, <2>3, <2>4, <2>5, CompletesWith
<1> QED
  BY <1>2, <1>3, <1>4 DEF HandleLessThanHalfPrime

\* A truth value as a share is a bit.
LEMMA TruthIsBit ==
  ASSUME NEW p, NEW b, NEW r, IsShareOf(r, Truth(b), p)
  PROVE  r \in Bits(p) /\ r.value = Truth(b)
BY DEF IsShareOf, Truth, Bits

\* CompareAndSwapProtocol.HandleMessage.
LEMMA CompareAndSwapStays ==
  ASSUME GateOK, HandleCompareAndSwap
  PROVE  GateOK'
<1>1. ASSUME NEW stage, Handling("CompareAndSwap", stage)
      PROVE  /\ stack # <<>> /\ Top.call.protocol = "CompareAndSwap" /\ Top.stage = stage
             /\ Args[1] \in Shares(prime) /\ Args[2] \in Shares(prime)
             /\ \E batch : AtCompareAndSwap(Args, stage, batch, prime) /\ Met(batch, Results, prime)
  <2>1. Args[1] \in Shares(prime) /\ Args[2] \in Shares(prime)
    BY <1>1, Handled DEF Proper, TwoOf, Args
  <2> QED BY <1>1, <2>1, Handled DEF At, Args
<1>2. CASE Handling("CompareAndSwap", 0)
           /\ Execute(<<ConditionalSwap(Args[1], Args[2], Results[1])>>, Fields)
  <2>1. PICK batch : AtCompareAndSwap(Args, 0, batch, prime) /\ Met(batch, Results, prime)
    BY <1>1, <1>2
  <2>2. PICK s, t, r : s = Args[1] /\ t = Args[2] /\ r = Results[1]
    OBVIOUS
  <2>3. r \in Bits(prime) /\ r.value = Truth(s.value < t.value)
    <3>1. IsShareOf(r, Truth(s.value < t.value), prime)
      BY <2>1, <2>2, MetOne DEF AtCompareAndSwap
    <3> QED BY <3>1, TruthIsBit
  <2>4. PICK c : c = ConditionalSwap(s, t, r)
    OBVIOUS
  <2>5. Proper(c, prime) /\ Swaps(c, s, t, Truth(s.value < t.value))
    BY <1>1, <1>2, <2>2, <2>3, <2>4, ConditionalSwapIs
  <2>6. ExecuteIn(1, <<c>>, Fields)
    BY <1>1, <1>2, <2>2, <2>4 DEF Execute
  <2>7. \A b : Len(b) = 1 /\ b[1] = c => At(Top.call, 1, Fields, b, prime)
    BY <1>1, <1>2, <2>2, <2>5 DEF At, AtCompareAndSwap, Args
  <2> QED BY <1>1, <1>2, <2>5, <2>6, <2>7, GoesOnWith
<1>3. CASE Handling("CompareAndSwap", 1) /\ Complete(Results[1])
  <2>1. PICK batch : AtCompareAndSwap(Args, 1, batch, prime) /\ Met(batch, Results, prime)
    BY <1>1, <1>3
  <2>2. PICK s, t, r : s = Args[1] /\ t = Args[2] /\ r = Results[1]
    OBVIOUS
  <2>3. Len(batch) = 1 /\ Swaps(batch[1], s, t, Truth(s.value < t.value))
    BY <2>1, <2>2 DEF AtCompareAndSwap
  <2>4. IsPair(r) /\ Arranged(r[1], r[2], s, t, Truth(s.value < t.value), prime)
    BY <2>1, <2>2, <2>3, Brings DEF Met
  <2>5. Meets(Top.call, r, prime)
    BY <1>1, <1>3, <2>2, <2>4 DEF Meets, Functional, Args
  <2> QED BY <1>1, <1>3, <2>2, <2>5, CompleteStays
<1> QED
  BY <1>2, <1>3 DEF HandleCompareAndSwap

\* TaggedCompareAndSwapProtocol.HandleMessage: the tags go with the shares.
LEMMA TaggedCompareAndSwapStays ==
  ASSUME GateOK, HandleTaggedCompareAndSwap
  PROVE  GateOK'
<1>1. ASSUME NEW stage, Handling("TaggedCompareAndSwap", stage)
      PROVE  /\ stack # <<>> /\ Top.call.protocol = "TaggedCompareAndSwap" /\ Top.stage = stage
             /\ Args[1][1] \in Shares(prime) /\ Args[2][1] \in Shares(prime)
             /\ Args[1][2] \in Shares(prime) /\ Args[2][2] \in Shares(prime)
             /\ \E batch : /\ AtTaggedCompareAndSwap(Args, stage, batch, prime)
                           /\ Met(batch, Results, prime)
  <2>1. TwoOf(Args[1], Shares(prime)) /\ TwoOf(Args[2], Shares(prime))
    BY <1>1, Handled DEF Proper, Args
  <2>2. /\ Args[1][1] \in Shares(prime) /\ Args[2][1] \in Shares(prime)
        /\ Args[1][2] \in Shares(prime) /\ Args[2][2] \in Shares(prime)
    BY <2>1 DEF TwoOf
  <2> QED BY <1>1, <2>2, Handled DEF At, Args
<1>2. CASE /\ Handling("TaggedCompareAndSwap", 0)
           /\ Execute(<<ConditionalSwap(Args[1][1], Args[2][1], Results[1]),
                        ConditionalSwap(Args[1][2], Args[2][2], Results[1])>>, Fields)
  <2>1. PICK batch : AtTaggedCompareAndSwap(Args, 0, batch, prime) /\ Met(batch, Results, prime)
    BY <1>1, <1>2
  <2>2. PICK s, t, r : s = Args[1] /\ t = Args[2] /\ r = Results[1]
    OBVIOUS
  <2>3. PICK less : less = Truth(s[1].value < t[1].value)
    OBVIOUS
  <2>4. r \in Bits(prime) /\ r.value = less
    <3>1. IsShareOf(r, Truth(s[1].value < t[1].value), prime)
      BY <2>1, <2>2, MetOne DEF AtTaggedCompareAndSwap
    <3> QED BY <2>3, <3>1, TruthIsBit
  <2>5. PICK c, d : c = ConditionalSwap(s[1], t[1], r) /\ d = ConditionalSwap(s[2], t[2], r)
    OBVIOUS
  <2>6. Proper(c, prime) /\ Swaps(c, s[1], t[1], less)
    BY <1>1, <1>2, <2>2, <2>4, <2>5, ConditionalSwapIs
  <2>7. Proper(d, prime) /\ Swaps(d, s[2], t[2], less)
    BY <1>1, <1>2, <2>2, <2>4, <2>5, ConditionalSwapIs
  <2>8. PICK calls : calls = <<c, d>>
    OBVIOUS
  <2>9. ExecuteIn(1, calls, Fields)
    BY <1>1, <1>2, <2>2, <2>5, <2>8 DEF Execute
  <2>10. IsBatch(calls, prime)
    <3>1. IsBatch(<<c, d>>, prime)
      BY <2>6, <2>7, Batches
    <3> QED BY <2>8, <3>1
  <2>11. Len(calls) = 2 /\ calls[1] = c /\ calls[2] = d
    BY <2>8
  <2>12. At(Top.call, 1, Fields, calls, prime)
    BY <1>1, <1>2, <2>2, <2>3, <2>6, <2>7, <2>11 DEF At, AtTaggedCompareAndSwap, Args
  <2> QED BY <1>1, <1>2, <2>9, <2>10, <2>12, ExecuteStays
<1>3. CASE /\ Handling("TaggedCompareAndSwap", 1)
           /\ Complete(<<<<Results[1][1], Results[2][1]>>, <<Results[1][2], Results[2][2]>>>>)
  <2>1. PICK batch : AtTaggedCompareAndSwap(Args, 1, batch, prime) /\ Met(batch, Results, prime)
    BY <1>1, <1>3
  <2>2. PICK s, t : s = Args[1] /\ t = Args[2]
    OBVIOUS
  <2>3. PICK less : less = Truth(s[1].value < t[1].value)
    OBVIOUS
  <2>4. Len(batch) = 2 /\ Swaps(batch[1], s[1], t[1], less) /\ Swaps(batch[2], s[2], t[2], less)
    BY <2>1, <2>2, <2>3 DEF AtTaggedCompareAndSwap
  <2>5. Arranged(Results[1][1], Results[1][2], s[1], t[1], less, prime)
    BY <2>1, <2>4, Brings DEF Met
  <2>6. Arranged(Results[2][1], Results[2][2], s[2], t[2], less, prime)
    BY <2>1, <2>4, Brings DEF Met
  <2>7. PICK u, v, w, x : /\ u = Results[1][1] /\ v = Results[2][1]
                          /\ w = Results[1][2] /\ x = Results[2][2]
    OBVIOUS
  <2>8. PICK r : r = <<<<u, v>>, <<w, x>>>>
    OBVIOUS
  <2>9. IsPair(r) /\ IsPair(r[1]) /\ IsPair(r[2])
    BY <2>8 DEF IsPair
  <2>10. r[1][1] = u /\ r[1][2] = v /\ r[2][1] = w /\ r[2][2] = x
    BY <2>8
  <2>11. \A k \in {1, 2} : Arranged(r[1][k], r[2][k], s[k], t[k], less, prime)
    BY <2>5, <2>6, <2>7, <2>10
  <2>12. Meets(Top.call, r, prime)
    BY <1>1, <1>3, <2>2, <2>3, <2>9, <2>11 DEF Meets, Functional, Args
  <2>13. Complete(r)
    BY <1>3, <2>7, <2>8
  <2> QED BY <1>1, <1>3, <2>12, <2>13, CompleteStays
<1> QED
  BY <1>2, <1>3 DEF HandleTaggedCompareAndSwap

\* A value times a bit.
LEMMA BitProduct ==
  ASSUME prime \in Nat \ {0, 1}, NEW b \in Shares(prime), b.value \in {0, 1}, NEW s \in Shares(prime)
  PROVE  /\ Proper(Multiply(b, s), prime) /\ Gives(Multiply(b, s), b.value * s.value, prime)
         /\ b.value * s.value = IF b.value = 1 THEN s.value ELSE 0
         /\ s.value \in 0..(prime - 1)
<1>1. s.value \in 0..(prime - 1) /\ prime \in Nat \ {0}
  BY SharesAre
<1>2. PICK m \in Int : m = b.value * s.value /\ m = IF b.value = 1 THEN s.value ELSE 0
  BY <1>1
<1>3. m % prime = m
  <2>1. 0 <= m /\ m < prime
    BY <1>1, <1>2
  <2> QED BY <1>1, <2>1, SmallRemainders
<1>4. Proper(Multiply(b, s), prime) /\ Gives(Multiply(b, s), (b.value * s.value) % prime, prime)
  BY MultiplyIs
<1>5. (b.value * s.value) % prime = b.value * s.value
  BY <1>2, <1>3
<1> QED
  BY <1>1, <1>2, <1>4, <1>5

\* The sum of two values of which one is 0.
LEMMA OneOfTwo ==
  ASSUME prime \in Nat \ {0, 1}, NEW r, NEW q, NEW v \in 0..(prime - 1), NEW w \in 0..(prime - 1),
         NEW b \in {0, 1}, IsShareOf(r, IF b = 1 THEN v ELSE 0, prime),
         IsShareOf(q, IF b = 1 THEN 0 ELSE w, prime)
  PROVE  /\ Proper(Add(r, q), prime) /\ Gives(Add(r, q), IF b = 1 THEN v ELSE w, prime)
<1>1. PICK m \in Int : m = r.value + q.value /\ m = IF b = 1 THEN v ELSE w
  BY DEF IsShareOf
<1>2. m % prime = m
  <2>1. 0 <= m /\ m < prime /\ prime \in Nat \ {0}
    BY <1>1
  <2> QED BY <2>1, SmallRemainders
<1>3. Proper(Add(r, q), prime) /\ Gives(Add(r, q), (r.value + q.value) % prime, prime)
  BY AddIs DEF IsShareOf
<1>4. (r.value + q.value) % prime = m /\ m = IF b = 1 THEN v ELSE w
  BY <1>1, <1>2
<1> QED
  BY <1>3, <1>4

\* ConditionalSwapProtocol.HandleMessage.
LEMMA ConditionalSwapStays ==
  ASSUME GateOK, HandleConditionalSwap
  PROVE  GateOK'
<1>0. prime \in Nat \ {0, 1} /\ prime \in Nat \ {0}
  BY DEF GateOK, IsPrime
<1>1. ASSUME NEW stage, Handling("ConditionalSwap", stage)
      PROVE  /\ stack # <<>> /\ Top.call.protocol = "ConditionalSwap" /\ Top.stage = stage
             /\ Args[1] \in Shares(prime) /\ Args[2] \in Shares(prime)
             /\ Args[1].value \in 0..(prime - 1) /\ Args[2].value \in 0..(prime - 1)
             /\ Args[3] \in Shares(prime) /\ Args[3].value \in {0, 1}
             /\ \E R : Results \in Seq(R)
             /\ \E batch : AtConditionalSwap(Args, stage, batch, prime) /\ Met(batch, Results, prime)
  <2>1. Args[1] \in Shares(prime) /\ Args[2] \in Shares(prime) /\ Args[3] \in Bits(prime)
    BY <1>1, Handled DEF Proper, Args
  <2>2. Args[1].value \in 0..(prime - 1) /\ Args[2].value \in 0..(prime - 1)
    BY <1>0, <2>1, SharesAre
  <2>3. Args[3] \in Shares(prime) /\ Args[3].value \in {0, 1}
    BY <2>1 DEF Bits
  <2> QED BY <1>1, <2>1, <2>2, <2>3, Handled DEF At, Args
<1>2. CASE Handling("ConditionalSwap", 0)
           /\ Execute(<<Multiply(Args[3], Args[1]), Multiply(Results[1], Args[1]),
                        Multiply(Args[3], Args[2]), Multiply(Results[1], Args[2])>>, Fields)
  <2>1. PICK batch : AtConditionalSwap(Args, 0, batch, prime) /\ Met(batch, Results, prime)
    BY <1>1, <1>2
  <2>2. PICK s, t, b, r : s = Args[1] /\ t = Args[2] /\ b = Args[3] /\ r = Results[1]
    OBVIOUS
  <2>3. b \in Shares(prime) /\ b.value \in {0, 1} /\ s \in Shares(prime) /\ t \in Shares(prime)
    BY <1>1, <1>2, <2>2
  <2>4. r \in Shares(prime) /\ r.value = 1 - b.value /\ r.value \in {0, 1}
    <3>1. IsShareOf(r, 1 - b.value, prime)
      BY <2>1, <2>2, MetOne DEF AtConditionalSwap
    <3> QED BY <2>3, <3>1 DEF IsShareOf
  <2>5. PICK c1, c2, c3, c4 : /\ c1 = Multiply(b, s) /\ c2 = Multiply(r, s)
                              /\ c3 = Multiply(b, t) /\ c4 = Multiply(r, t)
    OBVIOUS
  <2>6. /\ Proper(c1, prime) /\ Gives(c1, b.value * s.value, prime)
        /\ Proper(c2, prime) /\ Gives(c2, r.value * s.value, prime)
        /\ Proper(c3, prime) /\ Gives(c3, b.value * t.value, prime)
        /\ Proper(c4, prime) /\ Gives(c4, r.value * t.value, prime)
    BY <1>0, <2>3, <2>4, <2>5, BitProduct
  <2>7. PICK calls : calls = <<c1, c2, c3, c4>>
    OBVIOUS
  <2>8. ExecuteIn(1, calls, Fields)
    BY <1>1, <1>2, <2>2, <2>5, <2>7 DEF Execute
  <2>9. IsBatch(calls, prime)
    <3>1. IsBatch(<<c1, c2, c3, c4>>, prime)
      BY <2>6, Batches
    <3> QED BY <2>7, <3>1
  <2>10. Len(calls) = 4 /\ calls[1] = c1 /\ calls[2] = c2 /\ calls[3] = c3 /\ calls[4] = c4
    BY <2>7
  <2>11. At(Top.call, 1, Fields, calls, prime)
    <3>1. /\ Gives(calls[1], b.value * s.value, prime) /\ Gives(calls[2], (1 - b.value) * s.value, prime)
          /\ Gives(calls[3], b.value * t.value, prime) /\ Gives(calls[4], (1 - b.value) * t.value, prime)
      BY <2>4, <2>6, <2>10
    <3> QED BY <1>1, <1>2, <2>2, <2>10, <3>1 DEF At, AtConditionalSwap, Args
  <2> QED BY <1>1, <1>2, <2>8, <2>9, <2>11, ExecuteStays
<1>3. CASE Handling("ConditionalSwap", 1)
           /\ Execute(<<Add(Results[1], Results[4]), Add(Results[2], Results[3])>>, Fields)
  <2>1. PICK batch : AtConditionalSwap(Args, 1, batch, prime) /\ Met(batch, Results, prime)
    BY <1>1, <1>3
  <2>2. PICK b, s, t : b = Args[3].value /\ s = Args[1].value /\ t = Args[2].value
    OBVIOUS
  <2>3. b \in {0, 1} /\ s \in 0..(prime - 1) /\ t \in 0..(prime - 1)
    BY <1>1, <1>3, <2>2
  <2>4. PICK r1, r2, r3, r4 : r1 = Results[1] /\ r2 = Results[2] /\ r3 = Results[3] /\ r4 = Results[4]
    OBVIOUS
  <2>5. /\ Len(batch) = 4
        /\ Gives(batch[1], b * s, prime) /\ Gives(batch[2], (1 - b) * s, prime)
        /\ Gives(batch[3], b * t, prime) /\ Gives(batch[4], (1 - b) * t, prime)
    BY <2>1, <2>2 DEF AtConditionalSwap
  <2>6. /\ Meets(batch[1], r1, prime) /\ Meets(batch[2], r2, prime)
        /\ Meets(batch[3], r3, prime) /\ Meets(batch[4], r4, prime)
    BY <2>1, <2>4, <2>5 DEF Met
  <2>7. /\ IsShareOf(r1, b * s, prime) /\ IsShareOf(r2, (1 - b) * s, prime)
        /\ IsShareOf(r3, b * t, prime) /\ IsShareOf(r4, (1 - b) * t, prime)
    BY <2>5, <2>6, Brings
  <2>8. /\ IsShareOf(r1, IF b = 1 THEN s ELSE 0, prime) /\ IsShareOf(r2, IF b = 1 THEN 0 ELSE s, prime)
        /\ IsShareOf(r3, IF b = 1 THEN t ELSE 0, prime) /\ IsShareOf(r4, IF b = 1 THEN 0 ELSE t, prime)
    <3>1. /\ b * s = IF b = 1 THEN s ELSE 0
          /\ (1 - b) * s = IF b = 1 THEN 0 ELSE s
          /\ b * t = IF b = 1 THEN t ELSE 0
          /\ (1 - b) * t = IF b = 1 THEN 0 ELSE t
      BY <2>3
    <3> QED BY <2>7, <3>1
  <2>9. PICK c, d : c = Add(r1, r4) /\ d = Add(r2, r3)
    OBVIOUS
  <2>10. Proper(c, prime) /\ Gives(c, IF b = 1 THEN s ELSE t, prime)
    BY <1>0, <2>3, <2>8, <2>9, OneOfTwo
  <2>11. Proper(d, prime) /\ Gives(d, IF b = 1 THEN t ELSE s, prime)
    <3>1. PICK m \in Int : m = r2.value + r3.value /\ m = IF b = 1 THEN t ELSE s
      BY <2>3, <2>8 DEF IsShareOf
    <3>2. m % prime = m
      <4>1. 0 <= m /\ m < prime
        BY <1>0, <2>3, <3>1
      <4> QED BY <1>0, <4>1, SmallRemainders
    <3>3. Proper(d, prime) /\ Gives(d, (r2.value + r3.value) % prime, prime)
      BY <2>8, <2>9, AddIs DEF IsShareOf
    <3>4. (r2.value + r3.value) % prime = m
      BY <3>1, <3>2
    <3> QED BY <3>1, <3>3, <3>4
  <2>12. PICK calls : calls = <<c, d>>
    OBVIOUS
  <2>13. ExecuteIn(2, calls, Fields)
    BY <1>1, <1>3, <2>4, <2>9, <2>12 DEF Execute
  <2>14. IsBatch(calls, prime)
    <3>1. IsBatch(<<c, d>>, prime)
      BY <2>10, <2>11, Batches
    <3> QED BY <2>12, <3>1
  <2>15. Len(calls) = 2 /\ calls[1] = c /\ calls[2] = d
    BY <2>12
  <2>16. At(Top.call, 2, Fields, calls, prime)
    BY <1>1, <1>3, <2>2, <2>10, <2>11, <2>15 DEF At, AtConditionalSwap, Args
  <2> QED BY <1>1, <1>3, <2>13, <2>14, <2>16, ExecuteStays
<1>4. CASE Handling("ConditionalSwap", 2) /\ Complete(Results)
  <2>1. PICK batch : AtConditionalSwap(Args, 2, batch, prime) /\ Met(batch, Results, prime)
    BY <1>1, <1>4
  <2>2. PICK b, s, t : b = Args[3].value /\ s = Args[1].value /\ t = Args[2].value
    OBVIOUS
  <2>3. /\ Len(batch) = 2
        /\ Gives(batch[1], IF b = 1 THEN s ELSE t, prime)
        /\ Gives(batch[2], IF b = 1 THEN t ELSE s, prime)
    BY <2>1, <2>2 DEF AtConditionalSwap
  <2>4. Len(Results) = 2 /\ Meets(batch[1], Results[1], prime) /\ Meets(batch[2], Results[2], prime)
    BY <2>1, <2>3 DEF Met
  <2>5. /\ IsShareOf(Results[1], IF b = 1 THEN s ELSE t, prime)
        /\ IsShareOf(Results[2], IF b = 1 THEN t ELSE s, prime)
    BY <2>3, <2>4, Brings
  <2>6. PICK r : r = Results
    OBVIOUS
  <2>7. IsPair(r)
    <3>1. PICK R : r \in Seq(R)
      BY <1>1, <1>4, <2>6
    <3> QED BY <2>4, <2>6, <3>1 DEF IsPair
  <2>8. Arranged(r[1], r[2], Args[1], Args[2], b, prime)
    BY <2>2, <2>5, <2>6 DEF Arranged
  <2>9. Meets(Top.call, r, prime)
    BY <1>1, <1>4, <2>2, <2>7, <2>8 DEF Meets, Functional, Args
  <2> QED BY <1>1, <1>4, <2>6, <2>9, CompleteStays
<1> QED
  BY <1>2, <1>3, <1>4 DEF HandleConditionalSwap

-----------------------------------------------------------------------------
(***************************************************************************)
(* Comparing two values by what is less than half of the prime.            *)
(***************************************************************************)

\* The formula of ShareLessThanProtocol.
LEMMA LessThanFormula ==
  ASSUME NEW p \in Nat, p > 2, NEW s \in 0..(p - 1), NEW t \in 0..(p - 1), NEW w, NEW x, NEW y,
         w = Half(s, p), x = Half(t, p), y = Half((s - t) % p, p)
  PROVE  1 + (x * y + w * TwoBits(x, y) - (x + y)) = Truth(s < t)
<1>1. w \in {0, 1} /\ x \in {0, 1} /\ y \in {0, 1}
  BY DEF Half
<1>2. PICK d \in Int : d = s - t
  OBVIOUS
<1>3. (s - t) % p = IF s < t THEN d + p ELSE d
  <2>1. p \in Nat \ {0} /\ -p <= d /\ d < p
    BY <1>2
  <2>2. CASE d < 0
    <3>1. d % p = d + p
      BY <2>1, <2>2, SmallRemainders
    <3> QED BY <1>2, <2>2, <3>1
  <2>3. CASE ~ d < 0
    <3>1. 0 <= d
      BY <2>3
    <3>2. d % p = d
      BY <2>1, <3>1, SmallRemainders
    <3> QED BY <1>2, <2>3, <3>2
  <2> QED BY <2>2, <2>3
<1>4. /\ w = 1 <=> 2 * s < p
      /\ x = 1 <=> 2 * t < p
      /\ y = 1 <=> 2 * (IF s < t THEN d + p ELSE d) < p
  BY <1>3 DEF Half
<1>5. w = x => (y = 1 <=> ~ s < t)
  BY <1>1, <1>2, <1>4
<1>6. w = 1 /\ x = 0 => s < t
  BY <1>1, <1>4
<1>7. w = 0 /\ x = 1 => ~ s < t
  BY <1>1, <1>4
<1>8. TwoBits(x, y) = (IF x # y THEN 1 ELSE 0) /\ x * y = (IF x = 1 /\ y = 1 THEN 1 ELSE 0)
  BY <1>1 DEF TwoBits
<1>9. CASE w = 1
  <2>1. w * TwoBits(x, y) = TwoBits(x, y)
    BY <1>8, <1>9
  <2>2. 1 + (x * y + w * TwoBits(x, y) - (x + y)) = IF x = 1 /\ y = 1 THEN 0 ELSE 1
    <3>1. PICK product \in Int, e \in Int, f \in Int :
            product = x * y /\ e = TwoBits(x, y) /\ f = w * TwoBits(x, y)
      BY <1>1, <1>8, <2>1
    <3>2. 1 + (product + e - (x + y)) = IF x = 1 /\ y = 1 THEN 0 ELSE 1
      <4>1. product = (IF x = 1 /\ y = 1 THEN 1 ELSE 0) /\ e = (IF x # y THEN 1 ELSE 0)
        BY <1>8, <3>1
      <4>2. CASE x = 0
        BY <4>1, <4>2, <1>1
      <4>3. CASE x = 1
        BY <4>1, <4>3, <1>1
      <4> QED BY <1>1, <4>2, <4>3
    <3> QED BY <2>1, <3>1, <3>2
  <2> QED BY <1>1, <1>5, <1>6, <1>9, <2>2 DEF Truth
<1>10. CASE w = 0
  <2>1. w * TwoBits(x, y) = 0
    BY <1>8, <1>10
  <2>2. 1 + (x * y + w * TwoBits(x, y) - (x + y)) = IF x = 0 /\ y = 0 THEN 1 ELSE 0
    BY <1>1, <1>8, <2>1
  <2> QED BY <1>1, <1>5, <1>7, <1>10, <2>2 DEF Truth
<1> QED
  BY <1>1, <1>9, <1>10

\* What the protocol knows at each stage.
LEMMA LessThanKnows ==
  ASSUME GateOK, NEW stage, Handling("ShareLessThan", stage), NEW w, NEW x, NEW y,
         w = FirstHalf(Args, prime), x = SecondHalf(Args, prime), y = DifferenceHalf(Args, prime)
  PROVE  /\ stack # <<>> /\ Top.call.protocol = "ShareLessThan" /\ Top.stage = stage
         /\ w \in {0, 1} /\ x \in {0, 1} /\ y \in {0, 1}
         /\ Args[1] \in Shares(prime) /\ Args[2] \in Shares(prime)
         /\ stage = 0 => IsShareOf(Results[1], (Args[1].value - Args[2].value) % prime, prime)
         /\ stage = 1 => /\ IsShareOf(Results[1], w, prime) /\ IsShareOf(Results[2], x, prime)
                         /\ IsShareOf(Results[3], y, prime)
         /\ stage = 2 => /\ IsShareOf(Fields.w, w, prime)
                         /\ IsShareOf(Results[1], x * y, prime)
                         /\ IsShareOf(Results[2], x + y, prime)
         /\ stage \in 3..8 => /\ IsShareOf(Fields.w, w, prime)
                              /\ IsShareOf(Fields.xy, x * y, prime)
                              /\ IsShareOf(Fields.xpy, x + y, prime)
         /\ stage = 3 => IsShareOf(Results[1], 2 * (x * y), prime)
         /\ stage = 4 => IsShareOf(Results[1], TwoBits(x, y), prime)
         /\ stage = 5 => IsShareOf(Results[1], w * TwoBits(x, y), prime)
         /\ stage = 6 => IsShareOf(Results[1], x * y + w * TwoBits(x, y), prime)
         /\ stage = 7 => IsShareOf(Results[1], (x * y + w * TwoBits(x, y) - (x + y)) % prime, prime)
         /\ stage = 8 => IsShareOf(Results[1], Promised(Top.call, prime), prime)
<1>1. /\ stack # <<>> /\ Top.call.protocol = "ShareLessThan" /\ Top.stage = stage
      /\ Proper(Top.call, prime)
  BY Handled
<1>2. PICK batch : At(Top.call, stage, Fields, batch, prime) /\ Met(batch, Results, prime)
  BY Handled
<1>3. Args[1] \in Shares(prime) /\ Args[2] \in Shares(prime)
  BY <1>1 DEF Proper, TwoOf, Args
<1>4. w \in {0, 1} /\ x \in {0, 1} /\ y \in {0, 1}
  BY DEF FirstHalf, SecondHalf, DifferenceHalf, Half
<1>5. AtLessThan(Args, stage, Fields, batch, prime)
  BY <1>1, <1>2 DEF At, Args
<1>6. Promised(Top.call, prime) = Truth(Args[1].value < Args[2].value)
  BY <1>1 DEF Promised, Truth, Args
<1>7. stage = 0 => IsShareOf(Results[1], (Args[1].value - Args[2].value) % prime, prime)
  BY <1>2, <1>5, MetOne DEF AtLessThan
<1>8. stage = 1 => /\ IsShareOf(Results[1], w, prime) /\ IsShareOf(Results[2], x, prime)
                   /\ IsShareOf(Results[3], y, prime)
  <2>1. SUFFICES ASSUME stage = 1
                 PROVE  /\ IsShareOf(Results[1], w, prime) /\ IsShareOf(Results[2], x, prime)
                        /\ IsShareOf(Results[3], y, prime)
    OBVIOUS
  <2>2. /\ Len(batch) = 3
        /\ Gives(batch[1], w, prime) /\ Gives(batch[2], x, prime) /\ Gives(batch[3], y, prime)
    BY <1>5, <2>1 DEF AtLessThan
  <2>3. /\ Meets(batch[1], Results[1], prime) /\ Meets(batch[2], Results[2], prime)
        /\ Meets(batch[3], Results[3], prime)
    BY <1>2, <2>2 DEF Met
  <2> QED BY <2>2, <2>3, Brings
<1>9. stage = 2 => /\ IsShareOf(Fields.w, w, prime)
                   /\ IsShareOf(Results[1], x * y, prime)
                   /\ IsShareOf(Results[2], x + y, prime)
  <2>1. SUFFICES ASSUME stage = 2
                 PROVE  /\ IsShareOf(Fields.w, w, prime)
                        /\ IsShareOf(Results[1], x * y, prime)
                        /\ IsShareOf(Results[2], x + y, prime)
    OBVIOUS
  <2>2. /\ Len(batch) = 2 /\ IsShareOf(Fields.w, w, prime)
        /\ Gives(batch[1], x * y, prime) /\ Gives(batch[2], x + y, prime)
    BY <1>5, <2>1 DEF AtLessThan
  <2>3. Meets(batch[1], Results[1], prime) /\ Meets(batch[2], Results[2], prime)
    BY <1>2, <2>2 DEF Met
  <2> QED BY <2>2, <2>3, Brings
<1>10. stage \in 3..8 => /\ IsShareOf(Fields.w, w, prime)
                         /\ IsShareOf(Fields.xy, x * y, prime)
                         /\ IsShareOf(Fields.xpy, x + y, prime)
  BY <1>5 DEF AtLessThan
<1>11. /\ stage = 3 => One(batch, 2 * (x * y), prime)
       /\ stage = 4 => One(batch, TwoBits(x, y), prime)
       /\ stage = 5 => One(batch, w * TwoBits(x, y), prime)
       /\ stage = 6 => One(batch, x * y + w * TwoBits(x, y), prime)
       /\ stage = 7 => One(batch, (x * y + w * TwoBits(x, y) - (x + y)) % prime, prime)
       /\ stage = 8 => One(batch, Promised(Top.call, prime), prime)
  BY <1>5, <1>6 DEF AtLessThan
<1>12. \A v : One(batch, v, prime) => IsShareOf(Results[1], v, prime)
  BY <1>2, MetOne
<1> QED
  BY <1>1, <1>3, <1>4, <1>7, <1>8, <1>9, <1>10, <1>11, <1>12

\* What it must have launched to be at a stage.
LEMMA LessThanAt ==
  ASSUME NEW p, NEW c, c.protocol = "ShareLessThan", NEW fields, NEW batch, NEW w, NEW x, NEW y,
         w = FirstHalf(c.args, p), x = SecondHalf(c.args, p), y = DifferenceHalf(c.args, p),
         IsShareOf(fields.w, w, p)
  PROVE  /\ Len(batch) = 2 /\ Gives(batch[1], x * y, p) /\ Gives(batch[2], x + y, p) =>
              At(c, 2, fields, batch, p)
         /\ IsShareOf(fields.xy, x * y, p) /\ IsShareOf(fields.xpy, x + y, p) =>
              /\ One(batch, 2 * (x * y), p) => At(c, 3, fields, batch, p)
              /\ One(batch, TwoBits(x, y), p) => At(c, 4, fields, batch, p)
              /\ One(batch, w * TwoBits(x, y), p) => At(c, 5, fields, batch, p)
              /\ One(batch, x * y + w * TwoBits(x, y), p) => At(c, 6, fields, batch, p)
              /\ One(batch, (x * y + w * TwoBits(x, y) - (x + y)) % p, p) =>
                   At(c, 7, fields, batch, p)
              /\ One(batch, Promised(c, p), p) => At(c, 8, fields, batch, p)
<1>1. \A stage : AtLessThan(c.args, stage, fields, batch, p) => At(c, stage, fields, batch, p)
  BY DEF At
<1>2. Promised(c, p) = Truth(c.args[1].value < c.args[2].value)
  BY DEF Promised, Truth
<1>3. Len(batch) = 2 /\ Gives(batch[1], x * y, p) /\ Gives(batch[2], x + y, p) =>
        At(c, 2, fields, batch, p)
  BY <1>1 DEF AtLessThan
<1>4. ASSUME IsShareOf(fields.xy, x * y, p), IsShareOf(fields.xpy, x + y, p), NEW stage \in 3..8,
             /\ stage = 3 => One(batch, 2 * (x * y), p)
             /\ stage = 4 => One(batch, TwoBits(x, y), p)
             /\ stage = 5 => One(batch, w * TwoBits(x, y), p)
             /\ stage = 6 => One(batch, x * y + w * TwoBits(x, y), p)
             /\ stage = 7 => One(batch, (x * y + w * TwoBits(x, y) - (x + y)) % p, p)
             /\ stage = 8 => One(batch, Promised(c, p), p)
      PROVE  At(c, stage, fields, batch, p)
  <2>1. AtLessThan(c.args, stage, fields, batch, p)
    BY <1>2, <1>4 DEF AtLessThan
  <2> QED BY <1>1, <2>1
<1> QED
  BY <1>3, <1>4

\* The difference of two shares, the other way round.
LEMMA MinuendSecond ==
  ASSUME prime \in Nat \ {0}, NEW s \in Shares(prime), NEW t \in Shares(prime)
  PROVE  LET c == Add(ShareAdditiveInverse(t), s)
         IN  Proper(c, prime) /\ Gives(c, (s.value - t.value) % prime, prime)
<1>1. PICK inverse : inverse = ShareAdditiveInverse(t)
  OBVIOUS
<1>2. inverse \in Shares(prime)
  BY <1>1, InverseIs
<1>3. Gives(Add(s, inverse), (s.value - t.value) % prime, prime)
  BY <1>1, DifferenceIs
<1>4. Gives(Add(s, inverse), (s.value + inverse.value) % prime, prime)
  BY <1>2, AddIs
<1>5. (s.value + inverse.value) % prime = (s.value - t.value) % prime
  BY <1>3, <1>4 DEF Gives
<1>6. Proper(Add(inverse, s), prime) /\ Gives(Add(inverse, s), (inverse.value + s.value) % prime, prime)
  BY <1>2, AddIs
<1>7. inverse.value + s.value = s.value + inverse.value
  BY <1>2, SharesAre
<1> QED
  BY <1>1, <1>5, <1>6, <1>7

\* Values that are less than the prime are their remainders.
LEMMA SmallBits ==
  ASSUME prime \in Nat, prime > 2, NEW w \in {0, 1}, NEW x \in {0, 1}, NEW y \in {0, 1}
  PROVE  /\ x * y \in {0, 1} /\ TwoBits(x, y) \in {0, 1} /\ w * TwoBits(x, y) \in {0, 1}
         /\ (x * y) % prime = x * y /\ (x + y) % prime = x + y
         /\ (2 * (x * y)) % prime = 2 * (x * y)
         /\ TwoBits(x, y) = x + y - 2 * (x * y)
         /\ TwoBits(x, y) % prime = TwoBits(x, y)
         /\ (w * TwoBits(x, y)) % prime = w * TwoBits(x, y)
         /\ (x * y + w * TwoBits(x, y)) % prime = x * y + w * TwoBits(x, y)
<1>1. PICK m \in {0, 1} : m = x * y /\ (m = 1 <=> x = 1 /\ y = 1)
  OBVIOUS
<1>2. TwoBits(x, y) = x + y - 2 * m
  BY <1>1 DEF TwoBits
<1>3. PICK e \in {0, 1} : e = TwoBits(x, y) /\ (e = 1 <=> x # y)
  BY <1>1, <1>2
<1>4. PICK f \in {0, 1} : f = w * TwoBits(x, y) /\ (f = 1 <=> w = 1 /\ e = 1)
  BY <1>3
<1>5. \A z \in Int : 0 <= z /\ z <= 2 => z % prime = z
  <2>1. TAKE z \in Int
  <2>2. prime \in Nat \ {0} /\ (z <= 2 => z < prime)
    OBVIOUS
  <2> QED BY <2>2, SmallRemainders
<1>6. PICK a \in Int, b \in Int, g \in Int : a = x + y /\ b = 2 * m /\ g = m + f
  OBVIOUS
<1>7. m % prime = m /\ e % prime = e /\ f % prime = f /\ a % prime = a /\ b % prime = b /\ g % prime = g
  BY <1>5, <1>6
<1> QED
  BY <1>1, <1>2, <1>3, <1>4, <1>6, <1>7

\* ShareLessThanProtocol.HandleMessage: up to the sum and the product of X and Y,
LEMMA LessThanFirstStages ==
  ASSUME GateOK,
         \/ /\ Handling("ShareLessThan", 0)
            /\ Execute(<<LessThanHalfPrime(Args[1]), LessThanHalfPrime(Args[2]),
                         LessThanHalfPrime(Results[1])>>, Fields)
         \/ /\ Handling("ShareLessThan", 1)
            /\ Execute(<<Multiply(Results[2], Results[3]), Add(Results[2], Results[3])>>,
                       [w |-> Results[1]])
  PROVE  GateOK'
<1>0. prime \in Nat /\ prime > 2
  BY DEF GateOK, IsPrime
<1>1. PICK w, x, y : /\ w = FirstHalf(Args, prime) /\ x = SecondHalf(Args, prime)
                     /\ y = DifferenceHalf(Args, prime)
  OBVIOUS
<1>2. CASE /\ Handling("ShareLessThan", 0)
           /\ Execute(<<LessThanHalfPrime(Args[1]), LessThanHalfPrime(Args[2]),
                        LessThanHalfPrime(Results[1])>>, Fields)
  <2>1. PICK s, t, d : s = Args[1] /\ t = Args[2] /\ d = Results[1]
    OBVIOUS
  <2>2. /\ stack # <<>> /\ Top.call.protocol = "ShareLessThan" /\ Top.stage = 0
        /\ s \in Shares(prime) /\ t \in Shares(prime)
        /\ IsShareOf(d, (s.value - t.value) % prime, prime)
    BY <1>1, <1>2, <2>1, LessThanKnows
  <2>3. PICK c1, c2, c3 : /\ c1 = LessThanHalfPrime(s) /\ c2 = LessThanHalfPrime(t)
                          /\ c3 = LessThanHalfPrime(d)
    OBVIOUS
  <2>4. /\ Proper(c1, prime) /\ Gives(c1, w, prime)
        /\ Proper(c2, prime) /\ Gives(c2, x, prime)
        /\ Proper(c3, prime) /\ Gives(c3, y, prime)
    BY <1>1, <2>1, <2>2, <2>3, LessThanHalfPrimeIs
    DEF IsShareOf, FirstHalf, SecondHalf, DifferenceHalf
  <2>5. PICK calls : calls = <<c1, c2, c3>>
    OBVIOUS
  <2>6. ExecuteIn(1, calls, Fields)
    BY <1>2, <2>1, <2>2, <2>3, <2>5 DEF Execute
  <2>7. IsBatch(calls, prime)
    <3>1. IsBatch(<<c1, c2, c3>>, prime)
      BY <2>4, Batches
    <3> QED BY <2>5, <3>1
  <2>8. Len(calls) = 3 /\ calls[1] = c1 /\ calls[2] = c2 /\ calls[3] = c3
    BY <2>5
  <2>9. AtLessThan(Args, 1, Fields, calls, prime)
    BY <1>1, <2>4, <2>8 DEF AtLessThan
  <2>10. At(Top.call, 1, Fields, calls, prime)
    BY <2>2, <2>9 DEF At, Args
  <2> QED BY <2>2, <2>6, <2>7, <2>10, ExecuteStays
<1>3. CASE /\ Handling("ShareLessThan", 1)
           /\ Execute(<<Multiply(Results[2], Results[3]), Add(Results[2], Results[3])>>,
                      [w |-> Results[1]])
  <2>1. PICK r1, r2, r3 : r1 = Results[1] /\ r2 = Results[2] /\ r3 = Results[3]
    OBVIOUS
  <2>2. /\ stack # <<>> /\ Top.call.protocol = "ShareLessThan" /\ Top.stage = 1
        /\ IsShareOf(r1, w, prime) /\ IsShareOf(r2, x, prime) /\ IsShareOf(r3, y, prime)
        /\ w \in {0, 1} /\ x \in {0, 1} /\ y \in {0, 1}
    BY <1>1, <1>3, <2>1, LessThanKnows
  <2>3. PICK c, d : c = Multiply(r2, r3) /\ d = Add(r2, r3)
    OBVIOUS
  <2>4. /\ Proper(c, prime) /\ Gives(c, (x * y) % prime, prime)
        /\ Proper(d, prime) /\ Gives(d, (x + y) % prime, prime)
    BY <2>2, <2>3, MultiplyIs, AddIs DEF IsShareOf
  <2>5. Gives(c, x * y, prime) /\ Gives(d, x + y, prime)
    BY <1>0, <2>2, <2>4, SmallBits
  <2>6. PICK calls, fields : calls = <<c, d>> /\ fields = [w |-> r1]
    OBVIOUS
  <2>7. ExecuteIn(2, calls, fields)
    BY <1>3, <2>1, <2>2, <2>3, <2>6 DEF Execute
  <2>8. IsBatch(calls, prime)
    <3>1. IsBatch(<<c, d>>, prime)
      BY <2>4, Batches
    <3> QED BY <2>6, <3>1
  <2>9. Len(calls) = 2 /\ calls[1] = c /\ calls[2] = d /\ fields.w = r1
    BY <2>6
  <2>10. At(Top.call, 2, fields, calls, prime)
    BY <1>1, <2>2, <2>5, <2>9, LessThanAt DEF Args
  <2> QED BY <2>2, <2>7, <2>8, <2>10, ExecuteStays
<1> QED
  BY <1>2, <1>3

\* then the formula, term by term,
LEMMA LessThanLaterStages ==
  ASSUME GateOK, NEW stage \in 2..7, Handling("ShareLessThan", stage), NEW c, Proper(c, prime),
         NEW fields, Execute(<<c>>, fields), NEW w, NEW x, NEW y,
         w = FirstHalf(Args, prime), x = SecondHalf(Args, prime), y = DifferenceHalf(Args, prime),
         IsShareOf(fields.w, w, prime), IsShareOf(fields.xy, x * y, prime),
         IsShareOf(fields.xpy, x + y, prime), NEW v, Gives(c, v, prime),
         /\ stage = 2 => v = 2 * (x * y)
         /\ stage = 3 => v = TwoBits(x, y)
         /\ stage = 4 => v = w * TwoBits(x, y)
         /\ stage = 5 => v = x * y + w * TwoBits(x, y)
         /\ stage = 6 => v = (x * y + w * TwoBits(x, y) - (x + y)) % prime
         /\ stage = 7 => v = Promised(Top.call, prime)
  PROVE  GateOK'
<1>1. stack # <<>> /\ Top.call.protocol = "ShareLessThan" /\ Top.stage = stage
  BY Handled
<1>2. PICK a, next : a = Top.call /\ next = stage + 1
  OBVIOUS
<1>3. ASSUME NEW b, One(b, v, prime) PROVE At(a, next, fields, b, prime)
  <2>1. a.protocol = "ShareLessThan" /\ w = FirstHalf(a.args, prime)
        /\ x = SecondHalf(a.args, prime) /\ y = DifferenceHalf(a.args, prime)
    BY <1>1, <1>2 DEF Args
  <2>2. /\ next = 3 => v = 2 * (x * y)
        /\ next = 4 => v = TwoBits(x, y)
        /\ next = 5 => v = w * TwoBits(x, y)
        /\ next = 6 => v = x * y + w * TwoBits(x, y)
        /\ next = 7 => v = (x * y + w * TwoBits(x, y) - (x + y)) % prime
        /\ next = 8 => v = Promised(a, prime)
        /\ next \in 3..8
    BY <1>2
  <2>3. Promised(a, prime) = Truth(a.args[1].value < a.args[2].value)
    BY <2>1 DEF Promised, Truth
  <2>4. AtLessThan(a.args, next, fields, b, prime)
    BY <1>3, <2>1, <2>2, <2>3 DEF AtLessThan
  <2> QED BY <2>1, <2>4 DEF At
<1>4. ExecuteIn(next, <<c>>, fields)
  BY <1>1, <1>2 DEF Execute
<1> QED
  BY <1>1, <1>2, <1>3, <1>4, GoesOn

\* and together.
LEMMA LessThanStays ==
  ASSUME GateOK, HandleLessThan
  PROVE  GateOK'
<1>0. prime \in Nat /\ prime > 2 /\ prime \in Nat \ {0} /\ 1 \in 0..(prime - 1) /\ 2 \in 0..(prime - 1)
  BY DEF GateOK, IsPrime
<1>1. PICK w, x, y : /\ w = FirstHalf(Args, prime) /\ x = SecondHalf(Args, prime)
                     /\ y = DifferenceHalf(Args, prime)
  OBVIOUS
<1>2. CASE /\ Handling("ShareLessThan", 2)
           /\ Execute(<<Multiply(CreateConstantShare(2), Results[1])>>,
                      [w |-> Fields.w, xy |-> Results[1], xpy |-> Results[2]])
  <2>1. PICK two, r1, r2 : two = CreateConstantShare(2) /\ r1 = Results[1] /\ r2 = Results[2]
    OBVIOUS
  <2>2. /\ IsShareOf(Fields.w, w, prime) /\ IsShareOf(r1, x * y, prime)
        /\ IsShareOf(r2, x + y, prime)
        /\ w \in {0, 1} /\ x \in {0, 1} /\ y \in {0, 1}
    BY <1>1, <1>2, <2>1, LessThanKnows
  <2>3. two \in Shares(prime) /\ two.value = 2
    BY <1>0, <2>1, ConstantIs
  <2>4. PICK c, fields : /\ c = Multiply(two, r1)
                         /\ fields = [w |-> Fields.w, xy |-> r1, xpy |-> r2]
    OBVIOUS
  <2>5. Proper(c, prime) /\ Gives(c, (2 * (x * y)) % prime, prime)
    BY <2>2, <2>3, <2>4, MultiplyIs DEF IsShareOf
  <2>6. Gives(c, 2 * (x * y), prime)
    BY <1>0, <2>2, <2>5, SmallBits
  <2>7. fields.w = Fields.w /\ fields.xy = r1 /\ fields.xpy = r2
    BY <2>4
  <2>8. Execute(<<c>>, fields)
    BY <1>2, <2>1, <2>4
  <2>9. PICK k, v : k \in 2..7 /\ k = 2 /\ v = 2 * (x * y)
    OBVIOUS
  <2>10. Handling("ShareLessThan", k) /\ Gives(c, v, prime)
    BY <1>2, <2>6, <2>9
  <2>11. /\ IsShareOf(fields.w, w, prime) /\ IsShareOf(fields.xy, x * y, prime)
         /\ IsShareOf(fields.xpy, x + y, prime)
    BY <2>2, <2>7
  <2> QED BY <1>1, <2>5, <2>8, <2>9, <2>10, <2>11, LessThanLaterStages
<1>3. ASSUME NEW stage \in 3..8, Handling("ShareLessThan", stage)
      PROVE  /\ IsShareOf(Fields.w, w, prime) /\ IsShareOf(Fields.xy, x * y, prime)
             /\ IsShareOf(Fields.xpy, x + y, prime)
             /\ w \in {0, 1} /\ x \in {0, 1} /\ y \in {0, 1}
             /\ stage \in 2..8
  <2>1. stage \in 2..8
    OBVIOUS
  <2> QED BY <1>1, <1>3, <2>1, LessThanKnows
<1>4. CASE /\ Handling("ShareLessThan", 3)
           /\ Execute(<<Add(Fields.xpy, ShareAdditiveInverse(Results[1]))>>, Fields)
  <2>1. PICK r, c : r = Results[1] /\ c = Add(Fields.xpy, ShareAdditiveInverse(r))
    OBVIOUS
  <2>2. IsShareOf(r, 2 * (x * y), prime)
    BY <1>1, <1>4, <2>1, LessThanKnows
  <2>3. Proper(c, prime) /\ Gives(c, ((x + y) - 2 * (x * y)) % prime, prime)
    BY <1>0, <1>3, <1>4, <2>1, <2>2, DifferenceIs DEF IsShareOf
  <2>4. Gives(c, TwoBits(x, y), prime)
    BY <1>0, <1>3, <1>4, <2>3, SmallBits
  <2>5. Execute(<<c>>, Fields)
    BY <1>4, <2>1
  <2> QED BY <1>1, <1>3, <1>4, <2>3, <2>4, <2>5, LessThanLaterStages
<1>5. CASE Handling("ShareLessThan", 4) /\ Execute(<<Multiply(Fields.w, Results[1])>>, Fields)
  <2>1. PICK r, c : r = Results[1] /\ c = Multiply(Fields.w, r)
    OBVIOUS
  <2>2. IsShareOf(r, TwoBits(x, y), prime)
    BY <1>1, <1>5, <2>1, LessThanKnows
  <2>3. Proper(c, prime) /\ Gives(c, (w * TwoBits(x, y)) % prime, prime)
    BY <1>3, <1>5, <2>1, <2>2, MultiplyIs DEF IsShareOf
  <2>4. Gives(c, w * TwoBits(x, y), prime)
    BY <1>0, <1>3, <1>5, <2>3, SmallBits
  <2>5. Execute(<<c>>, Fields)
    BY <1>5, <2>1
  <2> QED BY <1>1, <1>3, <1>5, <2>3, <2>4, <2>5, LessThanLaterStages
<1>6. CASE Handling("ShareLessThan", 5) /\ Execute(<<Add(Fields.xy, Results[1])>>, Fields)
  <2>1. PICK r, c : r = Results[1] /\ c = Add(Fields.xy, r)
    OBVIOUS
  <2>2. IsShareOf(r, w * TwoBits(x, y), prime)
    BY <1>1, <1>6, <2>1, LessThanKnows
  <2>3. Proper(c, prime) /\ Gives(c, (x * y + w * TwoBits(x, y)) % prime, prime)
    BY <1>3, <1>6, <2>1, <2>2, AddIs DEF IsShareOf
  <2>4. Gives(c, x * y + w * TwoBits(x, y), prime)
    BY <1>0, <1>3, <1>6, <2>3, SmallBits
  <2>5. Execute(<<c>>, Fields)
    BY <1>6, <2>1
  <2> QED BY <1>1, <1>3, <1>6, <2>3, <2>4, <2>5, LessThanLaterStages
<1>7. CASE /\ Handling("ShareLessThan", 6)
           /\ Execute(<<Add(ShareAdditiveInverse(Fields.xpy), Results[1])>>, Fields)
  <2>1. PICK r, c : r = Results[1] /\ c = Add(ShareAdditiveInverse(Fields.xpy), r)
    OBVIOUS
  <2>2. IsShareOf(r, x * y + w * TwoBits(x, y), prime)
    BY <1>1, <1>7, <2>1, LessThanKnows
  <2>3. Proper(c, prime) /\ Gives(c, (x * y + w * TwoBits(x, y) - (x + y)) % prime, prime)
    <3>1. PICK s, t : s = r /\ t = Fields.xpy
      OBVIOUS
    <3>2. /\ s \in Shares(prime) /\ s.value = x * y + w * TwoBits(x, y)
          /\ t \in Shares(prime) /\ t.value = x + y
      BY <1>3, <1>7, <2>2, <3>1 DEF IsShareOf
    <3>3. c = Add(ShareAdditiveInverse(t), s)
      BY <2>1, <3>1
    <3>4. Proper(c, prime) /\ Gives(c, (s.value - t.value) % prime, prime)
      BY <1>0, <3>2, <3>3, MinuendSecond
    <3>5. x \in {0, 1} /\ y \in {0, 1} /\ w \in {0, 1}
      BY <1>3, <1>7
    <3>6. x * y \in {0, 1} /\ w * TwoBits(x, y) \in {0, 1}
      BY <1>0, <3>5, SmallBits
    <3>7. s.value - t.value = x * y + w * TwoBits(x, y) - (x + y)
      <4>1. PICK m \in {0, 1}, f \in {0, 1} : m = x * y /\ f = w * TwoBits(x, y)
        BY <3>6
      <4>2. (m + f) - (x + y) = m + (f - (x + y))
        BY <3>5
      <4> QED BY <3>2, <4>1, <4>2
    <3> QED BY <3>4, <3>7
  <2>4. Execute(<<c>>, Fields)
    BY <1>7, <2>1
  <2> QED BY <1>1, <1>3, <1>7, <2>3, <2>4, LessThanLaterStages
<1>8. CASE /\ Handling("ShareLessThan", 7)
           /\ Execute(<<Add(CreateConstantShare(1), Results[1])>>, Fields)
  <2>1. PICK one, r, c : one = CreateConstantShare(1) /\ r = Results[1] /\ c = Add(one, r)
    OBVIOUS
  <2>2. IsShareOf(r, (x * y + w * TwoBits(x, y) - (x + y)) % prime, prime)
    BY <1>1, <1>8, <2>1, LessThanKnows
  <2>3. one \in Shares(prime) /\ one.value = 1
    BY <1>0, <2>1, ConstantIs
  <2>4. Proper(c, prime) /\ Gives(c, (1 + r.value) % prime, prime)
    BY <2>1, <2>2, <2>3, AddIs DEF IsShareOf
  <2>5. /\ Args[1] \in Shares(prime) /\ Args[2] \in Shares(prime)
        /\ Top.call.protocol = "ShareLessThan"
    BY <1>1, <1>8, LessThanKnows
  <2>6. PICK s, t : s = Args[1].value /\ t = Args[2].value
    OBVIOUS
  <2>7. s \in 0..(prime - 1) /\ t \in 0..(prime - 1)
    BY <1>0, <2>5, <2>6, SharesAre
  <2>8. PICK z \in Int : z = x * y + w * TwoBits(x, y) - (x + y)
    <3>1. w \in {0, 1} /\ x \in {0, 1} /\ y \in {0, 1}
      BY <1>3, <1>8
    <3>2. x * y \in {0, 1} /\ w * TwoBits(x, y) \in {0, 1}
      BY <1>0, <3>1, SmallBits
    <3> QED BY <3>1, <3>2
  <2>9. 1 + z = Truth(s < t)
    <3>1. w = Half(s, prime) /\ x = Half(t, prime) /\ y = Half((s - t) % prime, prime)
      BY <1>1, <2>6 DEF FirstHalf, SecondHalf, DifferenceHalf
    <3>2. 1 + (x * y + w * TwoBits(x, y) - (x + y)) = Truth(s < t)
      BY <1>0, <2>7, <3>1, LessThanFormula
    <3> QED BY <2>8, <3>2
  <2>10. (1 + r.value) % prime = Truth(s < t)
    <3>1. r.value = z % prime
      BY <2>2, <2>8 DEF IsShareOf
    <3>2. ((z % prime) + 1) % prime = (z + 1) % prime
      <4>1. PICK one1 \in Int : one1 = 1
        OBVIOUS
      <4>2. ((z % prime) + one1) % prime = (z + one1) % prime
        BY <1>0, ModOfSum
      <4> QED BY <4>1, <4>2
    <3>3. z % prime \in Int
      BY <1>0, Division
    <3>4. PICK u \in Int : u = z + 1 /\ u = Truth(s < t)
      BY <2>9
    <3>5. u % prime = u
      BY <1>0, <3>4, SmallRemainders DEF Truth
    <3> QED BY <3>1, <3>2, <3>3, <3>4, <3>5
  <2>11. Promised(Top.call, prime) = Truth(s < t)
    BY <2>5, <2>6 DEF Promised, Truth, Args
  <2>12. Gives(c, Promised(Top.call, prime), prime)
    BY <2>4, <2>10, <2>11
  <2>13. Execute(<<c>>, Fields)
    BY <1>8, <2>1
  <2> QED BY <1>1, <1>3, <1>8, <2>4, <2>12, <2>13, LessThanLaterStages
<1>9. CASE Handling("ShareLessThan", 8) /\ Complete(Results[1])
  <2>1. PICK r : r = Results[1]
    OBVIOUS
  <2>2. /\ stack # <<>> /\ Top.call.protocol = "ShareLessThan"
        /\ IsShareOf(r, Promised(Top.call, prime), prime)
    BY <1>1, <1>9, <2>1, LessThanKnows
  <2>3. Top.call.protocol \in Functional
    BY <2>2 DEF Functional
  <2> QED BY <1>9, <2>1, <2>2, <2>3, CompletesWith
<1> QED
  BY <1>2, <1>4, <1>5, <1>6, <1>7, <1>8, <1>9, LessThanFirstStages DEF HandleLessThan

\* The primes of the fields are odd.
LEMMA PrimesAreOdd ==
  ASSUME NEW p, IsPrime(p)
  PROVE  p \in Nat /\ p > 2 /\ p \in Nat \ {0} /\ p % 2 = 1
<1>1. p \in Nat /\ p > 2 /\ \A d \in 2..(p - 1) : p % d # 0
  BY DEF IsPrime
<1>2. p % 2 # 0
  BY <1>1
<1> QED BY <1>1, <1>2

\* The lowest bit of a number, which has one if it is as long as the prime.
LEMMA LowestBit ==
  ASSUME NEW p, IsPrime(p), NEW bits, IsBelowNumber(bits, p, p)
  PROVE  /\ bits \in Seq(Bits(p)) /\ Len(bits) \in Nat \ {0}
         /\ p < PowerOfTwo[Len(bits)]
         /\ Number(bits) \in 0..(p - 1)
         /\ bits[1] \in Bits(p) /\ bits[1].value = Number(bits) % 2
<1>1. p \in Nat /\ p > 2 /\ p \in Nat \ {0}
  BY PrimesAreOdd
<1>2. bits \in Seq(Bits(p)) /\ Len(bits) = BitLength(p) /\ Number(bits) < p
  BY DEF IsBelowNumber
<1>3. PICK n : n = Len(bits)
  OBVIOUS
<1>4. n \in Nat /\ p < PowerOfTwo[n]
  BY <1>1, <1>2, <1>3, BitLengthIs
<1>5. n # 0
  BY <1>1, <1>4, PowersOfTwo
<1>6. PICK num : num = NumberFrom(bits)
  OBVIOUS
<1>7. IsNumber(num, bits)
  BY <1>1, <1>2, <1>6, NumbersExist
<1>8. 1 \in 1..n /\ 1 \in 1..(n + 1) /\ 1 + 1 \in 1..(n + 1)
  BY <1>4, <1>5
<1>9. bits[1] \in Bits(p)
  BY <1>2, <1>3, <1>8, ElementOfSeq
<1>10. bits[1].value \in {0, 1}
  BY <1>9 DEF Bits
<1>11. num[1] \in Nat /\ num[1 + 1] \in Nat /\ num[1] = 2 * num[1 + 1] + bits[1].value
  BY <1>3, <1>7, <1>8 DEF IsNumber
<1>12. num[1] % 2 = bits[1].value
  BY <1>10, <1>11
<1>13. Number(bits) = num[1]
  BY <1>6 DEF Number
<1> QED
  BY <1>1, <1>2, <1>3, <1>4, <1>5, <1>9, <1>11, <1>12, <1>13

\* Adding goes round the prime, which is odd, if and only if the sum is the lesser one.
LEMMA LowestBitOfSum ==
  ASSUME NEW p \in Nat, p > 2, p % 2 = 1, NEW n \in 0..(p - 1), NEW s \in 0..(p - 1),
         NEW c, c = (n + s) % p
  PROVE  /\ c \in 0..(p - 1) /\ s % 2 \in {0, 1} /\ c % 2 \in {0, 1} /\ n % 2 \in {0, 1}
         /\ Unequal(Unequal(c % 2, n % 2), Truth(c < n)) = s % 2
<1>1. PICK m \in Int : m = n + s
  OBVIOUS
<1>2. s % 2 \in {0, 1} /\ n % 2 \in {0, 1}
  OBVIOUS
<1>3. CASE n + s < p
  <2>0. p \in Nat \ {0} /\ 0 <= m /\ m < p
    BY <1>1, <1>3
  <2>1. m % p = m
    BY <2>0, SmallRemainders
  <2>2. c = n + s
    BY <1>1, <2>1
  <2>3. c \in 0..(p - 1) /\ ~ c < n
    BY <1>3, <2>2
  <2>4. c % 2 \in {0, 1}
    BY <2>3
  <2>5. c % 2 # n % 2 <=> s % 2 = 1
    BY <2>2
  <2> QED BY <1>2, <2>3, <2>4, <2>5 DEF Unequal, Truth
<1>4. CASE ~ n + s < p
  <2>1. p <= m /\ m < 2 * p
    BY <1>1, <1>4
  <2>2. m % p = m - p
    <3>1. p \in Nat \ {0}
      OBVIOUS
    <3> QED BY <2>1, <3>1, SmallRemainders
  <2>3. c = (n + s) - p
    BY <1>1, <2>2
  <2>4. c \in 0..(p - 1) /\ c < n
    BY <1>4, <2>3
  <2>5. c % 2 \in {0, 1}
    BY <2>4
  <2>6. c % 2 = n % 2 <=> s % 2 = 1
    BY <2>3
  <2> QED BY <1>2, <2>4, <2>5, <2>6 DEF Unequal, Truth
<1> QED
  BY <1>3, <1>4

\* What the handler of LeastSignificantBitProtocol finds.
LEMMA LeastSignificantBitKnows ==
  ASSUME GateOK, NEW stage, Handling("LeastSignificantBit", stage)
  PROVE  /\ stack # <<>> /\ Top.call.protocol = "LeastSignificantBit" /\ Top.stage = stage
         /\ Args[1] \in Shares(prime) /\ Args[1].value \in 0..(prime - 1)
         /\ Promised(Top.call, prime) = Args[1].value % 2
         /\ \E batch : /\ AtLeastSignificantBit(Args, stage, Fields, batch, prime)
                       /\ Met(batch, Results, prime)
<1>1. prime \in Nat \ {0}
  BY PrimesAreOdd DEF GateOK
<1>2. stack # <<>> /\ Top.call.protocol = "LeastSignificantBit" /\ Top.stage = stage
      /\ Proper(Top.call, prime)
  BY Handled
<1>3. Args[1] \in Shares(prime) /\ Args[1].value \in 0..(prime - 1)
  BY <1>1, <1>2, SharesAre DEF Proper, Args
<1>4. Promised(Top.call, prime) = Args[1].value % 2
  BY <1>2 DEF Promised, Args
<1>5. PICK batch : At(Top.call, stage, Fields, batch, prime) /\ Met(batch, Results, prime)
  BY Handled
<1>6. AtLeastSignificantBit(Args, stage, Fields, batch, prime)
  BY <1>2, <1>5 DEF At, Args
<1> QED
  BY <1>2, <1>3, <1>4, <1>5, <1>6

\* LeastSignificantBitProtocol.HandleMessage.
LEMMA LeastSignificantBitStays ==
  ASSUME GateOK, HandleLeastSignificantBit
  PROVE  GateOK'
<1>0. prime \in Nat /\ prime > 2 /\ prime \in Nat \ {0} /\ prime % 2 = 1 /\ IsPrime(prime)
  BY PrimesAreOdd DEF GateOK
<1>1. PICK s : s = Args[1].value
  OBVIOUS
<1>2. CASE /\ Handling("LeastSignificantBit", 0)
           /\ Execute(<<Compose(Results[1])>>, [bitwiseRand |-> Results[1]])
  <2>1. PICK batch : /\ AtLeastSignificantBit(Args, 0, Fields, batch, prime)
                     /\ Met(batch, Results, prime)
    BY <1>2, LeastSignificantBitKnows
  <2>2. PICK r, fields : r = Results[1] /\ fields = [bitwiseRand |-> r]
    OBVIOUS
  <2>3. batch = <<RandomBitwiseGen(prime)>>
    BY <2>1 DEF AtLeastSignificantBit
  <2>4. IsBelowNumber(r, prime, prime)
    <3>1. Meets(RandomBitwiseGen(prime), r, prime)
      BY <2>1, <2>2, <2>3 DEF Met
    <3> QED BY <3>1, RandomBrings
  <2>5. Proper(Compose(r), prime) /\ Gives(Compose(r), Number(r), prime)
    BY <2>4, ComposeIs DEF IsBelowNumber
  <2>6. ExecuteIn(1, <<Compose(r)>>, fields)
    BY <1>2, <2>2, LeastSignificantBitKnows DEF Execute
  <2>7. fields.bitwiseRand = r
    BY <2>2
  <2>8. \A b : One(b, Number(r), prime) => At(Top.call, 1, fields, b, prime)
    BY <1>2, <2>4, <2>7, LeastSignificantBitKnows DEF At, AtLeastSignificantBit
  <2> QED BY <1>2, <2>5, <2>6, <2>8, LeastSignificantBitKnows, GoesOn
<1>3. CASE Handling("LeastSignificantBit", 1) /\ Execute(<<Add(Results[1], Args[1])>>, Fields)
  <2>1. PICK batch : /\ AtLeastSignificantBit(Args, 1, Fields, batch, prime)
                     /\ Met(batch, Results, prime)
    BY <1>3, LeastSignificantBitKnows
  <2>2. PICK q, t, r, c : q = Results[1] /\ t = Args[1] /\ r = Fields.bitwiseRand /\ c = Add(q, t)
    OBVIOUS
  <2>3. IsBelowNumber(r, prime, prime) /\ One(batch, Number(r), prime)
    BY <2>1, <2>2 DEF AtLeastSignificantBit
  <2>4. IsShareOf(q, Number(r), prime)
    BY <2>1, <2>2, <2>3, MetOne
  <2>5. t \in Shares(prime) /\ t.value = s
    BY <1>1, <1>3, <2>2, LeastSignificantBitKnows
  <2>6. Proper(c, prime) /\ Gives(c, (Number(r) + s) % prime, prime)
    BY <2>2, <2>4, <2>5, AddIs DEF IsShareOf
  <2>7. ExecuteIn(2, <<c>>, Fields)
    BY <1>3, <2>2, LeastSignificantBitKnows DEF Execute
  <2>8. \A b : One(b, (Number(r) + s) % prime, prime) => At(Top.call, 2, Fields, b, prime)
    BY <1>1, <1>3, <2>2, <2>3, LeastSignificantBitKnows DEF At, AtLeastSignificantBit, Args
  <2> QED BY <1>3, <2>6, <2>7, <2>8, LeastSignificantBitKnows, GoesOn
<1>4. CASE Handling("LeastSignificantBit", 2) /\ Execute(<<Reconstruct(Results[1])>>, Fields)
  <2>1. PICK batch : /\ AtLeastSignificantBit(Args, 2, Fields, batch, prime)
                     /\ Met(batch, Results, prime)
    BY <1>4, LeastSignificantBitKnows
  <2>2. PICK q, r, padded : /\ q = Results[1] /\ r = Fields.bitwiseRand
                            /\ padded = (Number(r) + s) % prime
    OBVIOUS
  <2>3. IsBelowNumber(r, prime, prime) /\ One(batch, padded, prime)
    BY <1>1, <2>1, <2>2 DEF AtLeastSignificantBit
  <2>4. IsShareOf(q, padded, prime)
    BY <2>1, <2>2, <2>3, MetOne
  <2>5. Proper(Reconstruct(q), prime) /\ Opens(Reconstruct(q), padded, prime)
    BY <2>4, ReconstructIs DEF IsShareOf
  <2>6. ExecuteIn(3, <<Reconstruct(q)>>, Fields)
    BY <1>4, <2>2, LeastSignificantBitKnows DEF Execute
  <2>7. \A b : Len(b) = 1 /\ b[1] = Reconstruct(q) => At(Top.call, 3, Fields, b, prime)
    BY <1>1, <1>4, <2>2, <2>3, <2>5, LeastSignificantBitKnows DEF At, AtLeastSignificantBit, Args
  <2> QED BY <1>4, <2>5, <2>6, <2>7, LeastSignificantBitKnows, GoesOnWith
<1>5. CASE /\ Handling("LeastSignificantBit", 3)
           /\ Execute(<<Xor(CreateConstantShare(Results[1] % 2), Fields.bitwiseRand[1])>>,
                      [bitwiseRand |-> Fields.bitwiseRand, revealedPadded |-> Results[1]])
  <2>1. PICK batch : /\ AtLeastSignificantBit(Args, 3, Fields, batch, prime)
                     /\ Met(batch, Results, prime)
    BY <1>5, LeastSignificantBitKnows
  <2>2. PICK q, r : q = Results[1] /\ r = Fields.bitwiseRand
    OBVIOUS
  <2>3. IsBelowNumber(r, prime, prime) /\ Len(batch) = 1
        /\ Opens(batch[1], (Number(r) + s) % prime, prime)
    BY <1>1, <2>1, <2>2 DEF AtLeastSignificantBit
  <2>4. q = (Number(r) + s) % prime
    BY <2>1, <2>2, <2>3, Brings DEF Met
  <2>5. s \in 0..(prime - 1) /\ Number(r) \in 0..(prime - 1) /\ r[1] \in Bits(prime)
    BY <1>0, <1>1, <1>5, <2>3, LowestBit, LeastSignificantBitKnows
  <2>6. q % 2 \in {0, 1}
    BY <1>0, <2>4, <2>5, LowestBitOfSum
  <2>7. PICK x, e : x = CreateConstantShare(q % 2) /\ e = q % 2
    OBVIOUS
  <2>8. x \in Bits(prime) /\ x.value = e
    <3>1. e \in 0..(prime - 1)
      BY <1>0, <2>6, <2>7
    <3>2. x \in Shares(prime) /\ x.value = e
      BY <1>0, <2>7, <3>1, ConstantIs
    <3> QED BY <2>6, <2>7, <3>2 DEF Bits
  <2>9. PICK c, fields : c = Xor(x, r[1]) /\ fields = [bitwiseRand |-> r, revealedPadded |-> q]
    OBVIOUS
  <2>10. Proper(c, prime) /\ Gives(c, Unequal(e, r[1].value), prime)
    BY <2>5, <2>8, <2>9, XorIs
  <2>11. ExecuteIn(4, <<c>>, fields)
    BY <1>5, <2>2, <2>7, <2>9, LeastSignificantBitKnows DEF Execute
  <2>12. fields.bitwiseRand = r /\ fields.revealedPadded = q
    BY <2>9
  <2>13. \A b : One(b, Unequal(e, r[1].value), prime) => At(Top.call, 4, fields, b, prime)
    BY <1>1, <1>5, <2>3, <2>4, <2>7, <2>12, LeastSignificantBitKnows
    DEF At, AtLeastSignificantBit, Args
  <2> QED BY <1>5, <2>10, <2>11, <2>13, LeastSignificantBitKnows, GoesOn
<1>6. CASE /\ Handling("LeastSignificantBit", 4)
           /\ Execute(<<BitwiseLessThan(
                          BitDecomposition(Fields.revealedPadded, Len(Fields.bitwiseRand)),
                          Fields.bitwiseRand)>>, [x |-> Results[1]])
  <2>1. PICK batch : /\ AtLeastSignificantBit(Args, 4, Fields, batch, prime)
                     /\ Met(batch, Results, prime)
    BY <1>6, LeastSignificantBitKnows
  <2>2. PICK x, r, padded, n : /\ x = Results[1] /\ r = Fields.bitwiseRand
                               /\ padded = Fields.revealedPadded /\ n = Number(r)
    OBVIOUS
  <2>3. IsBelowNumber(r, prime, prime) /\ padded = (n + s) % prime
        /\ One(batch, Unequal(padded % 2, r[1].value), prime)
    BY <1>1, <2>1, <2>2 DEF AtLeastSignificantBit
  <2>4. IsShareOf(x, Unequal(padded % 2, r[1].value), prime)
    BY <2>1, <2>2, <2>3, MetOne
  <2>5. s \in 0..(prime - 1) /\ n \in 0..(prime - 1) /\ r \in Seq(Bits(prime))
        /\ Len(r) \in Nat \ {0} /\ prime < PowerOfTwo[Len(r)] /\ r[1].value = n % 2
    BY <1>0, <1>1, <1>6, <2>2, <2>3, LowestBit, LeastSignificantBitKnows
  <2>6. padded \in 0..(prime - 1) /\ Unequal(Unequal(padded % 2, n % 2), Truth(padded < n)) = s % 2
    BY <1>0, <2>3, <2>5, LowestBitOfSum
  <2>7. x \in Bits(prime) /\ Unequal(x.value, Truth(padded < n)) = s % 2
    BY <2>4, <2>5, <2>6 DEF IsShareOf, Bits, Unequal
  <2>8. PICK k, bits : k = Len(r) /\ bits = BitDecomposition(padded, k)
    OBVIOUS
  <2>9. bits \in Seq(Bits(prime)) /\ Len(bits) = k /\ Number(bits) = padded
    <3>1. padded \in Nat /\ k \in Nat /\ PowerOfTwo[k] \in Nat /\ padded < PowerOfTwo[k]
      <4>1. k \in Nat /\ prime < PowerOfTwo[k]
        BY <2>5, <2>8
      <4>2. PowerOfTwo[k] \in Nat
        BY <4>1, PowersOfTwo
      <4> QED BY <1>0, <2>6, <4>1, <4>2
    <3> QED BY <1>0, <2>8, <3>1, DecompositionIs
  <2>10. PICK c, fields, v : /\ c = BitwiseLessThan(bits, r) /\ fields = [x |-> x]
                             /\ v = Truth(padded < n)
    OBVIOUS
  <2>11. Proper(c, prime) /\ Gives(c, v, prime) /\ v \in {0, 1}
    BY <2>2, <2>5, <2>8, <2>9, <2>10, BitwiseLessThanIs DEF Truth
  <2>12. ExecuteIn(5, <<c>>, fields)
    BY <1>6, <2>2, <2>8, <2>10, LeastSignificantBitKnows DEF Execute
  <2>13. fields.x = x
    BY <2>10
  <2>14. \A b : One(b, v, prime) => At(Top.call, 5, fields, b, prime)
    BY <1>1, <1>6, <2>7, <2>10, <2>11, <2>13, LeastSignificantBitKnows
    DEF At, AtLeastSignificantBit, Args
  <2> QED BY <1>6, <2>11, <2>12, <2>14, LeastSignificantBitKnows, GoesOn
<1>7. CASE Handling("LeastSignificantBit", 5) /\ Execute(<<Xor(Fields.x, Results[1])>>, Fields)
  <2>1. PICK batch : /\ AtLeastSignificantBit(Args, 5, Fields, batch, prime)
                     /\ Met(batch, Results, prime)
    BY <1>7, LeastSignificantBitKnows
  <2>2. PICK x, y, c : x = Fields.x /\ y = Results[1] /\ c = Xor(x, y)
    OBVIOUS
  <2>3. PICK v \in {0, 1} : x \in Bits(prime) /\ One(batch, v, prime) /\ Unequal(x.value, v) = s % 2
    BY <1>1, <2>1, <2>2 DEF AtLeastSignificantBit
  <2>4. y \in Bits(prime) /\ y.value = v
    <3>1. IsShareOf(y, v, prime)
      BY <2>1, <2>2, <2>3, MetOne
    <3> QED BY <3>1 DEF IsShareOf, Bits
  <2>5. Proper(c, prime) /\ Gives(c, s % 2, prime)
    BY <2>2, <2>3, <2>4, XorIs
  <2>6. ExecuteIn(6, <<c>>, Fields)
    BY <1>7, <2>2, LeastSignificantBitKnows DEF Execute
  <2>7. \A b : One(b, s % 2, prime) => At(Top.call, 6, Fields, b, prime)
    BY <1>1, <1>7, LeastSignificantBitKnows DEF At, AtLeastSignificantBit, Args
  <2> QED BY <1>7, <2>5, <2>6, <2>7, LeastSignificantBitKnows, GoesOn
<1>8. CASE Handling("LeastSignificantBit", 6) /\ Complete(Results[1])
  <2>1. PICK batch : /\ AtLeastSignificantBit(Args, 6, Fields, batch, prime)
                     /\ Met(batch, Results, prime)
    BY <1>8, LeastSignificantBitKnows
  <2>2. PICK r : r = Results[1]
    OBVIOUS
  <2>3. IsShareOf(r, s % 2, prime)
    BY <1>1, <2>1, <2>2, MetOne DEF AtLeastSignificantBit
  <2>4. IsShareOf(r, Promised(Top.call, prime), prime)
    BY <1>1, <1>8, <2>3, LeastSignificantBitKnows
  <2>5. Top.call.protocol \in Functional /\ stack # <<>>
    BY <1>8, LeastSignificantBitKnows DEF Functional
  <2> QED BY <1>8, <2>2, <2>4, <2>5, CompletesWith
<1> QED
  BY <1>2, <1>3, <1>4, <1>5, <1>6, <1>7, <1>8 DEF HandleLeastSignificantBit

\* A sequence is one over whatever its elements are in.
LEMMA SequenceOver ==
  ASSUME NEW R, NEW s \in Seq(R), NEW S, \A i \in 1..Len(s) : s[i] \in S
  PROVE  s \in Seq(S)
<1>1. PICK n \in Nat : n = Len(s) /\ s \in [1..n -> R]
  BY LenProperties
<1>2. s \in [1..n -> S]
  BY <1>1
<1> QED
  BY <1>2, SeqDef

\* RandomBitwiseGenProtocol.HandleMessage: what is kept is below the prime.
LEMMA RandomBitwiseGenStays ==
  ASSUME GateOK, HandleRandomBitwiseGen
  PROVE  GateOK'
<1>0. prime \in Nat /\ prime > 2 /\ prime \in Nat \ {0} /\ IsPrime(prime)
  BY PrimesAreOdd DEF GateOK
<1>1. ASSUME NEW stage, Handling("RandomBitwiseGen", stage)
      PROVE  /\ stack # <<>> /\ Top.call.protocol = "RandomBitwiseGen" /\ Top.stage = stage
             /\ Args[1] = prime
             /\ \E R : Results \in Seq(R)
             /\ \E batch : /\ AtRandomBitwiseGen(stage, Fields, batch, prime)
                           /\ Met(batch, Results, prime)
  BY <1>1, Handled DEF At, Proper, Args
<1>2. PICK n \in Nat : n = BitLength(prime) /\ prime < PowerOfTwo[n] /\ n # 0
  <2>1. BitLength(prime) \in Nat /\ prime < PowerOfTwo[BitLength(prime)]
    BY <1>0, BitLengthIs
  <2>2. BitLength(prime) # 0
    BY <1>0, <2>1, PowersOfTwo
  <2> QED BY <2>1, <2>2
<1>3. CASE /\ Handling("RandomBitwiseGen", 0)
           /\ Execute(<<BitwiseLessThan(Results, BitDecomposition(Args[1], BitLength(Args[1])))>>,
                      [result |-> Results])
  <2>1. PICK batch : AtRandomBitwiseGen(0, Fields, batch, prime) /\ Met(batch, Results, prime)
    BY <1>1, <1>3
  <2>2. batch = [i \in 1..n |-> RandomBitGen]
    BY <1>2, <2>1 DEF AtRandomBitwiseGen
  <2>3. PICK r, R : r = Results /\ r \in Seq(R)
    BY <1>1, <1>3
  <2>4. batch \in Seq({RandomBitGen}) /\ Len(batch) = n /\ \A i \in 1..n : batch[i] = RandomBitGen
    BY <2>2
  <2>5. Len(r) = n /\ \A i \in 1..n : r[i] \in Bits(prime)
    <3>1. Len(r) = n /\ \A i \in 1..n : Meets(RandomBitGen, r[i], prime)
      BY <2>1, <2>3, <2>4 DEF Met
    <3> QED BY <3>1, RandomBrings
  <2>6. r \in Seq(Bits(prime))
    BY <2>3, <2>5, SequenceOver
  <2>7. PICK max : max = BitDecomposition(prime, n)
    OBVIOUS
  <2>8. max \in Seq(Bits(prime)) /\ Len(max) = n /\ Number(max) = prime
    BY <1>0, <1>2, <2>7, DecompositionIs
  <2>9. PICK c, fields, below : /\ c = BitwiseLessThan(r, max) /\ fields = [result |-> r]
                                /\ below = IF Number(r) < prime THEN 1 ELSE 0
    OBVIOUS
  <2>10. Proper(c, prime) /\ Gives(c, below, prime)
    <3>1. Len(r) = Len(max) /\ Len(r) > 0
      BY <1>2, <2>5, <2>8
    <3> QED BY <2>6, <2>8, <2>9, <3>1, BitwiseLessThanIs
  <2>11. ExecuteIn(1, <<c>>, fields)
    BY <1>1, <1>2, <1>3, <2>3, <2>7, <2>9 DEF Execute
  <2>12. fields.result = r
    BY <2>9
  <2>13. \A b : One(b, below, prime) => At(Top.call, 1, fields, b, prime)
    BY <1>1, <1>2, <1>3, <2>5, <2>6, <2>9, <2>12 DEF At, AtRandomBitwiseGen
  <2> QED BY <1>1, <1>3, <2>10, <2>11, <2>13, GoesOn
<1>4. CASE Handling("RandomBitwiseGen", 1) /\ Execute(<<Reconstruct(Results[1])>>, Fields)
  <2>1. PICK batch : AtRandomBitwiseGen(1, Fields, batch, prime) /\ Met(batch, Results, prime)
    BY <1>1, <1>4
  <2>2. PICK r, q, below : /\ r = Fields.result /\ q = Results[1]
                           /\ below = IF Number(r) < prime THEN 1 ELSE 0
    OBVIOUS
  <2>3. r \in Seq(Bits(prime)) /\ Len(r) = n /\ One(batch, below, prime)
    BY <1>2, <2>1, <2>2 DEF AtRandomBitwiseGen
  <2>4. IsShareOf(q, below, prime)
    BY <2>1, <2>2, <2>3, MetOne
  <2>5. Proper(Reconstruct(q), prime) /\ Opens(Reconstruct(q), below, prime)
    BY <2>4, ReconstructIs DEF IsShareOf
  <2>6. ExecuteIn(2, <<Reconstruct(q)>>, Fields)
    BY <1>1, <1>4, <2>2 DEF Execute
  <2>7. \A b : Len(b) = 1 /\ b[1] = Reconstruct(q) => At(Top.call, 2, Fields, b, prime)
    BY <1>1, <1>2, <1>4, <2>2, <2>3, <2>5 DEF At, AtRandomBitwiseGen
  <2> QED BY <1>1, <1>4, <2>5, <2>6, <2>7, GoesOnWith
<1>5. CASE /\ Handling("RandomBitwiseGen", 2)
           /\ IsBelow(Results[1])
           /\ Complete(Fields.result)
  <2>1. PICK batch : AtRandomBitwiseGen(2, Fields, batch, prime) /\ Met(batch, Results, prime)
    BY <1>1, <1>5
  <2>2. PICK r : r = Fields.result
    OBVIOUS
  <2>3. r \in Seq(Bits(prime)) /\ Len(r) = n /\ Len(batch) = 1
        /\ Opens(batch[1], IF Number(r) < prime THEN 1 ELSE 0, prime)
    BY <1>2, <2>1, <2>2 DEF AtRandomBitwiseGen
  <2>4. Results[1] = IF Number(r) < prime THEN 1 ELSE 0
    BY <2>1, <2>3, Brings DEF Met
  <2>5. Number(r) < prime
    BY <1>5, <2>4 DEF IsBelow
  <2>6. Meets(Top.call, r, prime)
    BY <1>1, <1>2, <1>5, <2>3, <2>5 DEF Meets, IsBelowNumber, Args, Functional
  <2> QED BY <1>1, <1>5, <2>2, <2>6, CompleteStays
<1>6. CASE /\ Handling("RandomBitwiseGen", 2)
           /\ ~IsBelow(Results[1])
           /\ ExecuteIn(0, Launched(Top.call), <<>>)
  <2>1. stack # <<>> /\ ~IsLeaf(Top.call) /\ Top.call # RandGen
    BY <1>1, <1>6 DEF IsLeaf, RandGen, Call
  <2> QED BY <1>6, <2>1, StartsAgain
<1> QED
  BY <1>3, <1>4, <1>5, <1>6 DEF HandleRandomBitwiseGen

\* An operation for two shares that is properly called brings what it promises.
LEMMA OperationBrings ==
  ASSUME NEW p, NEW op \in {"SharedBitXor", "SharedBitOr", "ShareAddition", "ShareMultiplication"},
         NEW s, NEW t, NEW r, Meets(Call(op, <<s, t>>), r, p)
  PROVE  IsShareOf(r, Promised(Call(op, <<s, t>>), p), p)
<1>1. Call(op, <<s, t>>).protocol \in Functional
  BY DEF Call, Functional
<1> QED
  BY <1>1 DEF Meets

\* BitwiseOperationProtocol.HandleMessage.
LEMMA BitwiseOperationStays ==
  ASSUME GateOK, HandleBitwiseOperation
  PROVE  GateOK'
<1>1. Handling("BitwiseOperation", 0) /\ Complete(Results)
  BY DEF HandleBitwiseOperation
<1>2. /\ stack # <<>> /\ Top.call.protocol = "BitwiseOperation" /\ Proper(Top.call, prime)
      /\ \E R : Results \in Seq(R)
  BY <1>1, Handled
<1>3. PICK batch : At(Top.call, 0, Fields, batch, prime) /\ Met(batch, Results, prime)
  BY <1>1, Handled
<1>4. PICK as, bs, op, r, R : /\ as = Args[1] /\ bs = Args[2] /\ op = Args[3] /\ r = Results
                              /\ r \in Seq(R)
  BY <1>2
<1>5. /\ as \in Seq(Shares(prime))
      /\ op \in {"SharedBitXor", "ShareAddition", "ShareMultiplication"}
  BY <1>2, <1>4 DEF Proper, Args
<1>6. PICK n \in Nat : n = Len(as)
  BY <1>5, LenProperties
<1>7. batch = [i \in 1..n |-> Call(op, <<as[i], bs[i]>>)]
  BY <1>2, <1>3, <1>4, <1>6 DEF At, AtBitwiseOperation, Args
<1>8. Len(batch) = n /\ \A i \in 1..n : batch[i] = Call(op, <<as[i], bs[i]>>)
  BY <1>7
<1>9. Len(r) = n /\ \A i \in 1..n : Meets(Call(op, <<as[i], bs[i]>>), r[i], prime)
  BY <1>3, <1>4, <1>8 DEF Met
<1>10. \A i \in 1..n : IsShareOf(r[i], Promised(Call(op, <<as[i], bs[i]>>), prime), prime)
  BY <1>5, <1>9, OperationBrings
<1>11. r \in Seq(Shares(prime))
  <2>1. \A i \in 1..Len(r) : r[i] \in Shares(prime)
    BY <1>9, <1>10 DEF IsShareOf
  <2> QED BY <1>4, <2>1, SequenceOver
<1>12. EachIs(r, as, bs, op, prime)
  BY <1>6, <1>9, <1>10, <1>11 DEF EachIs
<1>13. Meets(Top.call, r, prime)
  BY <1>2, <1>4, <1>12 DEF Meets, Args, Functional
<1> QED
  BY <1>1, <1>2, <1>4, <1>13, CompleteStays

\* The result of an operation on a prefix, extended by the next bit.
LEMMA PrefixGrows ==
  ASSUME NEW p, NEW bits \in Seq(Shares(p)), NEW op \in {"SharedBitOr", "ShareAddition"},
         NEW f, PrefixSoFar(f, bits, op, p), Len(f) < Len(bits), NEW r, NEW g, g = f \o <<r>>,
         Meets(Call(op, <<bits[Len(bits) - Len(f)], f[Len(f)]>>), r, p)
  PROVE  PrefixSoFar(g, bits, op, p) /\ Len(g) = Len(f) + 1
<1>1. PICK n \in Nat : n = Len(bits)
  BY LenProperties
<1>2. PICK k \in 1..n : /\ k = Len(f) /\ k < n /\ f \in Seq(Shares(p)) /\ f[1] = bits[n]
                        /\ op = "SharedBitOr" => f \in Seq(Bits(p))
                        /\ \A i \in 1..(k - 1) :
                             IsShareOf(f[i + 1], Promised(Call(op, <<bits[n - i], f[i]>>), p), p)
  BY <1>1 DEF PrefixSoFar
<1>3. IsShareOf(r, Promised(Call(op, <<bits[n - k], f[k]>>), p), p)
  BY <1>1, <1>2, OperationBrings
<1>4. r \in Shares(p)
  BY <1>3 DEF IsShareOf
<1>5. g \in Seq(Shares(p)) /\ Len(g) = k + 1 /\ g[k + 1] = r /\ \A i \in 1..k : g[i] = f[i]
  BY <1>2, <1>4
<1>6. ASSUME op = "SharedBitOr" PROVE g \in Seq(Bits(p))
  <2>1. r.value \in {0, 1}
    <3>1. Promised(Call("SharedBitOr", <<bits[n - k], f[k]>>), p) \in {0, 1}
      BY DEF Promised, Call
    <3> QED BY <1>3, <1>6, <3>1 DEF IsShareOf
  <2>2. r \in Bits(p)
    BY <1>4, <2>1 DEF Bits
  <2>3. f \in Seq(Bits(p))
    BY <1>2, <1>6
  <2> QED BY <2>2, <2>3
<1>7. ASSUME NEW i \in 1..k
      PROVE  IsShareOf(g[i + 1], Promised(Call(op, <<bits[n - i], g[i]>>), p), p)
  <2>1. g[i] = f[i]
    BY <1>5
  <2>2. CASE i = k
    BY <1>3, <1>5, <2>1, <2>2
  <2>3. CASE i # k
    <3>1. i \in 1..(k - 1) /\ i + 1 \in 1..k
      BY <1>2, <2>3
    <3>2. g[i + 1] = f[i + 1]
      BY <1>5, <3>1
    <3> QED BY <1>2, <2>1, <3>1, <3>2
  <2> QED BY <2>2, <2>3
<1>8. Len(g) \in 1..n /\ g[1] = bits[n] /\ (k + 1) - 1 = k
  BY <1>2, <1>5
<1>9. PICK l : l = Len(g)
  OBVIOUS
<1>10. l - 1 = k
  BY <1>5, <1>9, <1>2
<1> QED
  BY <1>1, <1>2, <1>5, <1>6, <1>7, <1>8, <1>9, <1>10 DEF PrefixSoFar

\* The result when it is complete, the lowest bit first.
LEMMA PrefixReversed ==
  ASSUME NEW p, NEW bits \in Seq(Shares(p)), NEW op, NEW f, PrefixSoFar(f, bits, op, p),
         Len(f) = Len(bits)
  PROVE  PrefixIs(Reverse(f), bits, op, p)
<1>1. PICK n \in Nat : n = Len(bits)
  BY LenProperties
<1>2. /\ n = Len(f) /\ n \in 1..n /\ f \in Seq(Shares(p)) /\ f[1] = bits[n]
      /\ \A i \in 1..(n - 1) :
           IsShareOf(f[i + 1], Promised(Call(op, <<bits[n - i], f[i]>>), p), p)
  BY <1>1 DEF PrefixSoFar
<1>3. PICK r : r = Reverse(f)
  OBVIOUS
<1>4. r = [i \in 1..n |-> f[(n - i) + 1]]
  BY <1>2, <1>3 DEF Reverse
<1>5. \A i \in 1..n : f[(n - i) + 1] \in Shares(p)
  <2>1. \A i \in 1..n : (n - i) + 1 \in 1..n
    OBVIOUS
  <2> QED BY <1>2, <2>1, ElementOfSeq
<1>6. r \in Seq(Shares(p)) /\ Len(r) = n
  <2>1. r \in [1..n -> Shares(p)]
    BY <1>4, <1>5
  <2> QED BY <2>1, SeqDef, LenProperties
<1>7. r[n] = bits[n]
  BY <1>2, <1>4
<1>8. ASSUME NEW i \in 1..(n - 1)
      PROVE  IsShareOf(r[i], Promised(Call(op, <<bits[i], r[i + 1]>>), p), p)
  <2>1. PICK k \in 1..(n - 1) : k = n - i /\ n - k = i
    OBVIOUS
  <2>2. r[i] = f[k + 1] /\ r[i + 1] = f[k]
    <3>1. i \in 1..n /\ i + 1 \in 1..n /\ (n - i) + 1 = k + 1 /\ (n - (i + 1)) + 1 = k
      BY <2>1
    <3> QED BY <1>4, <3>1
  <2> QED BY <1>2, <2>1, <2>2
<1> QED
  BY <1>1, <1>3, <1>6, <1>7, <1>8 DEF PrefixIs

\* What the handler of PrefixOperationProtocol finds: the last so many prefixes.
LEMMA PrefixOperationKnows ==
  ASSUME GateOK, Handling("PrefixOperation", 0)
  PROVE  LET bits == Args[1]
             op == Args[2]
             result == (IF Fields = <<>> THEN <<Last(bits)>> ELSE Fields) \o Results
         IN  /\ stack # <<>> /\ Top.call.protocol = "PrefixOperation"
             /\ bits \in Seq(Shares(prime)) /\ op \in {"SharedBitOr", "ShareAddition"}
             /\ op = "SharedBitOr" => bits \in Seq(Bits(prime))
             /\ PrefixSoFar(result, bits, op, prime)
<1>1. PICK bits, op : bits = Args[1] /\ op = Args[2]
  OBVIOUS
<1>2. /\ stack # <<>> /\ Top.call.protocol = "PrefixOperation"
      /\ bits \in Seq(Shares(prime)) /\ op \in {"SharedBitOr", "ShareAddition"} /\ Len(bits) > 0
      /\ op = "SharedBitOr" => bits \in Seq(Bits(prime))
  BY <1>1, Handled DEF Proper, Args
<1>3. PICK batch : /\ AtPrefixOperation(Args, 0, Fields, batch, prime)
                   /\ Met(batch, Results, prime)
  BY <1>2, Handled DEF At, Args
<1>4. PICK R : Results \in Seq(R)
  BY Handled
<1>5. PICK n \in Nat : n = Len(bits) /\ n > 0
  BY <1>2, LenProperties
<1>6. PICK result : result = (IF Fields = <<>> THEN <<Last(bits)>> ELSE Fields) \o Results
  OBVIOUS
<1>7. CASE Fields = <<>>
  <2>1. batch = <<>>
    BY <1>3, <1>7 DEF AtPrefixOperation
  <2>2. Len(Results) = 0
    BY <1>3, <2>1 DEF Met
  <2>3. Results = <<>>
    BY <1>4, <2>2
  <2>4. PICK b : b = bits[n]
    OBVIOUS
  <2>5. result = <<b>>
    BY <1>5, <1>6, <1>7, <2>3, <2>4 DEF Last
  <2>6. b \in Shares(prime) /\ (op = "SharedBitOr" => b \in Bits(prime))
    <3>1. n \in 1..n
      BY <1>5
    <3> QED BY <1>2, <1>5, <2>4, <3>1, ElementOfSeq
  <2>7. /\ result \in Seq(Shares(prime)) /\ Len(result) = 1 /\ result[1] = b
        /\ op = "SharedBitOr" => result \in Seq(Bits(prime))
    BY <2>5, <2>6
  <2>8. PrefixSoFar(result, bits, op, prime)
    BY <1>5, <2>4, <2>7 DEF PrefixSoFar
  <2> QED BY <1>1, <1>2, <1>6, <2>8
<1>8. CASE Fields # <<>>
  <2>1. PICK f : f = Fields
    OBVIOUS
  <2>2. /\ PrefixSoFar(f, bits, op, prime) /\ Len(f) < n
        /\ batch = <<Call(op, <<bits[n - Len(f)], f[Len(f)]>>)>>
    BY <1>1, <1>3, <1>5, <1>8, <2>1 DEF AtPrefixOperation
  <2>3. PICK c : c = Call(op, <<bits[n - Len(f)], f[Len(f)]>>)
    OBVIOUS
  <2>4. batch = <<c>>
    BY <2>2, <2>3
  <2>5. PICK r : r = Results[1]
    OBVIOUS
  <2>6. Len(Results) = 1 /\ Meets(c, r, prime)
    BY <1>3, <2>4, <2>5 DEF Met
  <2>7. Results = <<r>>
    BY <1>4, <2>5, <2>6
  <2>8. result = f \o <<r>>
    BY <1>6, <1>8, <2>1, <2>7
  <2>9. PrefixSoFar(result, bits, op, prime)
    BY <1>2, <1>5, <2>2, <2>3, <2>6, <2>8, PrefixGrows
  <2> QED BY <1>1, <1>2, <1>6, <2>9
<1> QED
  BY <1>7, <1>8

\* PrefixOperationProtocol.HandleMessage.
LEMMA PrefixOperationStays ==
  ASSUME GateOK, HandlePrefixOperation
  PROVE  GateOK'
<1>0. Handling("PrefixOperation", 0)
  BY DEF HandlePrefixOperation
<1>1. PICK bits, op, result :
        /\ bits = Args[1] /\ op = Args[2]
        /\ result = (IF Fields = <<>> THEN <<Last(bits)>> ELSE Fields) \o Results
  OBVIOUS
<1>2. /\ stack # <<>> /\ Top.call.protocol = "PrefixOperation"
      /\ bits \in Seq(Shares(prime)) /\ op \in {"SharedBitOr", "ShareAddition"}
      /\ op = "SharedBitOr" => bits \in Seq(Bits(prime))
      /\ PrefixSoFar(result, bits, op, prime)
  BY <1>0, <1>1, PrefixOperationKnows
<1>3. PICK n \in Nat, k \in Nat : n = Len(bits) /\ k = Len(result) /\ k \in 1..n
  BY <1>2, LenProperties DEF PrefixSoFar
<1>4. CASE n - k > 0 /\ ExecuteIn(0, <<Call(op, <<bits[n - k], Last(result)>>)>>, result)
  <2>1. PICK s, t, c : s = bits[n - k] /\ t = result[k] /\ c = Call(op, <<s, t>>)
    OBVIOUS
  <2>2. n - k \in 1..n /\ k \in 1..k /\ k < n
    BY <1>3, <1>4
  <2>3. s \in Shares(prime) /\ t \in Shares(prime)
        /\ (op = "SharedBitOr" => s \in Bits(prime) /\ t \in Bits(prime))
    BY <1>2, <1>3, <2>1, <2>2, ElementOfSeq DEF PrefixSoFar
  <2>4. Proper(c, prime)
    <3>1. CASE op = "SharedBitOr"
      BY <2>1, <2>3, <3>1, OrIs DEF Or
    <3>2. CASE op = "ShareAddition"
      BY <2>1, <2>3, <3>2, AddIs DEF Add
    <3> QED BY <1>2, <3>1, <3>2
  <2>5. PICK batch : batch = <<c>>
    OBVIOUS
  <2>6. IsBatch(batch, prime)
    <3>1. IsBatch(<<c>>, prime)
      BY <2>4, Batches
    <3> QED BY <2>5, <3>1
  <2>7. ExecuteIn(0, batch, result)
    BY <1>3, <1>4, <2>1, <2>5 DEF Last
  <2>8. result # <<>>
    BY <1>3
  <2>9. AtPrefixOperation(Top.call.args, 0, result, batch, prime)
    BY <1>1, <1>2, <1>3, <2>1, <2>2, <2>5, <2>8 DEF AtPrefixOperation, Args
  <2>10. At(Top.call, 0, result, batch, prime)
    BY <1>2, <2>9 DEF At
  <2> QED BY <1>2, <2>6, <2>7, <2>10, ExecuteStays
<1>5. CASE n - k = 0 /\ Complete(Reverse(result))
  <2>1. PICK r : r = Reverse(result)
    OBVIOUS
  <2>2. PrefixIs(r, bits, op, prime)
    <3>1. Len(result) = Len(bits)
      BY <1>3, <1>5
    <3> QED BY <1>2, <2>1, <3>1, PrefixReversed
  <2>3. Meets(Top.call, r, prime)
    BY <1>1, <1>2, <2>2 DEF Meets, Functional, Args
  <2> QED BY <1>2, <1>5, <2>1, <2>3, CompleteStays
<1> QED
  BY <1>1, <1>3, <1>4, <1>5 DEF HandlePrefixOperation

ValuesOf(s, n) == [i \in 1..n |-> s[i].value]

\* Two numbers as sequences of as many bits.
LEMMA NumbersOf ==
  ASSUME NEW p \in Nat \ {0}, NEW as \in Seq(Bits(p)), NEW bs \in Seq(Bits(p)), NEW n,
         n = Len(as), n = Len(bs), n > 0
  PROVE  AreNumbers(NumberFrom(as), NumberFrom(bs), ValuesOf(as, n), ValuesOf(bs, n), n)
<1>1. n \in Nat \ {0}
  BY LenProperties
<1>2. IsNumber(NumberFrom(as), as) /\ IsNumber(NumberFrom(bs), bs)
  BY NumbersExist
<1>3. ValuesOf(as, n) \in [1..n -> {0, 1}] /\ ValuesOf(bs, n) \in [1..n -> {0, 1}]
  BY BitsAreShares DEF ValuesOf
<1>4. \A i \in 1..n : ValuesOf(as, n)[i] = as[i].value /\ ValuesOf(bs, n)[i] = bs[i].value
  BY DEF ValuesOf
<1> QED
  BY <1>1, <1>2, <1>3, <1>4 DEF AreNumbers, IsNumber

\* The highest bit in which two numbers differ: above it they are the same.
LEMMA DifferenceStays ==
  ASSUME NEW a, NEW b, NEW u, NEW v, NEW n, AreNumbers(a, b, u, v, n)
  PROVE  /\ n \in Nat /\ a[n + 1] = b[n + 1]
         /\ \A i \in 1..n : a[i + 1] # b[i + 1] => a[i] # b[i]
<1>0. n \in Nat \ {0} /\ a[n + 1] = b[n + 1]
  BY DEF AreNumbers
<1>1. ASSUME NEW i \in 1..n, a[i + 1] # b[i + 1] PROVE a[i] # b[i]
  <2>1. i + 1 \in 1..(n + 1)
    BY <1>0
  <2>2. PICK x \in Nat, y \in Nat, e \in {0, 1}, f \in {0, 1} :
          /\ x = a[i + 1] /\ y = b[i + 1] /\ e = u[i] /\ f = v[i]
          /\ a[i] = 2 * x + e /\ b[i] = 2 * y + f
    <3>1. /\ a[i + 1] \in Nat /\ b[i + 1] \in Nat /\ u[i] \in {0, 1} /\ v[i] \in {0, 1}
          /\ a[i] = 2 * a[i + 1] + u[i] /\ b[i] = 2 * b[i + 1] + v[i]
      BY <2>1 DEF AreNumbers
    <3> QED BY <3>1
  <2> QED BY <1>1, <2>2, Doubles
<1> QED
  BY <1>0, <1>1

\* What comes of the operations on sequences.
LEMMA SequencesBring ==
  ASSUME NEW p, NEW as, NEW bs, NEW op, NEW r
  PROVE  /\ Meets(BitwiseOperation(as, bs, op), r, p) => EachIs(r, as, bs, op, p)
         /\ Meets(PrefixOperation(as, op), r, p) => PrefixIs(r, as, op, p)
         /\ Meets(Loopback(as), r, p) => r = as
<1>1. Meets(BitwiseOperation(as, bs, op), r, p) => EachIs(r, as, bs, op, p)
  <2>1. PICK c : c = BitwiseOperation(as, bs, op)
    OBVIOUS
  <2>2. c.protocol = "BitwiseOperation" /\ c.args[1] = as /\ c.args[2] = bs /\ c.args[3] = op
    BY <2>1 DEF BitwiseOperation, Call
  <2>3. Meets(c, r, p) => EachIs(r, as, bs, op, p)
    BY <2>2 DEF Meets
  <2> QED BY <2>1, <2>3
<1>2. Meets(PrefixOperation(as, op), r, p) => PrefixIs(r, as, op, p)
  <2>1. PICK c : c = PrefixOperation(as, op)
    OBVIOUS
  <2>2. c.protocol = "PrefixOperation" /\ c.args[1] = as /\ c.args[2] = op
    BY <2>1 DEF PrefixOperation, Call
  <2>3. Meets(c, r, p) => PrefixIs(r, as, op, p)
    BY <2>2 DEF Meets
  <2> QED BY <2>1, <2>3
<1>3. Meets(Loopback(as), r, p) => r = as
  <2>1. PICK c : c = Loopback(as)
    OBVIOUS
  <2>2. c.protocol = "Loopback" /\ c.args[1] = as
    BY <2>1 DEF Loopback, Call
  <2>3. Meets(c, r, p) => r = as
    BY <2>2 DEF Meets
  <2> QED BY <2>1, <2>3
<1> QED
  BY <1>1, <1>2, <1>3

\* What is promised of an operation on two shares.
LEMMA PromisedOperations ==
  ASSUME NEW p, NEW s, NEW t
  PROVE  /\ Promised(Call("SharedBitXor", <<s, t>>), p) = Unequal(s.value, t.value)
         /\ Promised(Call("SharedBitOr", <<s, t>>), p) = (IF s.value = 1 \/ t.value = 1 THEN 1 ELSE 0)
         /\ Promised(Call("ShareAddition", <<s, t>>), p) = (s.value + t.value) % p
         /\ Promised(Call("ShareMultiplication", <<s, t>>), p) = (s.value * t.value) % p
<1>1. Promised(Call("SharedBitXor", <<s, t>>), p) = Unequal(s.value, t.value)
  BY DEF Promised, Call, Unequal
<1>2. Promised(Call("SharedBitOr", <<s, t>>), p) = (IF s.value = 1 \/ t.value = 1 THEN 1 ELSE 0)
  BY DEF Promised, Call
<1>3. Promised(Call("ShareAddition", <<s, t>>), p) = (s.value + t.value) % p
  BY DEF Promised, Call
<1>4. Promised(Call("ShareMultiplication", <<s, t>>), p) = (s.value * t.value) % p
  BY DEF Promised, Call
<1> QED
  BY <1>1, <1>2, <1>3, <1>4

\* Each prefix tells whether the numbers differ from there on.
LEMMA PrefixesDiffer ==
  ASSUME NEW p, NEW a, NEW b, NEW u, NEW v, NEW n, AreNumbers(a, b, u, v, n), NEW x, NEW D,
         Len(x) = n, PrefixIs(D, x, "SharedBitOr", p),
         \A i \in 1..n : IsShareOf(x[i], Unequal(u[i], v[i]), p)
  PROVE  /\ D \in Seq(Shares(p)) /\ Len(D) = n
         /\ \A i \in 1..n : IsShareOf(D[i], Differ(a, b, i), p)
<1>0. n \in Nat \ {0}
  BY DEF AreNumbers
<1>1. /\ D \in Seq(Shares(p)) /\ Len(D) = n /\ D[n] = x[n]
      /\ \A i \in 1..(n - 1) :
           IsShareOf(D[i], Promised(Call("SharedBitOr", <<x[i], D[i + 1]>>), p), p)
  BY DEF PrefixIs
<1>2. PICK d : d = ValuesOf(D, n)
  OBVIOUS
<1>3. \A i \in 1..n : d[i] = D[i].value
  BY <1>2 DEF ValuesOf
<1>4. \A i \in 1..n : x[i].value = 1 <=> u[i] # v[i]
  BY DEF IsShareOf, Unequal
<1>5. d[n] = IF u[n] # v[n] THEN 1 ELSE 0
  <2>1. n \in 1..n
    BY <1>0
  <2>2. d[n] = x[n].value
    BY <1>1, <1>3, <2>1
  <2> QED BY <2>1, <2>2 DEF IsShareOf, Unequal
<1>6. ASSUME NEW i \in 1..(n - 1) PROVE d[i] = IF u[i] # v[i] \/ d[i + 1] = 1 THEN 1 ELSE 0
  <2>1. i \in 1..n /\ i + 1 \in 1..n
    BY <1>0
  <2>2. D[i].value = IF x[i].value = 1 \/ D[i + 1].value = 1 THEN 1 ELSE 0
    <3>1. PICK s, t : s = x[i] /\ t = D[i + 1]
      OBVIOUS
    <3>2. Promised(Call("SharedBitOr", <<s, t>>), p) = IF s.value = 1 \/ t.value = 1 THEN 1 ELSE 0
      BY PromisedOperations
    <3>3. IsShareOf(D[i], Promised(Call("SharedBitOr", <<s, t>>), p), p)
      BY <1>1, <3>1
    <3> QED BY <3>1, <3>2, <3>3 DEF IsShareOf
  <2> QED BY <1>3, <1>4, <2>1, <2>2
<1>7. \A i \in 1..n : d[i] = IF a[i] # b[i] THEN 1 ELSE 0
  BY <1>5, <1>6, PrefixOr
<1>8. \A i \in 1..n : D[i] \in Shares(p)
  BY <1>1, ElementOfSeq
<1> QED
  BY <1>1, <1>3, <1>7, <1>8 DEF IsShareOf, Differ, Unequal

\* The step of subtraction, for any number of bits.
LEMMA SubtractionIs ==
  ASSUME prime \in Nat, prime > 2, NEW a, NEW b, NEW u, NEW v, NEW n, AreNumbers(a, b, u, v, n),
         NEW D \in Seq(Shares(prime)), Len(D) = n,
         \A i \in 1..n : IsShareOf(D[i], Differ(a, b, i), prime)
  PROVE  /\ Proper(SubtractionStep(D), prime)
         /\ \A r : Meets(SubtractionStep(D), r, prime) =>
              /\ r \in Seq(Shares(prime)) /\ Len(r) = n - 1
              /\ \A i \in 1..(n - 1) : IsShareOf(r[i], DifferFirst(a, b, i), prime)
<1>0. n \in Nat \ {0} /\ prime \in Nat \ {0}
  BY DEF AreNumbers
<1>1. CASE n > 1
  <2>1. PICK front, inverses : /\ front = Front(D)
                               /\ inverses = [i \in 1..(n - 1) |-> ShareAdditiveInverse(D[i + 1])]
    OBVIOUS
  <2>2. /\ front \in Seq(Shares(prime)) /\ Len(front) = n - 1
        /\ \A i \in 1..(n - 1) : front[i] = D[i]
    BY <1>0, <2>1 DEF Front
  <2>3. ASSUME NEW i \in 1..(n - 1)
        PROVE  /\ D[i + 1] \in Shares(prime) /\ D[i] \in Shares(prime)
               /\ inverses[i] = ShareAdditiveInverse(D[i + 1])
               /\ inverses[i] \in Shares(prime)
    <3>1. i \in 1..n /\ i + 1 \in 1..n
      BY <1>0
    <3>2. D[i + 1] \in Shares(prime) /\ D[i] \in Shares(prime)
      BY <3>1, ElementOfSeq
    <3>3. inverses[i] = ShareAdditiveInverse(D[i + 1])
      BY <2>1
    <3> QED BY <1>0, <3>2, <3>3, InverseIs
  <2>4. inverses \in Seq(Shares(prime)) /\ Len(inverses) = n - 1
    <3>1. inverses \in [1..(n - 1) -> Shares(prime)] /\ n - 1 \in Nat
      <4>1. DOMAIN inverses = 1..(n - 1) /\ inverses = [i \in 1..(n - 1) |-> inverses[i]]
        BY <2>1
      <4> QED BY <1>0, <2>3, <4>1
    <3> QED BY <3>1, SeqDef, LenProperties
  <2>5. PICK c : c = BitwiseOperation(front, inverses, "ShareAddition")
    OBVIOUS
  <2>6. c = SubtractionStep(D)
    BY <1>1, <2>1, <2>5 DEF SubtractionStep
  <2>7. Proper(c, prime)
    BY <2>2, <2>4, <2>5, BitwiseOperationIs
  <2>8. ASSUME NEW r, Meets(c, r, prime)
        PROVE  /\ r \in Seq(Shares(prime)) /\ Len(r) = n - 1
               /\ \A i \in 1..(n - 1) : IsShareOf(r[i], DifferFirst(a, b, i), prime)
    <3>1. EachIs(r, front, inverses, "ShareAddition", prime)
      BY <2>5, <2>8, SequencesBring
    <3>2. /\ r \in Seq(Shares(prime)) /\ Len(r) = n - 1
          /\ \A i \in 1..(n - 1) :
               IsShareOf(r[i], Promised(Call("ShareAddition", <<front[i], inverses[i]>>), prime),
                         prime)
      BY <2>2, <3>1 DEF EachIs
    <3>3. ASSUME NEW i \in 1..(n - 1) PROVE IsShareOf(r[i], DifferFirst(a, b, i), prime)
      <4>1. PICK s, t, w : s = D[i] /\ t = D[i + 1] /\ w = ShareAdditiveInverse(t)
        OBVIOUS
      <4>2. s \in Shares(prime) /\ t \in Shares(prime) /\ front[i] = s /\ inverses[i] = w
            /\ w \in Shares(prime)
        BY <2>2, <2>3, <4>1
      <4>3. r[i] \in Shares(prime) /\ r[i].value = (s.value + w.value) % prime
        <5>1. Promised(Call("ShareAddition", <<s, w>>), prime) = (s.value + w.value) % prime
          BY PromisedOperations
        <5>2. IsShareOf(r[i], Promised(Call("ShareAddition", <<s, w>>), prime), prime)
          BY <3>2, <4>2
        <5> QED BY <5>1, <5>2 DEF IsShareOf
      <4>4. (s.value + w.value) % prime = (s.value - t.value) % prime
        <5>1. Gives(Add(s, w), (s.value - t.value) % prime, prime)
          BY <1>0, <4>1, <4>2, DifferenceIs
        <5>2. Gives(Add(s, w), (s.value + w.value) % prime, prime)
          BY <4>2, AddIs
        <5> QED BY <5>1, <5>2 DEF Gives
      <4>5. i \in 1..n /\ i + 1 \in 1..n
        BY <1>0
      <4>6. s.value = Differ(a, b, i) /\ t.value = Differ(a, b, i + 1)
        BY <4>1, <4>5 DEF IsShareOf
      <4>7. a[i + 1] # b[i + 1] => a[i] # b[i]
        BY <4>5, DifferenceStays
      <4>8. s.value - t.value = DifferFirst(a, b, i)
        BY <4>6, <4>7 DEF Differ, DifferFirst, Unequal, Truth
      <4>9. PICK z \in {0, 1} : z = DifferFirst(a, b, i)
        BY DEF DifferFirst, Truth
      <4>10. z % prime = z
        BY <1>0, <4>9, SmallRemainders
      <4> QED BY <4>3, <4>4, <4>8, <4>9, <4>10 DEF IsShareOf
    <3> QED BY <3>2, <3>3
  <2> QED BY <2>6, <2>7, <2>8
<1>2. CASE ~ n > 1
  <2>1. n = 1
    BY <1>0, <1>2
  <2>2. SubtractionStep(D) = Loopback(<<>>)
    BY <1>2 DEF SubtractionStep
  <2>3. Proper(Loopback(<<>>), prime)
    BY LoopbackIs
  <2>4. ASSUME NEW r, Meets(Loopback(<<>>), r, prime)
        PROVE  /\ r \in Seq(Shares(prime)) /\ Len(r) = n - 1
               /\ \A i \in 1..(n - 1) : IsShareOf(r[i], DifferFirst(a, b, i), prime)
    <3>1. r = <<>>
      BY <2>4, LoopbackIs
    <3> QED BY <2>1, <3>1
  <2> QED BY <2>2, <2>3, <2>4
<1> QED
  BY <1>1, <1>2

\* The bits of the second number where the numbers differ first; their sum from a bit on tells
\* which number is less.
LEMMA SumsDecide ==
  ASSUME NEW p \in Nat, p > 2, NEW a, NEW b, NEW u, NEW v, NEW n, AreNumbers(a, b, u, v, n),
         NEW m, NEW s, Len(m) = n, PrefixIs(s, m, "ShareAddition", p),
         \A i \in 1..n : IsShareOf(m[i], Decides(a, b, i, v[i]), p)
  PROVE  IsShareOf(s[1], Truth(a[1] < b[1]), p)
<1>0. n \in Nat \ {0} /\ 1 \in 1..n /\ n \in 1..n
  BY DEF AreNumbers
<1>1. /\ s \in Seq(Shares(p)) /\ Len(s) = n /\ s[n] = m[n]
      /\ \A i \in 1..(n - 1) :
           IsShareOf(s[i], Promised(Call("ShareAddition", <<m[i], s[i + 1]>>), p), p)
  BY DEF PrefixIs
<1>2. PICK ms, ss : ms = ValuesOf(m, n) /\ ss = ValuesOf(s, n)
  OBVIOUS
<1>3. \A i \in 1..n : ms[i] = m[i].value /\ ss[i] = s[i].value
  BY <1>2 DEF ValuesOf
<1>4. \A i \in 1..n :
        ms[i] = IF a[i] # b[i] /\ a[i + 1] = b[i + 1] /\ v[i] = 1 THEN 1 ELSE 0
  BY <1>3 DEF IsShareOf, Decides
<1>5. ss[n] = ms[n]
  BY <1>0, <1>1, <1>3
<1>6. ASSUME NEW i \in 1..(n - 1) PROVE ss[i] = (ms[i] + ss[i + 1]) % p
  <2>1. i \in 1..n /\ i + 1 \in 1..n
    BY <1>0
  <2>2. PICK x, y : x = m[i] /\ y = s[i + 1]
    OBVIOUS
  <2>3. Promised(Call("ShareAddition", <<x, y>>), p) = (x.value + y.value) % p
    BY PromisedOperations
  <2>4. IsShareOf(s[i], Promised(Call("ShareAddition", <<x, y>>), p), p)
    BY <1>1, <2>2
  <2> QED BY <1>3, <2>1, <2>2, <2>3, <2>4 DEF IsShareOf
<1>7. ss[1] = IF a[1] < b[1] THEN 1 ELSE 0
  BY <1>4, <1>5, <1>6, HighestDecides
<1>8. s[1] \in Shares(p)
  BY <1>0, <1>1, ElementOfSeq
<1> QED
  BY <1>0, <1>3, <1>7, <1>8 DEF IsShareOf, Truth

\* What is known at each stage.
LEMMA BitwiseLessThanKnows ==
  ASSUME GateOK, NEW stage, Handling("BitwiseLessThan", stage)
  PROVE  LET as == Args[1]  bs == Args[2]  n == Len(as)
         IN  /\ stack # <<>> /\ Top.call.protocol = "BitwiseLessThan" /\ Top.stage = stage
             /\ as \in Seq(Bits(prime)) /\ bs \in Seq(Bits(prime)) /\ Len(bs) = n
             /\ n \in Nat \ {0}
             /\ AreNumbers(NumberFrom(as), NumberFrom(bs), ValuesOf(as, n), ValuesOf(bs, n), n)
             /\ Promised(Top.call, prime) = Truth(NumberFrom(as)[1] < NumberFrom(bs)[1])
             /\ \E batch : /\ AtBitwiseLessThan(Args, stage, Fields, batch, prime)
                           /\ Met(batch, Results, prime)
<1>1. PICK as, bs, n : as = Args[1] /\ bs = Args[2] /\ n = Len(as)
  OBVIOUS
<1>2. prime \in Nat \ {0}
  BY PrimesAreOdd DEF GateOK
<1>3. stack # <<>> /\ Top.call.protocol = "BitwiseLessThan" /\ Top.stage = stage
      /\ Proper(Top.call, prime)
  BY Handled
<1>4. as \in Seq(Bits(prime)) /\ bs \in Seq(Bits(prime)) /\ Len(bs) = n /\ n > 0
  BY <1>1, <1>3 DEF Proper, Args
<1>5. n \in Nat \ {0}
  BY <1>1, <1>4, LenProperties
<1>6. AreNumbers(NumberFrom(as), NumberFrom(bs), ValuesOf(as, n), ValuesOf(bs, n), n)
  BY <1>1, <1>2, <1>4, NumbersOf
<1>7. Promised(Top.call, prime) = Truth(NumberFrom(as)[1] < NumberFrom(bs)[1])
  BY <1>1, <1>3 DEF Promised, Truth, Number, Args
<1>8. PICK batch : At(Top.call, stage, Fields, batch, prime) /\ Met(batch, Results, prime)
  BY Handled
<1>9. AtBitwiseLessThan(Args, stage, Fields, batch, prime)
  BY <1>3, <1>8 DEF At, Args
<1> QED
  BY <1>1, <1>3, <1>4, <1>5, <1>6, <1>7, <1>8, <1>9

\* BitwiseLessThanProtocol.HandleMessage: the prefixes and their differences,
LEMMA BitwiseLessThanFirstStages ==
  ASSUME GateOK,
         \/ /\ Handling("BitwiseLessThan", 0)
            /\ Execute(<<PrefixOperation(Results[1], "SharedBitOr")>>, Fields)
         \/ /\ Handling("BitwiseLessThan", 1)
            /\ Execute(<<SubtractionStep(Results[1])>>, [d |-> Results[1]])
  PROVE  GateOK'
<1>0. prime \in Nat /\ prime > 2
  BY PrimesAreOdd DEF GateOK
<1>1. PICK as, bs, n, A, B, u, v :
        /\ as = Args[1] /\ bs = Args[2] /\ n = Len(as) /\ A = NumberFrom(as) /\ B = NumberFrom(bs)
        /\ u = ValuesOf(as, n) /\ v = ValuesOf(bs, n)
  OBVIOUS
<1>2. \A i \in 1..n : u[i] = as[i].value /\ v[i] = bs[i].value
  BY <1>1 DEF ValuesOf
<1>3. CASE /\ Handling("BitwiseLessThan", 0)
           /\ Execute(<<PrefixOperation(Results[1], "SharedBitOr")>>, Fields)
  <2>1. PICK batch : AtBitwiseLessThan(Args, 0, Fields, batch, prime) /\ Met(batch, Results, prime)
    BY <1>3, BitwiseLessThanKnows
  <2>2. /\ stack # <<>> /\ Top.call.protocol = "BitwiseLessThan" /\ Top.stage = 0
        /\ n \in Nat \ {0}
    BY <1>1, <1>3, BitwiseLessThanKnows
  <2>3. batch = <<BitwiseOperation(as, bs, "SharedBitXor")>>
    BY <1>1, <2>1 DEF AtBitwiseLessThan
  <2>4. PICK x, c : x = Results[1] /\ c = PrefixOperation(x, "SharedBitOr")
    OBVIOUS
  <2>5. EachIs(x, as, bs, "SharedBitXor", prime)
    <3>1. PICK q : q = BitwiseOperation(as, bs, "SharedBitXor")
      OBVIOUS
    <3>2. batch = <<q>>
      BY <2>3, <3>1
    <3>3. Meets(q, x, prime)
      BY ONLY <2>1, <2>4, <3>2 DEF Met
    <3> QED BY <3>1, <3>3, SequencesBring
  <2>6. x \in Seq(Shares(prime)) /\ Len(x) = n
    BY <1>1, <2>5 DEF EachIs
  <2>7. ASSUME NEW i \in 1..n PROVE IsShareOf(x[i], Unequal(as[i].value, bs[i].value), prime)
    <3>1. PICK s, t : s = as[i] /\ t = bs[i]
      OBVIOUS
    <3>2. Promised(Call("SharedBitXor", <<s, t>>), prime) = Unequal(s.value, t.value)
      BY PromisedOperations
    <3>3. IsShareOf(x[i], Promised(Call("SharedBitXor", <<s, t>>), prime), prime)
      BY <1>1, <2>5, <3>1 DEF EachIs
    <3> QED BY <3>1, <3>2, <3>3
  <2>8. x \in Seq(Bits(prime))
    <3>1. \A i \in 1..Len(x) : x[i] \in Bits(prime)
      BY <2>6, <2>7 DEF IsShareOf, Bits, Unequal
    <3> QED BY <2>6, <3>1, SequenceOver
  <2>9. Proper(c, prime)
    <3>1. Len(x) > 0
      BY <2>2, <2>6
    <3> QED BY <2>4, <2>6, <2>8, <3>1, PrefixOperationIs
  <2>10. PICK calls : calls = <<c>>
    OBVIOUS
  <2>11. IsBatch(calls, prime)
    <3>1. IsBatch(<<c>>, prime)
      BY <2>9, Batches
    <3> QED BY <2>10, <3>1
  <2>12. ExecuteIn(1, calls, Fields)
    BY <1>3, <2>2, <2>4, <2>10 DEF Execute
  <2>13. AtBitwiseLessThan(Top.call.args, 1, Fields, calls, prime)
    BY <1>1, <2>4, <2>6, <2>7, <2>10 DEF AtBitwiseLessThan, Args
  <2>14. At(Top.call, 1, Fields, calls, prime)
    BY <2>2, <2>13 DEF At
  <2> QED BY <2>2, <2>11, <2>12, <2>14, ExecuteStays
<1>4. CASE /\ Handling("BitwiseLessThan", 1)
           /\ Execute(<<SubtractionStep(Results[1])>>, [d |-> Results[1]])
  <2>1. PICK batch : AtBitwiseLessThan(Args, 1, Fields, batch, prime) /\ Met(batch, Results, prime)
    BY <1>4, BitwiseLessThanKnows
  <2>2. /\ stack # <<>> /\ Top.call.protocol = "BitwiseLessThan" /\ Top.stage = 1
        /\ n \in Nat \ {0} /\ AreNumbers(A, B, u, v, n)
    BY <1>1, <1>4, BitwiseLessThanKnows
  <2>3. PICK x : /\ batch = <<PrefixOperation(x, "SharedBitOr")>> /\ Len(x) = n
                 /\ \A i \in 1..n : IsShareOf(x[i], Unequal(as[i].value, bs[i].value), prime)
    BY <1>1, <2>1 DEF AtBitwiseLessThan
  <2>4. PICK D, c, fields : D = Results[1] /\ c = SubtractionStep(D) /\ fields = [d |-> D]
    OBVIOUS
  <2>5. PrefixIs(D, x, "SharedBitOr", prime)
    <3>1. Meets(PrefixOperation(x, "SharedBitOr"), D, prime)
      BY <2>1, <2>3, <2>4 DEF Met
    <3> QED BY <3>1, SequencesBring
  <2>6. \A i \in 1..n : IsShareOf(x[i], Unequal(u[i], v[i]), prime)
    BY <1>2, <2>3
  <2>7. /\ D \in Seq(Shares(prime)) /\ Len(D) = n
        /\ \A i \in 1..n : IsShareOf(D[i], Differ(A, B, i), prime)
    <3>1. Len(x) = n /\ AreNumbers(A, B, u, v, n)
      BY <2>2, <2>3
    <3> QED BY ONLY <3>1, <2>5, <2>6, PrefixesDiffer
  <2>8. /\ Proper(c, prime)
        /\ \A r : Meets(c, r, prime) =>
             /\ r \in Seq(Shares(prime)) /\ Len(r) = n - 1
             /\ \A i \in 1..(n - 1) : IsShareOf(r[i], DifferFirst(A, B, i), prime)
    BY <1>0, <2>2, <2>4, <2>7, SubtractionIs
  <2>9. ExecuteIn(2, <<c>>, fields)
    BY <1>4, <2>2, <2>4 DEF Execute
  <2>10. fields.d = D
    BY <2>4
  <2>11. ASSUME NEW b, Len(b) = 1, b[1] = c PROVE At(Top.call, 2, fields, b, prime)
    <3>1. AtBitwiseLessThan(Top.call.args, 2, fields, b, prime)
      BY <1>1, <2>7, <2>8, <2>10, <2>11 DEF AtBitwiseLessThan, Args
    <3> QED BY <2>2, <3>1 DEF At
  <2> QED BY <2>2, <2>8, <2>9, <2>11, GoesOnWith
<1> QED
  BY <1>3, <1>4

\* and then the bit that decides.
LEMMA BitwiseLessThanStays ==
  ASSUME GateOK, HandleBitwiseLessThan
  PROVE  GateOK'
<1>0. prime \in Nat /\ prime > 2 /\ prime \in Nat \ {0}
  BY PrimesAreOdd DEF GateOK
<1>1. PICK as, bs, n, A, B, u, v :
        /\ as = Args[1] /\ bs = Args[2] /\ n = Len(as) /\ A = NumberFrom(as) /\ B = NumberFrom(bs)
        /\ u = ValuesOf(as, n) /\ v = ValuesOf(bs, n)
  OBVIOUS
<1>2. \A i \in 1..n : u[i] = as[i].value /\ v[i] = bs[i].value
  BY <1>1 DEF ValuesOf
<1>3. CASE /\ Handling("BitwiseLessThan", 2)
           /\ Execute(<<BitwiseOperation(Args[2], Append(Results[1], Last(Fields.d)),
                                         "ShareMultiplication")>>, Fields)
  <2>1. PICK batch : AtBitwiseLessThan(Args, 2, Fields, batch, prime) /\ Met(batch, Results, prime)
    BY <1>3, BitwiseLessThanKnows
  <2>2. /\ stack # <<>> /\ Top.call.protocol = "BitwiseLessThan" /\ Top.stage = 2
        /\ n \in Nat \ {0} /\ AreNumbers(A, B, u, v, n)
        /\ bs \in Seq(Bits(prime)) /\ Len(bs) = n
    BY <1>1, <1>3, BitwiseLessThanKnows
  <2>3. PICK r, D, last : r = Results[1] /\ D = Fields.d /\ last = D[n]
    OBVIOUS
  <2>4. /\ D \in Seq(Shares(prime)) /\ Len(D) = n
        /\ \A i \in 1..n : IsShareOf(D[i], Differ(A, B, i), prime)
        /\ Len(batch) = 1
        /\ \A q : Meets(batch[1], q, prime) =>
             /\ q \in Seq(Shares(prime)) /\ Len(q) = n - 1
             /\ \A i \in 1..(n - 1) : IsShareOf(q[i], DifferFirst(A, B, i), prime)
    BY <1>1, <2>1, <2>3 DEF AtBitwiseLessThan
  <2>5. /\ r \in Seq(Shares(prime)) /\ Len(r) = n - 1
        /\ \A i \in 1..(n - 1) : IsShareOf(r[i], DifferFirst(A, B, i), prime)
    <3>1. Meets(batch[1], r, prime)
      BY <2>1, <2>3, <2>4 DEF Met
    <3> QED BY <2>4, <3>1
  <2>6. IsShareOf(last, DifferFirst(A, B, n), prime)
    <3>1. n \in 1..n /\ A[n + 1] = B[n + 1]
      BY <2>2 DEF AreNumbers
    <3> QED BY <2>3, <2>4, <3>1 DEF IsShareOf, Differ, DifferFirst, Unequal, Truth
  <2>7. PICK e, c : e = Append(r, last) /\ c = BitwiseOperation(bs, e, "ShareMultiplication")
    OBVIOUS
  <2>8. /\ e \in Seq(Shares(prime)) /\ Len(e) = n /\ e[n] = last
        /\ \A i \in 1..(n - 1) : e[i] = r[i]
    <3>1. last \in Shares(prime)
      BY <2>6 DEF IsShareOf
    <3> QED BY <2>2, <2>5, <2>7, <3>1
  <2>9. ASSUME NEW i \in 1..n
        PROVE IsShareOf(e[i], DifferFirst(A, B, i), prime)
    <3>1. CASE i = n
      BY <2>6, <2>8, <3>1
    <3>2. CASE i # n
      <4>1. i \in 1..(n - 1)
        BY <2>2, <3>2
      <4> QED BY <2>5, <2>8, <4>1
    <3> QED BY <3>1, <3>2
  <2>10. Proper(c, prime)
    BY <2>2, <2>7, <2>8, BitsAreShares, BitwiseOperationIs
  <2>11. ExecuteIn(3, <<c>>, Fields)
    BY <1>1, <1>3, <2>2, <2>3, <2>4, <2>7 DEF Execute, Last
  <2>12. PICK calls : calls = <<c>>
    OBVIOUS
  <2>13. IsBatch(calls, prime)
    <3>1. IsBatch(<<c>>, prime)
      BY <2>10, Batches
    <3> QED BY <2>12, <3>1
  <2>14. AtBitwiseLessThan(Top.call.args, 3, Fields, calls, prime)
    BY <1>1, <2>7, <2>8, <2>9, <2>12 DEF AtBitwiseLessThan, Args
  <2>15. At(Top.call, 3, Fields, calls, prime)
    BY <2>2, <2>14 DEF At
  <2> QED BY <2>2, <2>11, <2>12, <2>13, <2>15, ExecuteStays
<1>4. CASE /\ Handling("BitwiseLessThan", 3)
           /\ Execute(<<PrefixOperation(Results[1], "ShareAddition")>>, Fields)
  <2>1. PICK batch : AtBitwiseLessThan(Args, 3, Fields, batch, prime) /\ Met(batch, Results, prime)
    BY <1>4, BitwiseLessThanKnows
  <2>2. /\ stack # <<>> /\ Top.call.protocol = "BitwiseLessThan" /\ Top.stage = 3
        /\ n \in Nat \ {0} /\ AreNumbers(A, B, u, v, n)
        /\ bs \in Seq(Bits(prime)) /\ Len(bs) = n
    BY <1>1, <1>4, BitwiseLessThanKnows
  <2>3. PICK e : /\ batch = <<BitwiseOperation(bs, e, "ShareMultiplication")>> /\ Len(e) = n
                 /\ \A i \in 1..n : IsShareOf(e[i], DifferFirst(A, B, i), prime)
    BY <1>1, <2>1 DEF AtBitwiseLessThan
  <2>4. PICK m, c : m = Results[1] /\ c = PrefixOperation(m, "ShareAddition")
    OBVIOUS
  <2>5. EachIs(m, bs, e, "ShareMultiplication", prime)
    <3>1. Meets(BitwiseOperation(bs, e, "ShareMultiplication"), m, prime)
      BY <2>1, <2>3, <2>4 DEF Met
    <3> QED BY <3>1, SequencesBring
  <2>6. m \in Seq(Shares(prime)) /\ Len(m) = n
    BY <2>2, <2>5 DEF EachIs
  <2>7. ASSUME NEW i \in 1..n
        PROVE IsShareOf(m[i], Decides(A, B, i, bs[i].value), prime)
    <3>1. PICK s, t : s = bs[i] /\ t = e[i]
      OBVIOUS
    <3>2. m[i] \in Shares(prime) /\ m[i].value = (s.value * t.value) % prime
      <4>1. Promised(Call("ShareMultiplication", <<s, t>>), prime) = (s.value * t.value) % prime
        BY PromisedOperations
      <4>2. IsShareOf(m[i], Promised(Call("ShareMultiplication", <<s, t>>), prime), prime)
        BY <2>2, <2>5, <3>1 DEF EachIs
      <4> QED BY <4>1, <4>2 DEF IsShareOf
    <3>3. PICK x \in {0, 1}, y \in {0, 1} :
            x = s.value /\ y = t.value /\ y = DifferFirst(A, B, i)
      <4>1. s.value \in {0, 1}
        BY <2>2, <3>1, BitsAreShares
      <4>2. t.value = DifferFirst(A, B, i)
        BY <2>3, <3>1 DEF IsShareOf
      <4>3. t.value \in {0, 1}
        BY <4>2 DEF DifferFirst, Truth
      <4> QED BY <4>1, <4>2, <4>3
    <3>4. (x * y) % prime = x * y
      BY <1>0, BitSums
    <3>5. x * y = IF x = 1 /\ y = 1 THEN 1 ELSE 0
      OBVIOUS
    <3> QED BY <3>1, <3>2, <3>3, <3>4, <3>5 DEF IsShareOf, DifferFirst, Decides, Truth
  <2>8. Proper(c, prime)
    <3>1. Len(m) > 0
      BY <2>2, <2>6
    <3> QED BY <2>4, <2>6, <3>1, PrefixOperationIs
  <2>9. ExecuteIn(4, <<c>>, Fields)
    BY <1>4, <2>2, <2>4 DEF Execute
  <2>10. PICK calls : calls = <<c>>
    OBVIOUS
  <2>11. IsBatch(calls, prime)
    <3>1. IsBatch(<<c>>, prime)
      BY <2>8, Batches
    <3> QED BY <2>10, <3>1
  <2>12. AtBitwiseLessThan(Top.call.args, 4, Fields, calls, prime)
    BY <1>1, <2>4, <2>6, <2>7, <2>10 DEF AtBitwiseLessThan, Args
  <2>13. At(Top.call, 4, Fields, calls, prime)
    BY <2>2, <2>12 DEF At
  <2> QED BY <2>2, <2>9, <2>10, <2>11, <2>13, ExecuteStays
<1>5. CASE Handling("BitwiseLessThan", 4) /\ Complete(Results[1][1])
  <2>1. PICK batch : AtBitwiseLessThan(Args, 4, Fields, batch, prime) /\ Met(batch, Results, prime)
    BY <1>5, BitwiseLessThanKnows
  <2>2. /\ stack # <<>> /\ Top.call.protocol = "BitwiseLessThan"
        /\ AreNumbers(A, B, u, v, n) /\ Promised(Top.call, prime) = Truth(A[1] < B[1])
    BY <1>1, <1>5, BitwiseLessThanKnows
  <2>3. PICK m : /\ batch = <<PrefixOperation(m, "ShareAddition")>> /\ Len(m) = n
                 /\ \A i \in 1..n : IsShareOf(m[i], Decides(A, B, i, bs[i].value), prime)
    BY <1>1, <2>1 DEF AtBitwiseLessThan
  <2>4. PICK s, r : s = Results[1] /\ r = s[1]
    OBVIOUS
  <2>5. PrefixIs(s, m, "ShareAddition", prime)
    <3>1. Meets(PrefixOperation(m, "ShareAddition"), s, prime)
      BY <2>1, <2>3, <2>4 DEF Met
    <3> QED BY <3>1, SequencesBring
  <2>6. \A i \in 1..n : IsShareOf(m[i], Decides(A, B, i, v[i]), prime)
    BY <1>2, <2>3
  <2>7. IsShareOf(r, Promised(Top.call, prime), prime)
    <3>1. Len(m) = n /\ AreNumbers(A, B, u, v, n)
      BY <2>2, <2>3
    <3>2. IsShareOf(s[1], Truth(A[1] < B[1]), prime)
      BY ONLY <1>0, <3>1, <2>5, <2>6, SumsDecide
    <3> QED BY <2>2, <2>4, <3>2
  <2>8. Top.call.protocol \in Functional
    BY <2>2 DEF Functional
  <2> QED BY <1>5, <2>2, <2>4, <2>7, <2>8, CompletesWith
<1> QED
  BY <1>3, <1>4, <1>5, BitwiseLessThanFirstStages DEF HandleBitwiseLessThan

-----------------------------------------------------------------------------
(***************************************************************************)
(* Each step of a gate keeps what is promised.                             *)
(***************************************************************************)

\* A protocol that launches no others.
LEMMA RunLeafStays ==
  ASSUME GateOK, RunLeaf
  PROVE  GateOK'
<1>1. PICK c : c = Head(Top.todo)
  OBVIOUS
<1>2. /\ stack # <<>> /\ Top.todo # <<>> /\ IsLeaf(c) /\ stack' = Answered(stack, LeafResult(c))
      /\ UNCHANGED <<prime, inputs, outcome>>
  BY <1>1 DEF RunLeaf, Launching
<1>3. Proper(c, prime) /\ IsPrime(prime)
  <2>1. FrameOK(Top, prime) /\ IsPrime(prime)
    BY <1>2, TopIs
  <2>2. PICK batch : InProgress(Top, batch, prime)
    BY <2>1 DEF FrameOK
  <2> QED BY <1>1, <1>2, <2>1, <2>2, Answers
<1>4. Meets(c, LeafResult(c), prime)
  BY <1>2, <1>3, LeafMeets
<1> QED
  BY <1>1, <1>2, <1>4, AnsweredStays

\* Any random number will do.
LEMMA GenerateRandomStays ==
  ASSUME GateOK, GenerateRandom
  PROVE  GateOK'
<1>1. PICK v \in 0..(prime - 1) : stack' = Answered(stack, SecretShare(v))
  BY DEF GenerateRandom
<1>2. /\ stack # <<>> /\ Top.todo # <<>> /\ Head(Top.todo) = RandGen
      /\ UNCHANGED <<prime, inputs, outcome>>
  BY DEF GenerateRandom, Launching
<1>3. prime \in Nat \ {0}
  BY PrimesAreOdd DEF GateOK
<1>4. PICK s : s = SecretShare(v)
  OBVIOUS
<1>5. s \in SecretShares(prime)
  BY <1>3, <1>4, ConstantIs
<1>6. Meets(RandGen, s, prime)
  BY <1>5 DEF Meets, RandGen, Call, Functional
<1> QED
  BY <1>1, <1>2, <1>4, <1>6, AnsweredStays

\* What a protocol launches at its start is proper and for its first stage.
LEMMA StartProtocolStays ==
  ASSUME GateOK, StartProtocol
  PROVE  GateOK'
<1>1. PICK c : c = Head(Top.todo)
  OBVIOUS
<1>2. /\ stack # <<>> /\ Top.todo # <<>> /\ ~IsLeaf(c) /\ c # RandGen
      /\ stack' = <<Frame(c)>> \o stack /\ UNCHANGED <<prime, inputs, outcome>>
  BY <1>1 DEF StartProtocol, Launching
<1>3. Proper(c, prime) /\ IsPrime(prime)
  <2>1. FrameOK(Top, prime) /\ IsPrime(prime)
    BY <1>2, TopIs
  <2>2. PICK batch : InProgress(Top, batch, prime)
    BY <2>1 DEF FrameOK
  <2> QED BY <1>1, <1>2, <2>1, <2>2, Answers
<1>4. StartsWell(c)
  BY <1>2, <1>3, StartIs
<1>5. IsBatch(Launched(c), prime) /\ At(c, 0, <<>>, Launched(c), prime)
  BY <1>4 DEF StartsWell
<1> QED
  BY <1>1, <1>2, <1>5, StartStays

\* The prime and what is compared stay.
LEMMA InputsStay ==
  ASSUME Next
  PROVE  prime' = prime /\ inputs' = inputs
BY DEF Next, RunLeaf, GenerateRandom, StartProtocol, HandleCompareAndSwap,
   HandleTaggedCompareAndSwap, HandleConditionalSwap, HandleLessThan, HandleLessThanHalfPrime,
   HandleLeastSignificantBit, HandleRandomBitwiseGen, HandleRandomBitGen, HandleBitwiseLessThan,
   HandleBitwiseOperation, HandlePrefixOperation, HandleSharedBitXor, HandleSharedBitOr,
   Execute, ExecuteIn, Complete

GateInv == GateOK /\ InputsOK

\* Every step of the gate keeps the invariant.
LEMMA GateStays ==
  ASSUME GateInv, [Next]_vars
  PROVE  GateInv'
<1>1. CASE Next
  <2>1. GateOK'
    BY <1>1, RunLeafStays, GenerateRandomStays, StartProtocolStays, CompareAndSwapStays,
       TaggedCompareAndSwapStays, ConditionalSwapStays, LessThanStays, LessThanHalfPrimeStays,
       LeastSignificantBitStays, RandomBitwiseGenStays, RandomBitGenStays, BitwiseLessThanStays,
       BitwiseOperationStays, PrefixOperationStays, XorStays, OrStays
    DEF Next, GateInv
  <2>2. prime' = prime /\ inputs' = inputs
    BY <1>1, InputsStay
  <2> QED BY <2>1, <2>2 DEF GateInv, InputsOK
<1>2. CASE UNCHANGED vars
  <2>1. prime' = prime /\ inputs' = inputs /\ stack' = stack /\ outcome' = outcome
    BY <1>2 DEF vars
  <2> QED BY <2>1 DEF GateInv, GateOK, StackOK, InputsOK, Asked, Untagged
<1> QED
  BY <1>1, <1>2

-----------------------------------------------------------------------------

\* A gate begins well with proper inputs.
LEMMA GateBegins ==
  ASSUME IsPrime(prime), NEW c, c = Asked, Proper(c, prime), ~IsLeaf(c), c # RandGen,
         stack = <<Frame(c)>>, outcome = <<>>
  PROVE  GateOK
<1>1. StartsWell(c)
  BY StartIs
<1>2. PICK f : f = Frame(c)
  OBVIOUS
<1>3. FrameOK(f, prime) /\ f.call = c
  <2>1. PICK batch : batch = Launched(c) /\ IsBatch(batch, prime) /\ At(c, 0, <<>>, batch, prime)
    BY <1>1 DEF StartsWell
  <2>2. f = [call |-> c, stage |-> 0, fields |-> <<>>, todo |-> batch, results |-> <<>>]
    BY <1>2, <2>1 DEF Frame
  <2>3. InProgress(f, batch, prime)
    BY <2>1, <2>2, Launches
  <2>4. f.call = c /\ f.stage = 0 /\ f.fields = <<>>
    BY <2>2
  <2> QED BY <2>1, <2>3, <2>4 DEF FrameOK
<1>4. stack \in Seq({f}) /\ Len(stack) = 1 /\ stack[1] = f /\ stack # <<>>
  BY <1>2
<1>5. stack[Len(stack)].call = Asked /\ outcome = <<>>
  BY <1>3, <1>4
<1>6. \A i \in 1..Len(stack) : FrameOK(stack[i], prime)
  BY <1>3, <1>4
<1>7. \A i \in 1..(Len(stack) - 1) :
        stack[i + 1].todo # <<>> /\ Head(stack[i + 1].todo) = stack[i].call
  BY <1>4
<1> QED
  BY <1>4, <1>5, <1>6, <1>7 DEF GateOK, StackOK

\* The gate is called with two shares, with tags or without.
LEMMA InitIs ==
  ASSUME \A p \in Primes : IsPrime(p), Init
  PROVE  GateInv
<1>1. IsPrime(prime) /\ prime \in Nat \ {0} /\ prime > 2 /\ outcome = <<>>
  BY PrimesAreOdd DEF Init
<1>2. PICK a, b \in 0..(prime - 1) :
        \/ /\ inputs = <<<<SecretShare(a)>>, <<SecretShare(b)>>>>
           /\ stack = <<Frame(Call("CompareAndSwap", <<inputs[1][1], inputs[2][1]>>))>>
        \/ /\ inputs = <<<<SecretShare(a), SecretShare(1)>>, <<SecretShare(b), SecretShare(2)>>>>
           /\ stack = <<Frame(Call("TaggedCompareAndSwap", inputs))>>
  BY DEF Init
<1>3. PICK s, t, one, two : /\ s = SecretShare(a) /\ t = SecretShare(b)
                            /\ one = SecretShare(1) /\ two = SecretShare(2)
  OBVIOUS
<1>4. /\ s \in Shares(prime) /\ t \in Shares(prime)
      /\ one \in Shares(prime) /\ two \in Shares(prime)
  <2>1. 1 \in 0..(prime - 1) /\ 2 \in 0..(prime - 1)
    BY <1>1
  <2> QED BY <1>1, <1>3, <2>1, ConstantIs
<1>5. CASE /\ inputs = <<<<SecretShare(a)>>, <<SecretShare(b)>>>>
           /\ stack = <<Frame(Call("CompareAndSwap", <<inputs[1][1], inputs[2][1]>>))>>
  <2>1. inputs = <<<<s>>, <<t>>>>
    BY <1>3, <1>5
  <2>2. inputs[1] = <<s>> /\ inputs[2] = <<t>> /\ Len(inputs) = 2
    BY <2>1
  <2>3. /\ inputs[1] \in Seq(Shares(prime)) /\ Len(inputs[1]) = 1 /\ inputs[1][1] = s
        /\ inputs[2] \in Seq(Shares(prime)) /\ Len(inputs[2]) = 1 /\ inputs[2][1] = t
    BY <1>4, <2>2
  <2>4. InputsOK
    BY <2>2, <2>3 DEF InputsOK
  <2>5. PICK c : c = Call("CompareAndSwap", <<s, t>>)
    OBVIOUS
  <2>6. Asked = c /\ stack = <<Frame(c)>>
    BY <1>5, <2>3, <2>5 DEF Asked, Untagged
  <2>7. c.protocol = "CompareAndSwap" /\ c.args = <<s, t>>
    BY <2>5 DEF Call
  <2>8. Proper(c, prime)
    <3>1. TwoOf(c.args, Shares(prime))
      BY <1>4, <2>7 DEF TwoOf
    <3> QED BY <2>7, <3>1 DEF Proper, Functional
  <2>9. ~IsLeaf(c) /\ c # RandGen
    BY <2>7 DEF IsLeaf, RandGen, Call
  <2> QED BY <1>1, <2>4, <2>6, <2>8, <2>9, GateBegins DEF GateInv
<1>6. CASE /\ inputs = <<<<SecretShare(a), SecretShare(1)>>, <<SecretShare(b), SecretShare(2)>>>>
           /\ stack = <<Frame(Call("TaggedCompareAndSwap", inputs))>>
  <2>1. inputs = <<<<s, one>>, <<t, two>>>>
    BY <1>3, <1>6
  <2>2. inputs[1] = <<s, one>> /\ inputs[2] = <<t, two>> /\ Len(inputs) = 2
    BY <2>1
  <2>3. /\ inputs[1] \in Seq(Shares(prime)) /\ Len(inputs[1]) = 2
        /\ inputs[2] \in Seq(Shares(prime)) /\ Len(inputs[2]) = 2
    BY <1>4, <2>2
  <2>4. InputsOK
    BY <2>2, <2>3 DEF InputsOK
  <2>5. PICK c : c = Call("TaggedCompareAndSwap", inputs)
    OBVIOUS
  <2>6. Asked = c /\ stack = <<Frame(c)>>
    BY <1>6, <2>3, <2>5 DEF Asked, Untagged
  <2>7. c.protocol = "TaggedCompareAndSwap" /\ c.args = inputs
    BY <2>5 DEF Call
  <2>8. Proper(c, prime)
    <3>1. TwoOf(c.args[1], Shares(prime)) /\ TwoOf(c.args[2], Shares(prime))
      BY <2>3, <2>7 DEF TwoOf
    <3> QED BY <2>7, <3>1 DEF Proper, Functional
  <2>9. ~IsLeaf(c) /\ c # RandGen
    BY <2>7 DEF IsLeaf, RandGen, Call
  <2> QED BY <1>1, <2>4, <2>6, <2>8, <2>9, GateBegins DEF GateInv
<1> QED
  BY <1>2, <1>5, <1>6

-----------------------------------------------------------------------------
(***************************************************************************)
(* What follows from the invariant.                                        *)
(***************************************************************************)

\* All that is still to do is proper.
LEMMA ToDoIsProper ==
  ASSUME NEW p, NEW f, NEW batch, InProgress(f, batch, p)
  PROVE  \A i \in DOMAIN f.todo : Proper(f.todo[i], p)
<1>1. PICK S : batch \in Seq(S)
  BY DEF InProgress, IsBatch
<1>5. PICK R : f.results \in Seq(R)
  BY DEF InProgress
<1>6. PICK k \in Nat, n \in Nat : k = Len(f.results) /\ n = Len(batch)
  BY <1>1, <1>5
<1>7. k <= n /\ f.todo = SubSeq(batch, k + 1, n)
  BY <1>6 DEF InProgress
<1>2. PICK q : q = SubSeq(batch, k + 1, n)
  OBVIOUS
<1>3. q \in Seq(S) /\ Len(q) = n - k /\ \A i \in 1..(n - k) : q[i] = batch[k + i]
  <2>1. batch \in Seq(S) /\ n = Len(batch) /\ k <= n /\ n \in Nat /\ k \in Nat
    BY <1>1, <1>6, <1>7
  <2>2. /\ SubSeq(batch, k + 1, n) \in Seq(S) /\ Len(SubSeq(batch, k + 1, n)) = n - k
        /\ \A i \in 1..(n - k) : SubSeq(batch, k + 1, n)[i] = batch[k + i]
    BY ONLY <2>1
  <2> QED BY <1>2, <2>2
<1>4. ASSUME NEW i \in DOMAIN q PROVE Proper(q[i], p)
  <2>1. i \in 1..(n - k)
    BY <1>3, LenProperties
  <2>2. k + i \in 1..n /\ q[i] = batch[k + i]
    BY <1>3, <2>1
  <2> QED BY <1>6, <2>2 DEF InProgress, IsBatch
<1> QED
  BY <1>2, <1>4, <1>7

\* A call is proper only with reduced shares.
LEMMA SharesAreReducedHolds ==
  ASSUME GateInv
  PROVE  SharesAreReduced
<1>1. SUFFICES
        ASSUME stack # <<>>, NEW i \in DOMAIN Top.todo, NEW c, c = Top.todo[i],
               c.protocol \in {"ShareAddition", "ShareMultiplication", "Reconstruction"},
               NEW k \in DOMAIN c.args
        PROVE  c.args[k].degree <= 1 /\ (c.args[k].isPublic <=> c.args[k].degree = 0)
  BY DEF SharesAreReduced
<1>2. FrameOK(Top, prime) /\ prime \in Nat \ {0}
  BY <1>1, TopIs, PrimesAreOdd DEF GateInv
<1>3. Proper(c, prime)
  <2>1. PICK batch : InProgress(Top, batch, prime)
    BY <1>2 DEF FrameOK
  <2> QED BY <1>1, <2>1, ToDoIsProper
<1>4. c.args \in Seq(Shares(prime))
  BY <1>1, <1>3 DEF Proper, TwoOf
<1>5. PICK s : s = c.args[k]
  OBVIOUS
<1>6. s \in Shares(prime)
  BY <1>1, <1>4, <1>5, ElementOfSeq, LenProperties
<1>7. s.degree <= 1 /\ (s.isPublic <=> s.degree = 0)
  <2>1. CASE s \in PublicShares(prime)
    <3>1. s.degree = 0 /\ s.isPublic = TRUE
      BY <2>1, KindsOfShares, Flags, Zenon
    <3>2. s.degree <= 1
      BY <3>1
    <3> QED BY <3>1, <3>2, Zenon
  <2>2. CASE s \in SecretShares(prime)
    <3>1. s.degree = 1 /\ s.isPublic = FALSE
      BY <2>2, KindsOfShares, Flags, Zenon
    <3>2. s.degree <= 1 /\ s.degree # 0
      BY <3>1
    <3> QED BY <3>1, <3>2, Zenon
  <2> QED BY <1>6, <2>1, <2>2 DEF Shares
<1> QED
  BY <1>5, <1>7, Zenon

\* A call of a protocol for bits is proper only with bits.
LEMMA BitsAreBitsHolds ==
  ASSUME GateInv
  PROVE  BitsAreBits
<1>1. SUFFICES ASSUME stack # <<>>
      PROVE  /\ Top.call.protocol \in {"SharedBitOr", "SharedBitXor"} => AreBits(Args)
             /\ Top.call.protocol = "BitwiseLessThan" =>
                  Len(Args[1]) = Len(Args[2]) /\ AreBits(Args[1]) /\ AreBits(Args[2])
  BY DEF BitsAreBits
<1>2. Proper(Top.call, prime)
  BY <1>1, TopIs DEF GateInv
<1>3. ASSUME NEW bits \in Seq(Bits(prime)) PROVE AreBits(bits)
  <2>1. \A i \in DOMAIN bits : bits[i] \in Bits(prime)
    BY ElementOfSeq, LenProperties
  <2> QED BY <2>1 DEF AreBits, Value, Bits
<1>4. Top.call.protocol \in {"SharedBitOr", "SharedBitXor"} => Args \in Seq(Bits(prime))
  BY <1>2 DEF Proper, Args, TwoOf
<1>5. Top.call.protocol = "BitwiseLessThan" =>
        /\ Args[1] \in Seq(Bits(prime)) /\ Args[2] \in Seq(Bits(prime))
        /\ Len(Args[1]) = Len(Args[2])
  BY <1>2 DEF Proper, Args
<1> QED
  BY <1>3, <1>4, <1>5

\* Two values that are arranged by whether the first one is less are in order.
LEMMA ArrangedInOrder ==
  ASSUME NEW p \in Nat \ {0}, NEW s \in Shares(p), NEW t \in Shares(p), NEW r1, NEW r2,
         NEW less, less = Truth(s.value < t.value), Arranged(r1, r2, s, t, less, p)
  PROVE  /\ r1.value <= r2.value
         /\ less = 1 => r1.value = s.value /\ r2.value = t.value
         /\ less # 1 => r1.value = t.value /\ r2.value = s.value
<1>1. s.value \in Int /\ t.value \in Int
  BY SharesAre
<1> QED
  BY <1>1 DEF Arranged, IsShareOf, Truth

\* The result of the gate meets what is promised: its inputs, in order.
LEMMA PutInOrderHolds ==
  ASSUME GateInv
  PROVE  PutInOrder
<1>0. prime \in Nat \ {0}
  BY PrimesAreOdd DEF GateInv, GateOK
<1>1. SUFFICES ASSUME outcome # <<>>
      PROVE  /\ Output(1)[1] <= Output(2)[1]
             /\ \/ Output(1) = Input(1) /\ Output(2) = Input(2)
                \/ Output(1) = Input(2) /\ Output(2) = Input(1)
  BY DEF PutInOrder
<1>2. Meets(Asked, outcome, prime)
  BY <1>1 DEF GateInv, GateOK, StackOK
<1>3. CASE /\ Len(inputs) = 2
           /\ \A i \in {1, 2} : inputs[i] \in Seq(Shares(prime)) /\ Len(inputs[i]) = 1
  <2>1. PICK s, t : s = inputs[1][1] /\ t = inputs[2][1]
    OBVIOUS
  <2>2. inputs[1] = <<s>> /\ inputs[2] = <<t>> /\ s \in Shares(prime) /\ t \in Shares(prime)
    BY <1>3, <2>1
  <2>3. Untagged
    BY <1>3 DEF Untagged
  <2>4. PICK less : less = Truth(s.value < t.value)
    OBVIOUS
  <2>5. Arranged(outcome[1], outcome[2], s, t, less, prime)
    <3>1. PICK c : c = Asked
      OBVIOUS
    <3>2. c.protocol = "CompareAndSwap" /\ c.args[1] = s /\ c.args[2] = t
      BY <2>1, <2>3, <3>1 DEF Asked, Call
    <3>3. Meets(c, outcome, prime)
      BY <1>2, <3>1
    <3> QED BY <2>4, <3>2, <3>3 DEF Meets
  <2>6. PICK x, y : x = outcome[1].value /\ y = outcome[2].value
    OBVIOUS
  <2>7. /\ x <= y
        /\ less = 1 => x = s.value /\ y = t.value
        /\ less # 1 => x = t.value /\ y = s.value
    BY <1>0, <2>2, <2>4, <2>5, <2>6, ArrangedInOrder
  <2>8. Output(1) = <<x>> /\ Output(2) = <<y>>
    BY <2>3, <2>6 DEF Output, Value
  <2>9. Input(1) = <<s.value>> /\ Input(2) = <<t.value>>
    <3>1. DOMAIN inputs[1] = {1} /\ DOMAIN inputs[2] = {1}
      BY <2>2
    <3>2. Input(1) = [k \in {1} |-> s.value] /\ Input(2) = [k \in {1} |-> t.value]
      BY <2>1, <3>1 DEF Input, Value
    <3> QED BY <3>2
  <2> QED BY <2>7, <2>8, <2>9
<1>4. CASE /\ Len(inputs) = 2
           /\ \A i \in {1, 2} : inputs[i] \in Seq(Shares(prime)) /\ Len(inputs[i]) = 2
  <2>1. PICK s, t, sTag, tTag : /\ s = inputs[1][1] /\ sTag = inputs[1][2]
                                /\ t = inputs[2][1] /\ tTag = inputs[2][2]
    OBVIOUS
  <2>2. /\ inputs[1] = <<s, sTag>> /\ inputs[2] = <<t, tTag>>
        /\ s \in Shares(prime) /\ t \in Shares(prime)
    BY <1>4, <2>1
  <2>3. ~Untagged
    BY <1>4 DEF Untagged
  <2>4. PICK less : less = Truth(s.value < t.value)
    OBVIOUS
  <2>5. /\ Arranged(outcome[1][1], outcome[2][1], s, t, less, prime)
        /\ Arranged(outcome[1][2], outcome[2][2], sTag, tTag, less, prime)
    <3>1. PICK c : c = Asked
      OBVIOUS
    <3>2. c.protocol = "TaggedCompareAndSwap" /\ c.args = inputs
      BY <2>3, <3>1 DEF Asked, Call
    <3>3. Meets(c, outcome, prime)
      BY <1>2, <3>1
    <3>4. \A k \in {1, 2} : Arranged(outcome[1][k], outcome[2][k], inputs[1][k], inputs[2][k],
                                     Truth(inputs[1][1].value < inputs[2][1].value), prime)
      BY <3>2, <3>3 DEF Meets
    <3> QED BY <2>1, <2>4, <3>4
  <2>6. PICK x, y, xTag, yTag : /\ x = outcome[1][1].value /\ xTag = outcome[1][2].value
                                /\ y = outcome[2][1].value /\ yTag = outcome[2][2].value
    OBVIOUS
  <2>7. /\ x <= y
        /\ less = 1 => x = s.value /\ y = t.value
        /\ less # 1 => x = t.value /\ y = s.value
    BY <1>0, <2>2, <2>4, <2>5, <2>6, ArrangedInOrder
  <2>8. /\ less = 1 => xTag = sTag.value /\ yTag = tTag.value
        /\ less # 1 => xTag = tTag.value /\ yTag = sTag.value
    BY <2>5, <2>6 DEF Arranged, IsShareOf
  <2>9. Output(1) = [k \in 1..2 |-> IF k = 1 THEN x ELSE xTag]
        /\ Output(2) = [k \in 1..2 |-> IF k = 1 THEN y ELSE yTag]
    BY <2>3, <2>6 DEF Output, Value
  <2>10. Input(1) = [k \in 1..2 |-> IF k = 1 THEN s.value ELSE sTag.value]
         /\ Input(2) = [k \in 1..2 |-> IF k = 1 THEN t.value ELSE tTag.value]
    <3>1. DOMAIN inputs[1] = 1..2 /\ DOMAIN inputs[2] = 1..2
      BY <2>2
    <3> QED BY <2>1, <3>1 DEF Input, Value
  <2>11. Output(1)[1] = x /\ Output(2)[1] = y
    BY <2>9
  <2>12. CASE less = 1
    BY <2>7, <2>8, <2>9, <2>10, <2>11, <2>12
  <2>13. CASE less # 1
    BY <2>7, <2>8, <2>9, <2>10, <2>11, <2>13
  <2> QED BY <2>12, <2>13
<1> QED
  BY <1>3, <1>4 DEF GateInv, InputsOK

-----------------------------------------------------------------------------

\* For every prime field and all inputs, what a gate does is in order.
THEOREM GateSafe ==
  ASSUME PrimesAssumption
  PROVE  Spec => [](GateInv /\ PutInOrder /\ BitsAreBits /\ SharesAreReduced)
<1>1. Init => GateInv
  BY InitIs DEF PrimesAssumption, IsPrime
<1>2. GateInv /\ [Next]_vars => GateInv'
  BY GateStays
<1>3. GateInv => PutInOrder /\ BitsAreBits /\ SharesAreReduced
  BY PutInOrderHolds, BitsAreBitsHolds, SharesAreReducedHolds
<1> QED
  BY <1>1, <1>2, <1>3, PTL DEF Spec
=============================================================================

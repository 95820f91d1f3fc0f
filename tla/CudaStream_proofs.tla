-------------------------- MODULE CudaStream_proofs --------------------------
(***************************************************************************)
(* For any number of blocks, bits per block, codes, word size and grid:    *)
(* kernels access allocated words only; the stream that the host gets is   *)
(* the serial one, however the steps of threads that share a word are      *)
(* interleaved; and decoding reads back what was written.                  *)
(*                                                                         *)
(* The last two are of SafeJobs: where the words of three dimensions are   *)
(* all copied, and where threads of the Metal back end that store whole    *)
(* words share none (TLC refutes SerialStream for other jobs).             *)
(*                                                                         *)
(* The argument has three parts.  Control says where every thread is: its  *)
(* bits are within its block, and so its word, and the next one, within    *)
(* what is allocated.  Encoding says what the device's words hold: of each *)
(* block the bits that its thread has stored, and zeros ahead of them, so  *)
(* that an addition never carries and a word that is loaded is zero.       *)
(* Copied, Delivered and ReadsBack follow the stream to the host, back to  *)
(* a device and through the readers.                                       *)
(***************************************************************************)
EXTENDS CudaStream, WellFoundedInduction, TLAPS

-----------------------------------------------------------------------------
\* Natural numbers.

\* Division with remainder by a positive divisor.
LEMMA DivMod ==
  ASSUME NEW n \in Nat, NEW d \in Nat \ {0}
  PROVE  /\ n \div d \in Nat
         /\ n % d \in 0 .. (d - 1)
         /\ n = d * (n \div d) + (n % d)
  OBVIOUS

\* Quotient and remainder are determined by the equation they satisfy.
LEMMA DivModUnique ==
  ASSUME NEW d \in Nat \ {0}, NEW q \in Nat, NEW r \in 0 .. (d - 1)
  PROVE  (d * q + r) \div d = q /\ (d * q + r) % d = r
<1> DEFINE n == d * q + r
           p == n \div d
           t == n % d
<1>1. n \in Nat
  OBVIOUS
<1>2. p \in Nat /\ t \in 0 .. (d - 1) /\ n = d * p + t
  BY <1>1, DivMod
<1>3. d * q + r = d * p + t
  BY <1>2
<1> HIDE DEF n, p, t
<1>4. p = q
  <2>1. CASE p < q
    <3>1. d * p + d <= d * q
      BY <1>2, <2>1
    <3> QED
      BY <1>2, <1>3, <3>1
  <2>2. CASE q < p
    <3>1. d * q + d <= d * p
      BY <1>2, <2>2
    <3> QED
      BY <1>2, <1>3, <3>1
  <2> QED
    BY <1>2, <2>1, <2>2
<1>5. t = r
  BY <1>2, <1>3, <1>4
<1> QED
  BY <1>4, <1>5 DEF n, p, t

\* A set of natural numbers that is not empty has a least element.
LEMMA LeastElement ==
  ASSUME NEW T \in SUBSET Nat, T # {}
  PROVE  \E n \in T : \A m \in T : n <= m
<1> DEFINE R == OpToRel(<, Nat)
<1>1. IsWellFoundedOn(R, Nat)
  BY NatLessThanWellFounded
<1>2. \A x, y \in Nat : x < y => <<x, y>> \in R
  BY DEF OpToRel
<1> HIDE DEF R
<1>3. PICK n \in T : \A m \in T : ~ (<<m, n>> \in R)
  BY <1>1, WFMin
<1>4. ASSUME NEW m \in T
      PROVE  n <= m
  <2>1. m \in Nat /\ n \in Nat /\ ~ (m < n)
    BY <1>2, <1>3
  <2> QED
    BY <2>1
<1> QED
  BY <1>4

\* A set that holds 0, and with n also n + 1, holds every number.
LEMMA SetInduction ==
  ASSUME NEW T \in SUBSET Nat, 0 \in T, \A n \in T : n + 1 \in T
  PROVE  T = Nat
<1> SUFFICES ASSUME Nat \ T # {} PROVE FALSE
  OBVIOUS
<1>1. PICK n \in Nat \ T : \A m \in Nat \ T : n <= m
  BY LeastElement
<1>2. n - 1 \in T
  BY <1>1
<1> QED
  BY <1>1, <1>2

-----------------------------------------------------------------------------
\* Powers of two, and the bits of numbers.

\* The powers of two that occur.
LEMMA Powers ==
  /\ 2 ^ 0 = 1
  /\ \A k \in 0 .. wsize : 2 ^ k \in Nat /\ 2 ^ k > 0
  /\ \A k \in 0 .. (wsize - 1) : k + 1 \in 0 .. wsize /\ 2 ^ (k + 1) = 2 * 2 ^ k
  BY PowerAssumption, StreamAssumption

\* Exponents add.
LEMMA PowerSum ==
  ASSUME NEW i \in 0 .. wsize, NEW j \in 0 .. wsize, i + j <= wsize
  PROVE  2 ^ (i + j) = 2 ^ i * 2 ^ j
<1> DEFINE T == {n \in Nat : i + n <= wsize => 2 ^ (i + n) = 2 ^ i * 2 ^ n}
<1>1. wsize \in Nat
  BY StreamAssumption
<1>2. 0 \in T
  BY <1>1, Powers
<1>3. ASSUME NEW n \in T
      PROVE  n + 1 \in T
  <2>1. CASE i + (n + 1) <= wsize
    <3>1. i + n \in 0 .. (wsize - 1) /\ n \in 0 .. (wsize - 1) /\ i + (n + 1) = (i + n) + 1
      BY <1>1, <2>1
    <3>2. 2 ^ (i + (n + 1)) = 2 * 2 ^ (i + n) /\ 2 ^ (n + 1) = 2 * 2 ^ n
      BY <3>1, Powers
    <3>3. 2 ^ (i + n) = 2 ^ i * 2 ^ n
      BY <1>1, <3>1
    <3>4. 2 ^ i \in Nat /\ 2 ^ n \in Nat
      BY <3>1, Powers
    <3>5. 2 * (2 ^ i * 2 ^ n) = 2 ^ i * (2 * 2 ^ n)
      BY <3>4
    <3> QED
      BY <3>2, <3>3, <3>5
  <2>2. CASE ~ (i + (n + 1) <= wsize)
    BY <2>2
  <2> QED
    BY <2>1, <2>2
<1>4. T = Nat
  <2>1. T \in SUBSET Nat
    OBVIOUS
  <2> HIDE DEF T
  <2> QED
    BY <1>2, <1>3, <2>1, SetInduction
<1> QED
  BY <1>1, <1>4

\* Two divisions are one.
LEMMA DivDiv ==
  ASSUME NEW x \in Nat, NEW a \in Nat \ {0}, NEW b \in Nat \ {0}
  PROVE  /\ a * b \in Nat \ {0}
         /\ (x \div a) \div b = x \div (a * b)
<1> DEFINE q == x \div a
           r == x % a
           u == q \div b
           v == q % b
<1>1. q \in Nat /\ r \in 0 .. (a - 1) /\ x = a * q + r
  BY DivMod
<1>2. u \in Nat /\ v \in 0 .. (b - 1) /\ q = b * u + v
  <2> HIDE DEF q
  <2> QED
    BY <1>1, DivMod
<1> HIDE DEF q, r, u, v
<1>3. a * b \in Nat \ {0}
  OBVIOUS
<1>4. a * v \in Nat /\ a * v <= a * (b - 1) /\ a * (b - 1) = a * b - a
  BY <1>2
<1>5. a * v + r \in 0 .. (a * b - 1)
  BY <1>1, <1>3, <1>4
<1>6. x = (a * b) * u + (a * v + r)
  <2>1. a * (b * u + v) = (a * b) * u + a * v
    BY <1>2
  <2> QED
    BY <1>1, <1>2, <1>4, <2>1
<1>7. x \div (a * b) = u
  <2> DEFINE d == a * b
             s == a * v + r
  <2>1. d \in Nat \ {0} /\ s \in 0 .. (d - 1) /\ x = d * u + s
    BY <1>3, <1>5, <1>6
  <2> HIDE DEF d, s
  <2>2. x \div d = u
    BY <1>2, <2>1, DivModUnique
  <2> QED
    BY <2>2 DEF d
<1> QED
  BY <1>3, <1>7 DEF q, u

\* A word has bits.
LEMMA WordSize == wsize \in Nat /\ wsize > 0 /\ 0 \in 0 .. wsize /\ wsize \in 0 .. wsize
  BY StreamAssumption

\* A bit is zero or one.
LEMMA BitRange ==
  ASSUME NEW x \in Nat, NEW k \in 0 .. wsize
  PROVE  x \div 2 ^ k \in Nat /\ BitAt(x, k) \in {0, 1}
<1>1. 2 ^ k \in Nat \ {0}
  BY Powers
<1>2. x \div 2 ^ k \in Nat
  BY <1>1, DivMod
<1> QED
  BY <1>2, DivMod DEF BitAt

\* The bits of a quotient by a power are the higher bits.
LEMMA BitOfQuotient ==
  ASSUME NEW x \in Nat, NEW s \in 0 .. wsize, NEW j \in 0 .. wsize, s + j <= wsize
  PROVE  /\ (x \div 2 ^ s) \div 2 ^ j = x \div 2 ^ (s + j)
         /\ BitAt(x \div 2 ^ s, j) = BitAt(x, s + j)
<1>1. 2 ^ s \in Nat \ {0} /\ 2 ^ j \in Nat \ {0}
  BY Powers
<1>2. (x \div 2 ^ s) \div 2 ^ j = x \div (2 ^ s * 2 ^ j)
  BY <1>1, DivDiv
<1>3. 2 ^ s * 2 ^ j = 2 ^ (s + j)
  BY PowerSum
<1> QED
  BY <1>2, <1>3 DEF BitAt

\* z is put together of a below bit s and v from there on.
Joined(z, s, a, v) == s \in 0 .. wsize /\ a \in Nat /\ a < 2 ^ s /\ v \in Nat /\ z = a + v * 2 ^ s

\* The bits of a number of two parts are those of the parts.
LEMMA BitOfJoin ==
  ASSUME NEW z, NEW s, NEW a, NEW v, Joined(z, s, a, v), NEW j \in 0 .. (wsize - 1)
  PROVE  /\ z \in Nat
         /\ j < s => BitAt(z, j) = BitAt(a, j)
         /\ j >= s => BitAt(z, j) = BitAt(v, j - s)
         /\ z \div 2 ^ s = v
         /\ z % 2 ^ s = a
<1>0. s \in 0 .. wsize /\ a \in Nat /\ a < 2 ^ s /\ v \in Nat /\ z = a + v * 2 ^ s
  BY DEF Joined
<1>1. 2 ^ s \in Nat \ {0} /\ a \in 0 .. (2 ^ s - 1) /\ wsize \in Nat /\ j \in 0 .. wsize
  BY <1>0, Powers, WordSize
<1>2. z \in Nat /\ z = 2 ^ s * v + a
  BY <1>0, <1>1
<1>3. z \div 2 ^ s = v /\ z % 2 ^ s = a
  BY <1>0, <1>1, <1>2, DivModUnique
<1>4. ASSUME j >= s
      PROVE  BitAt(z, j) = BitAt(v, j - s)
  <2> DEFINE t == j - s
  <2>1. t \in 0 .. wsize /\ s + t = j /\ s + t <= wsize
    BY <1>0, <1>1, <1>4
  <2> HIDE DEF t
  <2>2. BitAt(z \div 2 ^ s, t) = BitAt(z, s + t)
    BY <1>0, <1>2, <2>1, BitOfQuotient
  <2> QED
    BY <1>3, <2>1, <2>2 DEF t
<1>5. ASSUME j < s
      PROVE  BitAt(z, j) = BitAt(a, j)
  <2> DEFINE t == s - (j + 1)
             p == a \div 2 ^ j
             r == a % 2 ^ j
             h == v * 2 ^ t
  <2>1. t \in 0 .. wsize /\ j + 1 \in 0 .. wsize /\ (j + 1) + t = s
    BY <1>0, <1>1, <1>5
  <2>2. 2 ^ j \in Nat \ {0} /\ 2 ^ t \in Nat \ {0} /\ 2 ^ (j + 1) = 2 * 2 ^ j
    BY <1>1, <2>1, Powers
  <2>3. 2 ^ s = (2 * 2 ^ j) * 2 ^ t
    <3>1. 2 ^ ((j + 1) + t) = 2 ^ (j + 1) * 2 ^ t
      <4> DEFINE k == j + 1
      <4>1. k \in 0 .. wsize /\ t \in 0 .. wsize /\ k + t <= wsize
        BY <1>0, <1>1, <2>1
      <4> HIDE DEF k, t
      <4>2. 2 ^ (k + t) = 2 ^ k * 2 ^ t
        BY <4>1, PowerSum
      <4> QED
        BY <4>2 DEF k
    <3> QED
      BY <2>1, <2>2, <3>1
  <2>4. p \in Nat /\ r \in 0 .. (2 ^ j - 1) /\ a = 2 ^ j * p + r
    BY <1>0, <2>2, DivMod
  <2>5. h \in Nat
    <3> HIDE DEF t
    <3> QED
      BY <1>0, <2>2
  <2> HIDE DEF p, r
  <2>6. z = 2 ^ j * (p + 2 * h) + r
    <3>1. v * ((2 * 2 ^ j) * 2 ^ t) = 2 ^ j * (2 * h)
      <4> HIDE DEF t
      <4> QED
        BY <1>0, <2>2
    <3>2. z = (2 ^ j * p + r) + 2 ^ j * (2 * h)
      <4> HIDE DEF t, h
      <4> QED
        BY <1>0, <1>2, <2>2, <2>3, <2>4, <3>1
    <3>3. 2 ^ j * (p + 2 * h) = 2 ^ j * p + 2 ^ j * (2 * h)
      <4> HIDE DEF t, h
      <4> QED
        BY <2>2, <2>4, <2>5
    <3> HIDE DEF t, h
    <3> QED
      BY <2>2, <2>4, <2>5, <3>2, <3>3
  <2> HIDE DEF t, h
  <2>7. z \div 2 ^ j = p + 2 * h
    <3>1. p + 2 * h \in Nat
      BY <2>4, <2>5
    <3> QED
      BY <2>2, <2>4, <2>6, <3>1, DivModUnique
  <2>8. (p + 2 * h) % 2 = p % 2
    BY <2>4, <2>5
  <2> QED
    BY <2>7, <2>8 DEF BitAt, p
<1> QED
  BY <1>2, <1>3, <1>4, <1>5

\* A number below a power has no bits above.
LEMMA NoHighBits ==
  ASSUME NEW s \in 0 .. wsize, NEW a \in Nat, a < 2 ^ s, NEW j \in s .. wsize
  PROVE  a \div 2 ^ j = 0 /\ BitAt(a, j) = 0
<1> DEFINE t == j - s
<1>1. wsize \in Nat /\ t \in 0 .. wsize /\ s + t = j /\ s + t <= wsize
  BY WordSize
<1> HIDE DEF t
<1>2. 2 ^ s \in Nat \ {0} /\ a \in 0 .. (2 ^ s - 1)
  BY Powers
<1>3. a = 2 ^ s * 0 + a /\ 0 \in Nat
  BY <1>2
<1>4. a \div 2 ^ s = 0
  BY <1>2, <1>3, DivModUnique
<1>5. 0 \div 2 ^ t = 0
  <2>1. 2 ^ t \in Nat \ {0}
    BY <1>1, Powers
  <2>2. 0 = 2 ^ t * 0 + 0 /\ 0 \in 0 .. (2 ^ t - 1)
    BY <2>1
  <2> QED
    BY <2>1, <2>2, DivModUnique
<1>6. a \div 2 ^ (s + t) = 0
  BY <1>1, <1>4, <1>5, BitOfQuotient, ZenonT(40)
<1>7. 0 % 2 = 0
  OBVIOUS
<1> QED
  BY <1>1, <1>6, <1>7 DEF BitAt

\* One more bit of a remainder.
LEMMA ModStep ==
  ASSUME NEW x \in Nat, NEW e \in 0 .. (wsize - 1)
  PROVE  x % 2 ^ (e + 1) = (x % 2 ^ e) + BitAt(x, e) * 2 ^ e
<1> DEFINE p == 2 ^ e
           q == x \div p
           r == x % p
           u == q \div 2
           v == q % 2
<1>1. p \in Nat \ {0} /\ 2 ^ (e + 1) = 2 * p
  BY Powers, WordSize
<1> HIDE DEF p
<1>2. q \in Nat /\ r \in 0 .. (p - 1) /\ x = p * q + r
  BY <1>1, DivMod
<1> HIDE DEF q, r
<1>3. u \in Nat /\ v \in {0, 1} /\ q = 2 * u + v
  BY <1>2, DivMod
<1> HIDE DEF u, v
<1>4. v * p \in Nat /\ v * p <= p
  BY <1>1, <1>3
<1>5. r + v * p \in 0 .. (2 * p - 1)
  <2>1. CASE v = 0
    BY <1>1, <1>2, <2>1
  <2>2. CASE v = 1
    BY <1>1, <1>2, <2>2
  <2> QED
    BY <1>3, <2>1, <2>2
<1>6. x = (2 * p) * u + (r + v * p)
  <2>1. p * (2 * u + v) = (2 * p) * u + v * p
    BY <1>1, <1>3
  <2>2. x = p * (2 * u + v) + r
    BY <1>2, <1>3
  <2>3. (2 * p) * u \in Nat
    BY <1>1, <1>3
  <2> QED
    BY <1>2, <1>4, <2>1, <2>2, <2>3
<1>7. x % (2 * p) = r + v * p
  <2> DEFINE d == 2 * p
             m == r + v * p
  <2>1. d \in Nat \ {0} /\ m \in 0 .. (d - 1) /\ x = d * u + m
    BY <1>1, <1>5, <1>6
  <2> HIDE DEF d, m
  <2>2. x % d = m
    BY <1>3, <2>1, DivModUnique
  <2> QED
    BY <2>2 DEF d, m
<1>8. BitAt(x, e) = v
  BY DEF BitAt, p, q, v
<1> QED
  BY <1>1, <1>7, <1>8 DEF r, p

\* Numbers with the same low bits have the same remainder, and those below a power are equal.
LEMMA BitsDetermine ==
  ASSUME NEW x \in Nat, NEW y \in Nat, NEW n \in 0 .. wsize,
         \A k \in 0 .. (n - 1) : BitAt(x, k) = BitAt(y, k)
  PROVE  /\ x % 2 ^ n = y % 2 ^ n
         /\ x < 2 ^ n /\ y < 2 ^ n => x = y
<1> DEFINE T == {e \in Nat : e <= n => x % 2 ^ e = y % 2 ^ e}
<1>1. wsize \in Nat
  BY WordSize
<1>2. 0 \in T
  <2>1. x % 1 = 0 /\ y % 1 = 0
    OBVIOUS
  <2> QED
    BY <2>1, Powers
<1>3. ASSUME NEW e \in T
      PROVE  e + 1 \in T
  <2>1. CASE e + 1 <= n
    <3>1. e \in 0 .. (n - 1) /\ e \in 0 .. (wsize - 1) /\ e <= n
      BY <1>1, <2>1
    <3>2. x % 2 ^ e = y % 2 ^ e /\ BitAt(x, e) = BitAt(y, e)
      BY <3>1
    <3>3. x % 2 ^ (e + 1) = y % 2 ^ (e + 1)
      BY <3>1, <3>2, ModStep
    <3> QED
      BY <3>3
  <2>2. CASE ~ (e + 1 <= n)
    BY <2>2
  <2> QED
    BY <2>1, <2>2
<1>4. T = Nat
  <2>1. T \in SUBSET Nat
    OBVIOUS
  <2> HIDE DEF T
  <2> QED
    BY <1>2, <1>3, <2>1, SetInduction
<1>5. x % 2 ^ n = y % 2 ^ n
  <2>1. n \in Nat /\ n <= n
    BY <1>1
  <2> QED
    BY <1>4, <2>1
<1>6. ASSUME x < 2 ^ n, y < 2 ^ n
      PROVE  x = y
  <2> DEFINE p == 2 ^ n
  <2>1. p \in Nat \ {0} /\ x \in 0 .. (p - 1) /\ y \in 0 .. (p - 1)
    BY <1>6, Powers
  <2>2. x % p = y % p
    BY <1>5
  <2> HIDE DEF p
  <2>3. x = p * 0 + x /\ y = p * 0 + y /\ 0 \in Nat
    BY <2>1
  <2>4. x % p = x /\ y % p = y
    BY <2>1, <2>3, DivModUnique
  <2> QED
    BY <2>2, <2>4
<1> QED
  BY <1>5, <1>6

\* Bits that are not set do not count.
LEMMA ZeroBits ==
  ASSUME NEW x \in Nat, NEW s \in 0 .. wsize, NEW e \in s .. wsize,
         \A k \in s .. (e - 1) : BitAt(x, k) = 0
  PROVE  x % 2 ^ e = x % 2 ^ s
<1> DEFINE T == {d \in Nat : s + d <= e => x % 2 ^ (s + d) = x % 2 ^ s}
<1>1. wsize \in Nat
  BY WordSize
<1>2. 0 \in T
  BY <1>1
<1>3. ASSUME NEW d \in T
      PROVE  d + 1 \in T
  <2>1. CASE s + (d + 1) <= e
    <3> DEFINE k == s + d
    <3>1. k \in s .. (e - 1) /\ k \in 0 .. (wsize - 1) /\ s + (d + 1) = k + 1 /\ k <= e
      BY <1>1, <2>1
    <3>2. x % 2 ^ k = x % 2 ^ s /\ BitAt(x, k) = 0
      BY <3>1
    <3>3. 2 ^ k \in Nat \ {0} /\ x % 2 ^ k \in Nat
      <4>1. 2 ^ k \in Nat \ {0}
        BY <3>1, Powers
      <4> QED
        BY <4>1, DivMod
    <3> HIDE DEF k
    <3>4. x % 2 ^ (k + 1) = x % 2 ^ k
      <4>1. x % 2 ^ (k + 1) = (x % 2 ^ k) + BitAt(x, k) * 2 ^ k
        BY <3>1, ModStep
      <4>2. 0 * 2 ^ k = 0
        BY <3>3
      <4> QED
        BY <3>2, <3>3, <4>1, <4>2
    <3> QED
      BY <3>1, <3>2, <3>4
  <2>2. CASE ~ (s + (d + 1) <= e)
    BY <2>2
  <2> QED
    BY <2>1, <2>2
<1>4. T = Nat
  <2>1. T \in SUBSET Nat
    OBVIOUS
  <2> HIDE DEF T
  <2> QED
    BY <1>2, <1>3, <2>1, SetInduction
<1> DEFINE d == e - s
<1>5. d \in Nat /\ s + d = e /\ s + d <= e
  BY <1>1
<1> HIDE DEF d
<1>6. x % 2 ^ (s + d) = x % 2 ^ s
  BY <1>4, <1>5
<1> QED
  BY <1>5, <1>6

\* The bits of a remainder by a power are the lower bits.
LEMMA BitOfRemainder ==
  ASSUME NEW x \in Nat, NEW n \in 0 .. wsize, NEW j \in 0 .. (wsize - 1)
  PROVE  /\ x % 2 ^ n \in 0 .. (2 ^ n - 1)
         /\ BitAt(x % 2 ^ n, j) = IF j < n THEN BitAt(x, j) ELSE 0
<1> DEFINE a == x % 2 ^ n
           v == x \div 2 ^ n
<1>1. 2 ^ n \in Nat \ {0} /\ wsize \in Nat
  BY Powers, WordSize
<1>2. a \in 0 .. (2 ^ n - 1) /\ v \in Nat /\ x = 2 ^ n * v + a
  BY <1>1, DivMod
<1> HIDE DEF a, v
<1>3. a \in Nat /\ a < 2 ^ n /\ x = a + v * 2 ^ n
  BY <1>1, <1>2
<1>4. j < n => BitAt(x, j) = BitAt(a, j)
  <2>1. Joined(x, n, a, v)
    BY <1>2, <1>3 DEF Joined
  <2> QED
    BY <2>1, BitOfJoin
<1>5. ASSUME ~ (j < n) PROVE BitAt(a, j) = 0
  <2>1. j \in n .. wsize
    BY <1>1, <1>5
  <2> QED
    BY <1>3, <2>1, NoHighBits
<1> QED
  BY <1>2, <1>4, <1>5 DEF a

-----------------------------------------------------------------------------
\* Words.

Word == 0 .. (2 ^ wsize - 1)

\* Word e is d with bits s, ..., s + len - 1 replaced by the low bits of m.
Filled(e, d, s, len, m) ==
  /\ e \in Word
  /\ \A j \in 0 .. (wsize - 1) :
       BitAt(e, j) = IF s <= j /\ j < s + len THEN BitAt(m, j - s) ELSE BitAt(d, j)

\* Words are natural numbers.
LEMMA WordIsNat ==
  ASSUME NEW d \in Word
  PROVE  d \in Nat /\ d < 2 ^ wsize
  BY Powers, WordSize DEF Word

\* The part in the middle between bits s and e.
LEMMA ThreeParts ==
  ASSUME NEW s \in 0 .. wsize, NEW len \in 0 .. wsize, NEW e \in 0 .. wsize, e = s + len,
         NEW a \in Nat, NEW m \in Nat, m < 2 ^ len, NEW h \in Nat, NEW lo, NEW d, NEW z,
         Joined(lo, s, a, m), Joined(d, e, a, h), z = lo + h * 2 ^ e
  PROVE  /\ Joined(z, e, lo, h)
         /\ \A j \in 0 .. (wsize - 1) :
              BitAt(z, j) = IF s <= j /\ j < e THEN BitAt(m, j - s) ELSE BitAt(d, j)
<1>1. 2 ^ s \in Nat \ {0} /\ 2 ^ len \in Nat \ {0} /\ 2 ^ e \in Nat \ {0}
  BY Powers
<1>2. 2 ^ e = 2 ^ s * 2 ^ len
  BY PowerSum
<1>3. lo \in Nat /\ lo < 2 ^ e
  <2>1. m * 2 ^ s \in Nat /\ m * 2 ^ s <= (2 ^ len - 1) * 2 ^ s
    BY <1>1
  <2>2. (2 ^ len - 1) * 2 ^ s = 2 ^ s * 2 ^ len - 2 ^ s
    BY <1>1
  <2>3. lo = a + m * 2 ^ s /\ a < 2 ^ s
    BY DEF Joined
  <2> QED
    BY <1>1, <1>2, <2>1, <2>2, <2>3
<1>4. Joined(z, e, lo, h)
  BY <1>3 DEF Joined
<1>5. ASSUME NEW j \in 0 .. (wsize - 1)
      PROVE  BitAt(z, j) = IF s <= j /\ j < e THEN BitAt(m, j - s) ELSE BitAt(d, j)
  <2>1. /\ j < s => BitAt(lo, j) = BitAt(a, j)
        /\ j >= s => BitAt(lo, j) = BitAt(m, j - s)
    BY BitOfJoin
  <2>2. /\ j < e => BitAt(z, j) = BitAt(lo, j)
        /\ j >= e => BitAt(z, j) = BitAt(h, j - e)
    BY <1>4, BitOfJoin
  <2>3. /\ j < e => BitAt(d, j) = BitAt(a, j)
        /\ j >= e => BitAt(d, j) = BitAt(h, j - e)
    BY BitOfJoin
  <2>4. wsize \in Nat /\ s <= e
    BY WordSize
  <2> QED
    BY <2>1, <2>2, <2>3, <2>4
<1> QED
  BY <1>4, <1>5

\* A word stays one when its lower part changes.
LEMMA LowerPart ==
  ASSUME NEW e, NEW a, NEW h, NEW d \in Word, Joined(d, e, a, h), NEW lo, NEW z, Joined(z, e, lo, h)
  PROVE  z \in Word
<1> DEFINE t == wsize - e
           p == 2 ^ e
           r == 2 ^ t
<1>0. /\ e \in 0 .. wsize /\ a \in Nat /\ h \in Nat /\ d = a + h * p
      /\ lo \in Nat /\ lo < p /\ z = lo + h * p
  BY DEF Joined
<1>1. wsize \in Nat /\ t \in 0 .. wsize /\ e + t = wsize
  BY <1>0, WordSize
<1>2. p \in Nat \ {0} /\ r \in Nat \ {0} /\ 2 ^ wsize = p * r
  <2> HIDE DEF t
  <2>1. 2 ^ (e + t) = 2 ^ e * 2 ^ t
    BY <1>0, <1>1, PowerSum
  <2> QED
    BY <1>0, <1>1, <2>1, Powers
<1>3. d < p * r /\ d \in Nat
  BY <1>2, WordIsNat
<1> HIDE DEF t, p, r
<1>4. h < r
  <2> SUFFICES ASSUME r <= h PROVE FALSE
    BY <1>0, <1>2
  <2>1. p * r <= h * p /\ h * p \in Nat
    BY <1>0, <1>2
  <2> QED
    BY <1>0, <1>2, <1>3, <2>1
<1>5. (h + 1) * p <= p * r /\ (h + 1) * p = h * p + p /\ h * p \in Nat
  BY <1>0, <1>2, <1>4
<1>6. z \in 0 .. (p * r - 1)
  BY <1>0, <1>2, <1>5
<1> QED
  BY <1>2, <1>6 DEF Word

\* Bits added where there are none do not carry.
LEMMA AddBits ==
  ASSUME NEW d \in Word, NEW s \in 0 .. wsize, NEW len \in 0 .. wsize, s + len <= wsize,
         NEW m \in Nat, m < 2 ^ len,
         \A k \in s .. (s + len - 1) : BitAt(d, k) = 0
  PROVE  Filled(d + m * 2 ^ s, d, s, len, m)
<1> DEFINE e == s + len
           a == d % 2 ^ s
           h == d \div 2 ^ e
           lo == a + m * 2 ^ s
           z == d + m * 2 ^ s
<1>1. wsize \in Nat /\ e \in 0 .. wsize /\ e \in s .. wsize /\ s \in 0 .. wsize
  BY WordSize
<1>2. 2 ^ s \in Nat \ {0} /\ 2 ^ len \in Nat \ {0} /\ 2 ^ e \in Nat \ {0}
  <2> HIDE DEF e
  <2> QED
    BY <1>1, Powers
<1>3. d \in Nat
  BY WordIsNat
<1>4. d % 2 ^ e = a
  BY <1>1, <1>3, ZeroBits
<1>5. a \in Nat /\ a < 2 ^ s
  BY <1>2, <1>3, DivMod
<1>6. a < 2 ^ e
  <2> HIDE DEF e, a
  <2> QED
    BY <1>2, <1>3, <1>4, DivMod
<1>7. h \in Nat /\ d = 2 ^ e * h + a
  <2> HIDE DEF e, a
  <2> QED
    BY <1>2, <1>3, <1>4, DivMod
<1>8. e = s + len /\ lo = a + m * 2 ^ s /\ z = d + m * 2 ^ s
  OBVIOUS
<1> HIDE DEF e, a, h, lo, z
<1>9. d = a + h * 2 ^ e /\ z = lo + h * 2 ^ e
  <2>1. 2 ^ e * h = h * 2 ^ e /\ h * 2 ^ e \in Nat /\ m * 2 ^ s \in Nat
    BY <1>2, <1>7
  <2> QED
    BY <1>5, <1>7, <1>8, <2>1
<1>10. Joined(lo, s, a, m) /\ Joined(d, e, a, h)
  BY <1>1, <1>5, <1>6, <1>7, <1>8, <1>9 DEF Joined
<1>11. /\ Joined(z, e, lo, h)
       /\ \A j \in 0 .. (wsize - 1) :
            BitAt(z, j) = IF s <= j /\ j < e THEN BitAt(m, j - s) ELSE BitAt(d, j)
  BY <1>1, <1>5, <1>7, <1>8, <1>9, <1>10, ThreeParts
<1>12. z \in Word
  BY <1>10, <1>11, LowerPart
<1>13. Filled(z, d, s, len, m)
  BY <1>8, <1>11, <1>12 DEF Filled
<1> QED
  BY <1>8, <1>13

\* Only the low bits that are filled in matter.
LEMMA FilledLow ==
  ASSUME NEW e, NEW d, NEW s \in 0 .. wsize, NEW len \in 0 .. wsize, NEW m \in Nat,
         Filled(e, d, s, len, m % 2 ^ len)
  PROVE  Filled(e, d, s, len, m)
<1>1. ASSUME NEW j \in 0 .. (wsize - 1), s <= j, j < s + len
      PROVE  BitAt(m % 2 ^ len, j - s) = BitAt(m, j - s)
  <2> DEFINE k == j - s
  <2>1. k \in 0 .. (wsize - 1) /\ k < len
    BY <1>1, WordSize
  <2> HIDE DEF k
  <2>2. BitAt(m % 2 ^ len, k) = BitAt(m, k)
    BY <2>1, BitOfRemainder
  <2> QED
    BY <2>2 DEF k
<1> QED
  BY <1>1 DEF Filled

\* The remainder of two parts is the lower one.
LEMMA Remainder ==
  ASSUME NEW p \in Nat \ {0}, NEW z \in 0 .. (p - 1), NEW h \in Nat
  PROVE  (z + h * p) % p = z
<1>1. z + h * p = p * h + z
  OBVIOUS
<1> QED
  BY <1>1, DivModUnique

\* What atomicAdd makes of a word that has no bits where those of m go; bits that go beyond
\* the end of the word are lost.
LEMMA PlusFills ==
  ASSUME NEW d \in Word, NEW s \in 0 .. wsize, NEW len \in 0 .. wsize, s + len <= wsize,
         NEW m \in Nat, m < 2 ^ len \/ s + len = wsize,
         \A k \in s .. (s + len - 1) : BitAt(d, k) = 0
  PROVE  Filled(Plus(d, m * 2 ^ s), d, s, len, m)
<1> DEFINE lo == m % 2 ^ len
           hi == m \div 2 ^ len
           z == d + lo * 2 ^ s
<1>1. 2 ^ s \in Nat \ {0} /\ 2 ^ len \in Nat \ {0} /\ 2 ^ wsize \in Nat \ {0}
  BY Powers, WordSize
<1>2. lo \in Nat /\ lo < 2 ^ len /\ hi \in Nat /\ m = 2 ^ len * hi + lo
  <2> DEFINE p == 2 ^ len
  <2>1. p \in Nat \ {0}
    BY <1>1
  <2> HIDE DEF p
  <2>2. m \div p \in Nat /\ m % p \in 0 .. (p - 1) /\ m = p * (m \div p) + (m % p)
    BY <2>1, DivMod
  <2>3. m % p \in Nat /\ m % p < p
    BY <2>1, <2>2
  <2> QED
    BY <2>2, <2>3 DEF p
<1>3. Filled(z, d, s, len, lo)
  <2> HIDE DEF lo
  <2> QED
    BY <1>2, AddBits
<1>4. Filled(z, d, s, len, m)
  <2> HIDE DEF z
  <2> QED
    BY <1>3, FilledLow
<1>5. z \in 0 .. (2 ^ wsize - 1)
  BY <1>3 DEF Filled, Word
<1> HIDE DEF lo, hi
<1>6. ASSUME m < 2 ^ len
      PROVE  Plus(d, m * 2 ^ s) = z
  <2>1. m = 2 ^ len * 0 + m /\ m \in 0 .. (2 ^ len - 1) /\ 0 \in Nat
    BY <1>1, <1>6
  <2>2. lo = m
    BY <1>1, <2>1, DivModUnique DEF lo
  <2>3. z = z + 0 * 2 ^ wsize
    BY <1>1, <1>5
  <2> HIDE DEF z
  <2>4. z % 2 ^ wsize = z
    BY <1>1, <1>5, <2>3, Remainder
  <2> QED
    BY <2>2, <2>4 DEF Plus, z
<1>7. ASSUME s + len = wsize
      PROVE  Plus(d, m * 2 ^ s) = z
  <2>1. 2 ^ wsize = 2 ^ s * 2 ^ len
    BY <1>7, PowerSum
  <2>2. (2 ^ len * hi + lo) * 2 ^ s = lo * 2 ^ s + hi * (2 ^ s * 2 ^ len)
    BY <1>1, <1>2
  <2>3. d \in Nat /\ lo * 2 ^ s \in Nat /\ hi * 2 ^ wsize \in Nat
    BY <1>1, <1>2, WordIsNat
  <2>4. m * 2 ^ s = lo * 2 ^ s + hi * 2 ^ wsize
    BY <1>2, <2>1, <2>2
  <2>5. d + m * 2 ^ s = z + hi * 2 ^ wsize
    BY <2>3, <2>4
  <2> HIDE DEF z
  <2>6. (z + hi * 2 ^ wsize) % 2 ^ wsize = z
    BY <1>1, <1>2, <1>5, Remainder
  <2> QED
    BY <2>5, <2>6 DEF Plus
<1> QED
  BY <1>4, <1>6, <1>7

\* The bits of the word zero are zero.
LEMMA ZeroWord ==
  /\ 0 \in Word
  /\ \A k \in 0 .. wsize : BitAt(0, k) = 0
<1>1. 0 \in Word
  BY Powers, WordSize DEF Word
<1>2. ASSUME NEW k \in 0 .. wsize PROVE BitAt(0, k) = 0
  <2>1. 2 ^ 0 = 1 /\ 0 \in 0 .. wsize /\ k \in 0 .. wsize /\ 0 < 1
    BY Powers, WordSize
  <2> QED
    BY <2>1, NoHighBits
<1> QED
  BY <1>1, <1>2

\* There is a word with given bits.
LEMMA WordOfBits ==
  ASSUME NEW f \in [0 .. (wsize - 1) -> {0, 1}]
  PROVE  \E z \in Word : \A k \in 0 .. (wsize - 1) : BitAt(z, k) = f[k]
<1> DEFINE Low(z, n) == z \in Nat /\ z < 2 ^ n /\ \A k \in 0 .. (n - 1) : BitAt(z, k) = f[k]
           T == {n \in Nat : n <= wsize => \E z : Low(z, n)}
<1>1. wsize \in Nat
  BY WordSize
<1>2. 0 \in T
  <2>1. Low(0, 0)
    BY Powers
  <2> QED
    BY <2>1
<1>3. ASSUME NEW n \in T
      PROVE  n + 1 \in T
  <2> SUFFICES ASSUME n + 1 <= wsize PROVE \E z : Low(z, n + 1)
    OBVIOUS
  <2>1. n \in 0 .. wsize /\ n \in 0 .. (wsize - 1) /\ n <= wsize
    BY <1>1
  <2>2. PICK z : Low(z, n)
    BY <2>1
  <2> DEFINE y == z + f[n] * 2 ^ n
  <2>3. f[n] \in {0, 1} /\ f[n] \in Nat /\ z \in Nat /\ z < 2 ^ n
    BY <2>1, <2>2
  <2>4. Joined(y, n, z, f[n])
    BY <2>1, <2>3 DEF Joined
  <2>5. y \in Nat /\ y < 2 ^ (n + 1)
    <3>1. 2 ^ n \in Nat /\ 2 ^ (n + 1) = 2 * 2 ^ n
      BY <2>1, Powers
    <3>2. f[n] * 2 ^ n \in {0, 2 ^ n}
      BY <2>3, <3>1
    <3> QED
      BY <2>3, <3>1, <3>2
  <2> HIDE DEF y
  <2>6. ASSUME NEW k \in 0 .. ((n + 1) - 1)
        PROVE  BitAt(y, k) = f[k]
    <3>1. k \in 0 .. (wsize - 1) /\ (k < n \/ k = n)
      <4>1. n \in Nat
        BY <2>1
      <4> HIDE DEF T
      <4> QED
        BY <1>1, <2>1, <4>1
    <3>2. CASE k < n
      <4>1. BitAt(y, k) = BitAt(z, k)
        BY <2>4, <3>1, <3>2, BitOfJoin
      <4>2. k \in 0 .. (n - 1)
        BY <2>1, <3>2
      <4> QED
        BY <2>2, <4>1, <4>2
    <3>3. CASE k = n
      <4>1. BitAt(y, k) = BitAt(f[n], k - n)
        BY <2>1, <2>4, <3>1, <3>3, BitOfJoin
      <4>2. k - n = 0
        BY <2>1, <3>3
      <4>3. BitAt(f[n], 0) = f[n]
        <5>1. 2 ^ 0 = 1 /\ 0 \div 1 = 0 /\ 1 \div 1 = 1 /\ 0 % 2 = 0 /\ 1 % 2 = 1
          BY Powers
        <5> QED
          BY <2>3, <5>1 DEF BitAt
      <4> QED
        BY <3>3, <4>1, <4>2, <4>3
    <3> QED
      BY <3>1, <3>2, <3>3
  <2> QED
    BY <2>5, <2>6
<1>4. T = Nat
  <2>1. T \in SUBSET Nat
    OBVIOUS
  <2> HIDE DEF T
  <2> QED
    BY <1>2, <1>3, <2>1, SetInduction
<1>5. PICK z : Low(z, wsize)
  <2> HIDE DEF Low
  <2>1. wsize \in T /\ wsize <= wsize
    <3> HIDE DEF T
    <3> QED
      BY <1>1, <1>4
  <2> QED
    BY <2>1
<1>6. 2 ^ wsize \in Nat
  BY Powers, WordSize
<1>7. z \in Word
  BY <1>5, <1>6 DEF Word
<1> QED
  BY <1>5, <1>7

\* What Or promises: there is such a word.
LEMMA OrBits ==
  ASSUME NEW x, NEW y
  PROVE  /\ Or(x, y) \in Word
         /\ \A k \in 0 .. (wsize - 1) :
              BitAt(Or(x, y), k) = IF BitAt(x, k) = 1 \/ BitAt(y, k) = 1 THEN 1 ELSE 0
<1> DEFINE f == [k \in 0 .. (wsize - 1) |-> IF BitAt(x, k) = 1 \/ BitAt(y, k) = 1 THEN 1 ELSE 0]
<1>1. f \in [0 .. (wsize - 1) -> {0, 1}]
  OBVIOUS
<1>2. \E z \in Word : \A k \in 0 .. (wsize - 1) : BitAt(z, k) = f[k]
  <2> HIDE DEF f
  <2> QED
    BY <1>1, WordOfBits
<1> QED
  BY <1>2 DEF Or, Word

\* What Or makes of a word that has no bits where those of y are.
LEMMA OrFills ==
  ASSUME NEW x \in Word, NEW y \in Word,
         NEW s \in 0 .. wsize, NEW len \in 0 .. wsize, s + len <= wsize, NEW m,
         \A k \in s .. (s + len - 1) : BitAt(x, k) = 0,
         Filled(y, 0, s, len, m)
  PROVE  Filled(Or(x, y), x, s, len, m)
<1>1. ASSUME NEW k \in 0 .. (wsize - 1)
      PROVE  BitAt(Or(x, y), k) = IF s <= k /\ k < s + len THEN BitAt(m, k - s) ELSE BitAt(x, k)
  <2>1. k \in 0 .. wsize /\ x \in Nat /\ y \in Nat /\ wsize \in Nat
    BY WordSize, WordIsNat
  <2>2. s <= k /\ k < s + len => k \in s .. (s + len - 1)
    BY <2>1
  <2>3. BitAt(0, k) = 0
    BY <2>1, ZeroWord
  <2>4. BitAt(y, k) = IF s <= k /\ k < s + len THEN BitAt(m, k - s) ELSE 0
    BY <2>3 DEF Filled
  <2>5. BitAt(x, k) \in {0, 1} /\ BitAt(y, k) \in {0, 1}
    BY <2>1, BitRange
  <2>6. BitAt(Or(x, y), k) = IF BitAt(x, k) = 1 \/ BitAt(y, k) = 1 THEN 1 ELSE 0
    BY OrBits
  <2> QED
    BY <2>2, <2>4, <2>5, <2>6
<1> QED
  BY <1>1, OrBits DEF Filled

-----------------------------------------------------------------------------
\* The grid.

\* The constants of a launch.
LEMMA LaunchAssumption ==
  /\ cuda_block_size \in Nat \ {0}
  /\ max_grid[1] \in Nat \ {0} /\ max_grid[2] \in Nat \ {0}
  /\ HeaderBits \in Nat /\ HeaderBits > wsize
  BY StreamAssumption

\* The integer square root exists.
LEMMA SquareRoot ==
  ASSUME NEW x \in Nat
  PROVE  /\ sqrt(x) \in 0 .. x
         /\ sqrt(x) * sqrt(x) <= x
         /\ x > 0 => sqrt(x) > 0
<1> DEFINE T == {s \in Nat : x < (s + 1) * (s + 1)}
<1>1. x \in T
  OBVIOUS
<1>2. PICK s \in T : \A m \in T : s <= m
  BY <1>1, LeastElement
<1>3. s * s <= x
  <2>1. CASE s = 0
    BY <2>1
  <2>2. CASE s # 0
    <3>1. s - 1 \in Nat /\ (s - 1) + 1 = s /\ ~ (s <= s - 1)
      BY <1>2, <2>2
    <3>2. ~ (x < ((s - 1) + 1) * ((s - 1) + 1))
      BY <1>2, <3>1
    <3> QED
      BY <1>2, <3>1, <3>2
  <2> QED
    BY <2>1, <2>2
<1>4. s \in 0 .. x
  BY <1>1, <1>2
<1>5. sqrt(x) \in 0 .. x /\ sqrt(x) * sqrt(x) <= x /\ x < (sqrt(x) + 1) * (sqrt(x) + 1)
  <2>1. x < (s + 1) * (s + 1)
    BY <1>2
  <2> QED
    BY <1>3, <1>4, <2>1 DEF sqrt
<1> DEFINE r == sqrt(x)
<1> HIDE DEF r
<1>6. r \in 0 .. x /\ x < (r + 1) * (r + 1)
  BY <1>5 DEF r
<1>7. ASSUME x > 0, r = 0 PROVE FALSE
  BY <1>6, <1>7
<1> QED
  BY <1>5, <1>6, <1>7 DEF r

\* The integer cube root exists.
LEMMA CubeRoot ==
  ASSUME NEW x \in Nat
  PROVE  /\ cbrt(x) \in 0 .. x
         /\ cbrt(x) * cbrt(x) * cbrt(x) <= x
         /\ x > 0 => cbrt(x) > 0
<1> DEFINE T == {s \in Nat : x < (s + 1) * (s + 1) * (s + 1)}
<1>1. x \in T
  <2>1. (x + 1) * 1 <= (x + 1) * (x + 1)
    OBVIOUS
  <2> DEFINE q == (x + 1) * (x + 1)
  <2>2. q \in Nat /\ x + 1 <= q
    BY <2>1
  <2> HIDE DEF q
  <2>3. q * 1 <= q * (x + 1)
    BY <2>2
  <2>4. x < q * (x + 1)
    BY <2>2, <2>3
  <2> QED
    BY <2>4 DEF q
<1>2. PICK s \in T : \A m \in T : s <= m
  BY <1>1, LeastElement
<1>3. s * s * s <= x
  <2>1. CASE s = 0
    BY <2>1
  <2>2. CASE s # 0
    <3>1. s - 1 \in Nat /\ (s - 1) + 1 = s /\ ~ (s <= s - 1)
      BY <1>2, <2>2
    <3>2. ~ (x < ((s - 1) + 1) * ((s - 1) + 1) * ((s - 1) + 1))
      BY <1>2, <3>1
    <3>3. ~ (x < s * s * s)
      BY <3>1, <3>2
    <3>4. s * s * s \in Nat
      BY <1>2
    <3> QED
      BY <3>3, <3>4
  <2> QED
    BY <2>1, <2>2
<1>4. s \in 0 .. x
  BY <1>1, <1>2
<1>5. cbrt(x) \in 0 .. x /\ cbrt(x) * cbrt(x) * cbrt(x) <= x
      /\ x < (cbrt(x) + 1) * (cbrt(x) + 1) * (cbrt(x) + 1)
  <2>1. x < (s + 1) * (s + 1) * (s + 1)
    BY <1>2
  <2> QED
    BY <1>3, <1>4, <2>1 DEF cbrt
<1> DEFINE r == cbrt(x)
<1> HIDE DEF r
<1>6. r \in 0 .. x /\ x < (r + 1) * (r + 1) * (r + 1)
  BY <1>5 DEF r
<1>7. ASSUME x > 0, r = 0 PROVE FALSE
  BY <1>6, <1>7
<1> QED
  BY <1>5, <1>6, <1>7 DEF r

\* Rounding up covers.
LEMMA CeilCovers ==
  ASSUME NEW a \in Nat, NEW b \in Nat \ {0}
  PROVE  CeilDiv(a, b) \in Nat /\ a <= b * CeilDiv(a, b)
<1> DEFINE l == a + b - 1
           q == l \div b
<1>1. l \in Nat
  OBVIOUS
<1>2. q \in Nat /\ l % b \in 0 .. (b - 1) /\ l = b * q + (l % b)
  <2> HIDE DEF l
  <2> QED
    BY <1>1, DivMod
<1> HIDE DEF q
<1>3. b * q \in Nat
  BY <1>2
<1>4. a <= b * q
  BY <1>2, <1>3
<1> QED
  BY <1>2, <1>4 DEF CeilDiv, q

\* The threads launched are whole thread blocks, and enough.
LEMMA LaunchSize ==
  ASSUME blocks \in Nat
  PROVE  /\ launch_blocks \in Nat /\ blocks <= launch_blocks
         /\ launch_blocks = cuda_block_size * (launch_blocks \div cuda_block_size)
<1> DEFINE c == cuda_block_size
           n == blocks
           q == n \div c
           r == n % c
<1>1. c \in Nat \ {0} /\ n \in Nat
  BY LaunchAssumption
<1>2. launch_blocks = n + (IF n % c # 0 THEN c - (n % c) ELSE 0)
  BY DEF launch_blocks
<1> HIDE DEF c, n
<1>3. q \in Nat /\ r \in 0 .. (c - 1) /\ n = c * q + r
  BY <1>1, DivMod
<1>4. launch_blocks = n + (IF r # 0 THEN c - r ELSE 0)
  BY <1>2
<1> HIDE DEF q, r
<1>5. \E p \in Nat : launch_blocks = c * p
  <2>1. CASE r = 0
    BY <1>1, <1>3, <1>4, <2>1
  <2>2. CASE r # 0
    <3>1. c * (q + 1) = c * q + c /\ c * q \in Nat
      BY <1>1, <1>3
    <3>2. launch_blocks = c * (q + 1)
      BY <1>1, <1>3, <1>4, <2>2, <3>1
    <3> QED
      BY <1>3, <3>2
  <2> QED
    BY <2>1, <2>2
<1>6. launch_blocks \in Nat /\ blocks <= launch_blocks
  BY <1>1, <1>3, <1>4 DEF n
<1>7. PICK p \in Nat : launch_blocks = c * p
  BY <1>5
<1>8. launch_blocks = c * p + 0 /\ 0 \in 0 .. (c - 1)
  BY <1>1, <1>6, <1>7
<1>9. launch_blocks \div c = p
  BY <1>1, <1>8, DivModUnique
<1> QED
  BY <1>6, <1>7, <1>9 DEF c

\* The grid has a thread for each block, in each of its three shapes.
LEMMA GridCovers ==
  ASSUME NEW size \in Nat, size = cuda_block_size * (size \div cuda_block_size)
  PROVE  LET g == calculate_grid_size(size)
         IN  /\ g[1] * g[2] * g[3] * cuda_block_size \in Nat
             /\ size <= g[1] * g[2] * g[3] * cuda_block_size
<1> DEFINE c == cuda_block_size
           grids == size \div c
           base == sqrt(grids)
           cube == cbrt(grids)
           g == calculate_grid_size(size)
           m == max_grid[1]
           n == max_grid[2]
<1>1. c \in Nat \ {0} /\ m \in Nat \ {0} /\ n \in Nat \ {0}
  BY LaunchAssumption
<1>2. grids \in Nat
  <2> HIDE DEF c
  <2> QED
    BY <1>1, DivMod
<1>3. size = c * grids
  OBVIOUS
<1>4. grids <= size /\ \A p \in Nat : p >= size => p * c \in Nat /\ size <= p * c
  <2> HIDE DEF c, grids
  <2>1. c * grids >= 1 * grids
    BY <1>1, <1>2
  <2>2. ASSUME NEW p \in Nat, p >= size PROVE p * c \in Nat /\ size <= p * c
    <3>1. p * c >= p * 1 /\ p * c \in Nat
      BY <1>1
    <3> QED
      BY <2>2, <3>1
  <2> QED
    BY <1>2, <1>3, <2>1, <2>2
<1>5. CASE grids <= m
  <2>0. ~ (grids > m) /\ ~ (grids > m * n)
    <3> HIDE DEF m, n, grids
    <3>1. m * n >= m * 1 /\ m * n \in Nat
      BY <1>1
    <3> QED
      BY <1>1, <1>2, <1>5, <3>1
  <2>1. g = <<grids, 1, 1>>
    BY <1>1, <1>2, <1>5, <2>0 DEF calculate_grid_size
  <2> HIDE DEF g, grids, c
  <2>2. g[1] = grids /\ g[2] = 1 /\ g[3] = 1
    BY <2>1
  <2>3. grids * 1 * 1 * c = c * grids
    BY <1>1, <1>2
  <2>4. g[1] * g[2] * g[3] * c = size
    BY <1>3, <2>2, <2>3
  <2> QED
    BY <2>4 DEF g, c
<1>6. CASE grids > m /\ grids <= m * n
  <2> DEFINE y == base + CeilDiv(size - base * base, base)
  <2>1. g = <<base, y, 1>>
    BY <1>1, <1>2, <1>6 DEF calculate_grid_size
  <2>2. base \in Nat /\ base > 0 /\ base * base <= grids
    <3> HIDE DEF grids
    <3> QED
      BY <1>1, <1>2, <1>6, SquareRoot
  <2> HIDE DEF g, grids, c, base, m, n
  <2>3. base * base \in Nat /\ size - base * base \in Nat
    BY <1>2, <1>4, <2>2
  <2>4. y \in Nat /\ base * y >= size
    <3> DEFINE k == CeilDiv(size - base * base, base)
    <3>1. k \in Nat /\ size - base * base <= base * k
      BY <2>2, <2>3, CeilCovers
    <3> HIDE DEF k
    <3>2. base * (base + k) = base * base + base * k /\ base * k \in Nat
      BY <2>2, <3>1
    <3>3. base + k \in Nat /\ base * (base + k) >= size
      BY <2>2, <2>3, <3>1, <3>2
    <3> QED
      BY <3>3 DEF k
  <2> HIDE DEF y
  <2>5. base * y * 1 \in Nat /\ base * y * 1 >= size
    BY <2>2, <2>4
  <2>6. g[1] = base /\ g[2] = y /\ g[3] = 1
    BY <2>1
  <2>7. g[1] * g[2] * g[3] * c \in Nat /\ size <= g[1] * g[2] * g[3] * c
    BY <1>4, <2>5, <2>6
  <2> QED
    BY <2>7 DEF g, c
<1>7. CASE grids > m * n
  <2> DEFINE y == cube + CeilDiv(size - cube * cube * cube, cube * cube)
  <2>1. grids > m
    <3> HIDE DEF m, n, grids
    <3>1. m * n >= m * 1 /\ m * n \in Nat
      BY <1>1
    <3> QED
      BY <1>1, <1>2, <1>7, <3>1
  <2>2. g = <<cube, cube, y>>
    BY <1>1, <1>2, <1>7, <2>1 DEF calculate_grid_size
  <2>3. cube \in Nat /\ cube > 0 /\ cube * cube * cube <= grids
    <3> HIDE DEF grids
    <3> QED
      BY <1>1, <1>2, <2>1, CubeRoot
  <2> HIDE DEF g, grids, c, cube, m, n
  <2>4. cube * cube \in Nat \ {0} /\ cube * cube * cube \in Nat /\ size - cube * cube * cube \in Nat
    BY <1>2, <1>4, <2>3
  <2>5. y \in Nat /\ cube * cube * y >= size
    <3> DEFINE s == cube * cube
               k == CeilDiv(size - cube * cube * cube, s)
    <3>1. s \in Nat \ {0} /\ s * cube = cube * cube * cube
      BY <2>3, <2>4
    <3>2. k \in Nat /\ size - cube * cube * cube <= s * k
      <4> HIDE DEF s
      <4> QED
        BY <2>4, <3>1, CeilCovers
    <3> HIDE DEF k, s
    <3>3. s * (cube + k) = s * cube + s * k /\ s * k \in Nat
      BY <2>3, <3>1, <3>2
    <3>4. cube + k \in Nat /\ s * (cube + k) >= size
      BY <2>3, <2>4, <3>1, <3>2, <3>3
    <3> QED
      BY <3>4 DEF k, s
  <2> HIDE DEF y
  <2>6. cube * cube * y \in Nat
    BY <2>3, <2>5
  <2>7. g[1] = cube /\ g[2] = cube /\ g[3] = y
    BY <2>2
  <2>8. g[1] * g[2] * g[3] * c \in Nat /\ size <= g[1] * g[2] * g[3] * c
    BY <1>4, <2>5, <2>6, <2>7
  <2> QED
    BY <2>8 DEF g, c
<1>8. grids <= m \/ (grids > m /\ grids <= m * n) \/ grids > m * n
  <2> HIDE DEF m, n, grids
  <2>1. m * n \in Nat
    BY <1>1
  <2> QED
    BY <1>1, <1>2, <2>1
<1> QED
  BY <1>5, <1>6, <1>7, <1>8

\* Every block has a thread, and threads that have a block are numbered as blocks are.
LEMMA AllLaunched ==
  ASSUME blocks \in Nat
  PROVE  Launched = 0 .. (blocks - 1)
<1> DEFINE g == calculate_grid_size(launch_blocks)
           k == g[1] * g[2] * g[3] * cuda_block_size
<1>1. k \in Nat /\ launch_blocks <= k /\ launch_blocks \in Nat /\ blocks <= launch_blocks
  BY LaunchSize, GridCovers
<1>2. Launched = {b \in 0 .. (k - 1) : b < blocks}
  BY DEF Launched
<1> HIDE DEF k
<1> QED
  BY <1>1, <1>2

-----------------------------------------------------------------------------
\* Codes.

Blocks == 0 .. (blocks - 1)
Calls(b) == 1 .. Len(Code(b))

\* Where the i-th call of a block begins, or the bits of the block when there is no such call.
At(b, i) == IF i <= Len(Code(b)) THEN Code(b)[i].at ELSE CodeSize(b)

\* What a job is.
LEMMA JobFacts ==
  ASSUME job \in Jobs
  PROVE  /\ job \in Job
         /\ job.gpu \in {"cuda", "metal"} /\ job.d \in 1 .. 3 /\ job.type \in {"int", "float"}
         /\ job.maxbits \in Nat \ {0}
         /\ blocks \in Nat
         /\ \A b \in Blocks : /\ Code(b) \in Seq(Call)
                              /\ InSequence(Code(b), job.maxbits)
                              /\ Begins(Code(b), job.type)
<1>1. job \in Job
  BY StreamAssumption
<1>2. /\ job.gpu \in {"cuda", "metal"} /\ job.d \in 1 .. 3 /\ job.type \in {"int", "float"}
      /\ job.maxbits \in Nat \ {0} /\ job.codes \in Seq(Seq(Call))
  BY <1>1 DEF Job
<1>3. blocks \in Nat
  BY <1>2 DEF blocks
<1>4. ASSUME NEW b \in Blocks
      PROVE  /\ Code(b) \in Seq(Call)
             /\ InSequence(Code(b), job.maxbits)
             /\ Begins(Code(b), job.type)
  <2>1. b + 1 \in 1 .. Len(job.codes)
    BY <1>3 DEF Blocks, blocks
  <2>2. job.codes[b + 1] \in Seq(Call)
    BY <1>2, <2>1
  <2>3. InSequence(job.codes[b + 1], job.maxbits) /\ Begins(job.codes[b + 1], job.type)
    BY <2>1, StreamAssumption
  <2> QED
    BY <2>2, <2>3 DEF Code
<1> QED
  BY <1>1, <1>2, <1>3, <1>4

\* What the calls of a block are.
LEMMA CallFacts ==
  ASSUME job \in Jobs, NEW b \in Blocks
  PROVE  /\ Len(Code(b)) \in Nat
         /\ \A i \in Calls(b) :
              LET c == Code(b)[i]
              IN  /\ c \in Call /\ c.x \in Nat /\ c.n \in 0 .. wsize /\ c.at \in Nat
                  /\ c.call \in {"bits", "bit", "exponent"}
                  /\ c.at = IF i = 1 THEN 0 ELSE Code(b)[i - 1].at + Code(b)[i - 1].n
                  /\ c.at + c.n <= job.maxbits
                  /\ c.call = "bit" => c.n = 1 /\ c.x \in {0, 1}
<1>1. Code(b) \in Seq(Call) /\ InSequence(Code(b), job.maxbits)
  BY JobFacts
<1>2. Len(Code(b)) \in Nat
  BY <1>1
<1>3. ASSUME NEW i \in Calls(b)
      PROVE  /\ Code(b)[i] \in Call /\ Code(b)[i].x \in Nat /\ Code(b)[i].n \in Nat
             /\ Code(b)[i].at \in Nat /\ Code(b)[i].call \in {"bits", "bit", "exponent"}
  <2>1. Code(b)[i] \in Call
    BY <1>1 DEF Calls
  <2> QED
    BY <2>1 DEF Call
<1>4. ASSUME NEW i \in Calls(b)
      PROVE  /\ Code(b)[i].at = IF i = 1 THEN 0 ELSE Code(b)[i - 1].at + Code(b)[i - 1].n
             /\ Code(b)[i].n <= wsize
             /\ Code(b)[i].at + Code(b)[i].n <= job.maxbits
             /\ Code(b)[i].call = "bit" => Code(b)[i].n = 1 /\ Code(b)[i].x \in {0, 1}
  BY <1>1 DEF Calls, InSequence
<1>5. ASSUME NEW i \in Calls(b)
      PROVE  Code(b)[i].n \in 0 .. wsize
  BY <1>3, <1>4, WordSize
<1> QED
  BY <1>2, <1>3, <1>4, <1>5

\* Calls follow each other.
LEMMA AtFacts ==
  ASSUME job \in Jobs, NEW b \in Blocks
  PROVE  /\ At(b, 1) = 0
         /\ CodeSize(b) \in 0 .. job.maxbits
         /\ \A i \in Nat \ {0} : At(b, i) \in 0 .. job.maxbits
         /\ \A i \in Calls(b) : At(b, i) = Code(b)[i].at /\ At(b, i + 1) = At(b, i) + Code(b)[i].n
         /\ \A i \in Nat : i > Len(Code(b)) => At(b, i) = CodeSize(b)
<1> DEFINE l == Len(Code(b))
<1>1. l \in Nat /\ job.maxbits \in Nat
  BY CallFacts, JobFacts
<1>2. Code(b) = <<>> <=> l = 0
  <2>1. Code(b) \in Seq(Call)
    BY JobFacts
  <2> QED
    BY <2>1
<1>3. CodeSize(b) = IF l = 0 THEN 0 ELSE Code(b)[l].at + Code(b)[l].n
  BY <1>2 DEF CodeSize
<1>4. l # 0 => l \in Calls(b)
  BY <1>1 DEF Calls
<1>5. CodeSize(b) \in 0 .. job.maxbits
  <2>1. CASE l = 0
    BY <1>1, <1>3, <2>1
  <2>2. CASE l # 0
    <3>1. l \in Calls(b)
      BY <1>4, <2>2
    <3>2. /\ Code(b)[l].n \in 0 .. wsize /\ Code(b)[l].at \in Nat
          /\ Code(b)[l].at + Code(b)[l].n <= job.maxbits
      BY <3>1, CallFacts
    <3> QED
      BY <1>1, <1>3, <2>2, <3>2, WordSize
  <2> QED
    BY <2>1, <2>2
<1>6. ASSUME NEW i \in Calls(b)
      PROVE  /\ At(b, i) = Code(b)[i].at /\ At(b, i) \in 0 .. job.maxbits
             /\ At(b, i + 1) = At(b, i) + Code(b)[i].n
  <2>1. i \in 1 .. l /\ i \in Nat
    BY <1>1 DEF Calls
  <2>2. At(b, i) = Code(b)[i].at
    BY <1>1, <2>1 DEF At
  <2>3. /\ Code(b)[i].n \in 0 .. wsize /\ Code(b)[i].at \in Nat
        /\ Code(b)[i].at + Code(b)[i].n <= job.maxbits
    BY CallFacts
  <2>4. CASE i = l
    BY <1>1, <1>3, <2>1, <2>2, <2>3, <2>4, WordSize DEF At
  <2>5. CASE i < l
    <3>1. i + 1 \in Calls(b) /\ i + 1 # 1 /\ (i + 1) - 1 = i /\ i + 1 <= l
      BY <1>1, <2>1, <2>5 DEF Calls
    <3>2. Code(b)[i + 1].at = Code(b)[(i + 1) - 1].at + Code(b)[(i + 1) - 1].n
      BY <3>1, CallFacts
    <3>3. At(b, i + 1) = Code(b)[i + 1].at
      BY <3>1 DEF At
    <3> QED
      BY <1>1, <2>2, <2>3, <3>1, <3>2, <3>3, WordSize
  <2> QED
    BY <1>1, <2>1, <2>4, <2>5
<1>7. At(b, 1) = 0
  <2>1. CASE l = 0
    BY <1>3, <2>1 DEF At
  <2>2. CASE l # 0
    <3>1. 1 \in Calls(b)
      BY <1>1, <2>2 DEF Calls
    <3>2. Code(b)[1].at = 0
      BY <3>1, CallFacts
    <3> QED
      BY <1>6, <3>1, <3>2
  <2> QED
    BY <2>1, <2>2
<1>8. ASSUME NEW i \in Nat, i > l
      PROVE  At(b, i) = CodeSize(b)
  BY <1>1, <1>8 DEF At
<1>9. ASSUME NEW i \in Nat \ {0}
      PROVE  At(b, i) \in 0 .. job.maxbits
  <2>1. i \in Calls(b) \/ i > l
    BY <1>1 DEF Calls
  <2> QED
    BY <1>5, <1>6, <1>8, <2>1
<1> QED
  BY <1>5, <1>6, <1>7, <1>8, <1>9

-----------------------------------------------------------------------------
\* Positions in the stream.

\* Blocks are within the stream.
LEMMA BlockPlace ==
  ASSUME job \in Jobs, NEW b \in Blocks
  PROVE  /\ Bit0(b) \in Nat /\ blocks * job.maxbits \in Nat
         /\ Bit0(b) + job.maxbits <= blocks * job.maxbits
<1> DEFINE m == job.maxbits
<1>1. m \in Nat \ {0} /\ blocks \in Nat
  BY JobFacts
<1>2. b \in Nat /\ b + 1 <= blocks
  BY <1>1 DEF Blocks
<1> HIDE DEF m
<1>3. b * m \in Nat /\ (b + 1) * m <= blocks * m /\ (b + 1) * m = b * m + m /\ blocks * m \in Nat
  BY <1>1, <1>2
<1> QED
  BY <1>3 DEF Bit0, m

\* The stream allocated has room for all blocks and a header.
LEMMA AllocatedSize ==
  ASSUME job \in Jobs
  PROVE  /\ zfp_stream_maximum_size \in Nat
         /\ HeaderBits + blocks * job.maxbits <= wsize * zfp_stream_maximum_size
<1> DEFINE B == blocks * job.maxbits
<1>1. B \in Nat
  <2>1. blocks \in Nat /\ job.maxbits \in Nat
    BY JobFacts
  <2> QED
    BY <2>1
<1> HIDE DEF B
<1>2. HeaderBits + B \in Nat /\ wsize \in Nat \ {0}
  BY <1>1, LaunchAssumption, WordSize
<1>3. /\ CeilDiv(HeaderBits + B, wsize) \in Nat
      /\ HeaderBits + B <= wsize * CeilDiv(HeaderBits + B, wsize)
  BY <1>2, CeilCovers
<1> QED
  BY <1>3 DEF zfp_stream_maximum_size, B

\* The word of a position up to the end of the stream is allocated, and so is the next.
LEMMA PositionAllocated ==
  ASSUME job \in Jobs, NEW p \in Nat, p <= blocks * job.maxbits
  PROVE  /\ p \div wsize \in Allocated /\ p \div wsize + 1 \in Allocated
         /\ p \div wsize \in Nat /\ p % wsize \in 0 .. (wsize - 1)
         /\ p = wsize * (p \div wsize) + (p % wsize)
<1> DEFINE w == p \div wsize
           n == zfp_stream_maximum_size
           B == blocks * job.maxbits
<1>1. wsize \in Nat \ {0}
  BY WordSize
<1>2. w \in Nat /\ p % wsize \in 0 .. (wsize - 1) /\ p = wsize * w + (p % wsize)
  BY <1>1, DivMod
<1>3. n \in Nat /\ HeaderBits + B <= wsize * n
  BY AllocatedSize
<1>4. HeaderBits \in Nat /\ HeaderBits > wsize /\ B \in Nat
  <2>1. blocks \in Nat /\ job.maxbits \in Nat
    BY JobFacts
  <2> QED
    BY <2>1, LaunchAssumption
<1> HIDE DEF w, n, B
<1>5. wsize * w <= p /\ wsize * w \in Nat /\ p <= B
  BY <1>1, <1>2 DEF B
<1>6. w + 1 < n
  <2> SUFFICES ASSUME n <= w + 1 PROVE FALSE
    BY <1>2, <1>3
  <2>1. wsize * n <= wsize * (w + 1) /\ wsize * (w + 1) = wsize * w + wsize
    BY <1>1, <1>2, <1>3
  <2> QED
    BY <1>1, <1>3, <1>4, <1>5, <2>1
<1> QED
  BY <1>2, <1>3, <1>6 DEF w, n, Allocated

\* A number of words to hold some bits has less than a word to spare.
LEMMA CeilSpares ==
  ASSUME NEW a \in Nat, NEW b \in Nat \ {0}
  PROVE  b * CeilDiv(a, b) < a + b
<1> DEFINE l == a + b - 1
           q == l \div b
<1>1. l \in Nat
  OBVIOUS
<1>2. q \in Nat /\ l % b \in 0 .. (b - 1) /\ l = b * q + (l % b)
  <2> HIDE DEF l
  <2> QED
    BY <1>1, DivMod
<1> HIDE DEF q
<1>3. b * q \in Nat
  BY <1>2
<1>4. b * q < a + b
  BY <1>2, <1>3
<1> QED
  BY <1>4 DEF CeilDiv, q

\* The words of the blocks have all bits of the stream; the position after the last bit is in
\* them, too, unless the blocks fill them.
LEMMA WrappedWords ==
  ASSUME job \in Jobs
  PROVE  /\ zfp_calc_stream_words \in Nat
         /\ Wrapped \subseteq Allocated
         /\ \A q \in Nat : q < blocks * job.maxbits => q \div wsize \in Wrapped
         /\ \A p \in Nat : p <= blocks * job.maxbits =>
              \/ p \div wsize \in Wrapped
              \/ /\ p = blocks * job.maxbits /\ p % wsize = 0
                 /\ p \div wsize = zfp_calc_stream_words
<1> DEFINE B == blocks * job.maxbits
           S == zfp_calc_stream_words
           N == zfp_stream_maximum_size
           H == HeaderBits
<1>1. B \in Nat /\ wsize \in Nat \ {0} /\ H \in Nat
  BY JobFacts, WordSize, LaunchAssumption
<1>2. S = CeilDiv(B, wsize)
  BY DEF zfp_calc_stream_words
<1>3. N \in Nat /\ H + B <= wsize * N
  BY AllocatedSize
<1> HIDE DEF B, S, N, H
<1>4. S \in Nat /\ B <= wsize * S /\ wsize * S < B + wsize
  BY <1>1, <1>2, CeilCovers, CeilSpares
<1>5. S <= N
  <2> SUFFICES ASSUME N + 1 <= S PROVE FALSE
    BY <1>3, <1>4
  <2>1. wsize * (N + 1) <= wsize * S /\ wsize * (N + 1) = wsize * N + wsize
    BY <1>1, <1>3, <1>4
  <2>2. wsize * N \in Nat /\ wsize * S \in Nat
    BY <1>1, <1>3, <1>4
  <2> QED
    BY <1>1, <1>3, <1>4, <2>1, <2>2
<1>6. Wrapped = 0 .. (S - 1) /\ Allocated = 0 .. (N - 1)
  BY DEF Wrapped, Allocated, S, N
<1>7. Wrapped \subseteq Allocated
  BY <1>3, <1>4, <1>5, <1>6
<1>8. ASSUME NEW p \in Nat, p <= B, p \div wsize \notin Wrapped
      PROVE  p = B /\ p % wsize = 0 /\ p \div wsize = S
  <2> DEFINE u == p \div wsize
             r == p % wsize
  <2>1. u \in Nat /\ r \in 0 .. (wsize - 1) /\ p = wsize * u + r
    BY <1>1, DivMod
  <2>2. u \notin Wrapped
    BY <1>8
  <2> HIDE DEF u, r
  <2>3. S <= u
    BY <1>4, <1>6, <2>1, <2>2
  <2>4. wsize * S <= wsize * u /\ wsize * S \in Nat /\ wsize * u \in Nat
    BY <1>1, <1>4, <2>1, <2>3
  <2>5. p = B /\ r = 0 /\ wsize * u = wsize * S
    BY <1>1, <1>4, <1>8, <2>1, <2>4
  <2>6. u = S
    <3> SUFFICES ASSUME S + 1 <= u PROVE FALSE
      BY <1>4, <2>1, <2>3
    <3>1. wsize * (S + 1) <= wsize * u /\ wsize * (S + 1) = wsize * S + wsize
      BY <1>1, <1>4, <2>1
    <3> QED
      BY <1>1, <2>4, <2>5, <3>1
  <2> QED
    BY <2>5, <2>6 DEF u, r
<1>9. ASSUME NEW q \in Nat, q < B PROVE q \div wsize \in Wrapped
  <2>1. q <= B /\ q # B
    BY <1>1, <1>9
  <2> QED
    BY <1>8, <2>1
<1>10. \A p \in Nat : p <= B =>
         \/ p \div wsize \in Wrapped
         \/ p = B /\ p % wsize = 0 /\ p \div wsize = S
  BY <1>8
<1> QED
  BY <1>4, <1>7, <1>9, <1>10 DEF B, S

\* Where the writer of a block is.
LEMMA WriterPlace ==
  ASSUME job \in Jobs, NEW b \in Blocks, NEW k \in Nat
  PROVE  /\ (start_bit(b) + k) % wsize = (Bit0(b) + k) % wsize
         /\ word_index(b) + (start_bit(b) + k) \div wsize = (Bit0(b) + k) \div wsize
         /\ start_bit(b) \in 0 .. (wsize - 1) /\ word_index(b) \in Nat
<1> DEFINE p == Bit0(b)
           q == p \div wsize
           r == p % wsize
           u == (r + k) \div wsize
           v == (r + k) % wsize
<1>1. wsize \in Nat \ {0} /\ p \in Nat
  BY WordSize, BlockPlace
<1>2. q \in Nat /\ r \in 0 .. (wsize - 1) /\ p = wsize * q + r
  <2> HIDE DEF p
  <2> QED
    BY <1>1, DivMod
<1>3. r + k \in Nat
  <2> HIDE DEF p, q, r
  <2> QED
    BY <1>1, <1>2
<1>4. u \in Nat /\ v \in 0 .. (wsize - 1) /\ r + k = wsize * u + v
  <2> HIDE DEF r
  <2> QED
    BY <1>1, <1>3, DivMod
<1> HIDE DEF p, q, r, u, v
<1>5. p + k = wsize * (q + u) + v /\ q + u \in Nat
  <2>1. wsize * (q + u) = wsize * q + wsize * u /\ wsize * q \in Nat /\ wsize * u \in Nat
    BY <1>1, <1>2, <1>4
  <2> QED
    BY <1>1, <1>2, <1>4, <2>1
<1>6. (p + k) \div wsize = q + u /\ (p + k) % wsize = v
  BY <1>1, <1>4, <1>5, DivModUnique, ZenonT(40)
<1> QED
  BY <1>2, <1>6 DEF start_bit, word_index, p, q, r, u, v

-----------------------------------------------------------------------------
\* The reader.

ReaderState == [words : Nat, buffer : Nat, bit : 0 .. (wsize - 1)]

\* The reader's next bit is bit p of the device's words.
AtIn(mem, r, p) ==
  /\ r \in ReaderState
  /\ p = wsize * r.words + r.bit
  /\ r.buffer = mem[r.words] \div 2 ^ r.bit
AtPosition(r, p) == AtIn(device, r, p)

\* v is the number that n bits of the device's words from p on make.
IsBits(v, p, n) ==
  /\ v \in Nat /\ v < 2 ^ n
  /\ \A k \in 0 .. (n - 1) : BitAt(v, k) = StreamBit(device, p + k)

\* The first power of two.
LEMMA TwoOne == 2 ^ 1 = 2 /\ 1 \in 0 .. wsize
<1>1. 0 \in 0 .. (wsize - 1) /\ 0 + 1 = 1 /\ wsize \in Nat /\ 1 \in 0 .. wsize
  BY WordSize
<1>2. 2 ^ (0 + 1) = 2 * 2 ^ 0
  BY <1>1, Powers
<1> QED
  BY <1>1, <1>2, Powers

\* Quotient and remainder by a power of two.
LEMMA PowerDiv ==
  ASSUME NEW x \in Nat, NEW k \in 0 .. wsize
  PROVE  x \div 2 ^ k \in Nat /\ x % 2 ^ k \in Nat /\ x % 2 ^ k < 2 ^ k
<1> DEFINE d == 2 ^ k
<1>1. d \in Nat \ {0}
  BY Powers
<1> HIDE DEF d
<1>2. x \div d \in Nat /\ x % d \in 0 .. (d - 1)
  BY <1>1, DivMod
<1>3. x % d \in Nat /\ x % d < d
  BY <1>1, <1>2
<1> QED
  BY <1>2, <1>3 DEF d

\* Two parts fit as many bits as they have together.
LEMMA JoinBound ==
  ASSUME NEW s \in 0 .. wsize, NEW t \in 0 .. wsize, s + t <= wsize,
         NEW z, NEW a, NEW v, Joined(z, s, a, v), v < 2 ^ t
  PROVE  z \in Nat /\ z < 2 ^ (s + t)
<1>1. 2 ^ s \in Nat \ {0} /\ 2 ^ t \in Nat \ {0} /\ 2 ^ (s + t) = 2 ^ s * 2 ^ t
  BY Powers, PowerSum
<1>2. a \in Nat /\ a < 2 ^ s /\ v \in Nat /\ z = a + v * 2 ^ s
  BY DEF Joined
<1>3. v * 2 ^ s \in Nat /\ v * 2 ^ s <= (2 ^ t - 1) * 2 ^ s
  BY <1>1, <1>2
<1>4. (2 ^ t - 1) * 2 ^ s = 2 ^ s * 2 ^ t - 2 ^ s
  BY <1>1
<1> QED
  BY <1>1, <1>2, <1>3, <1>4

\* Words and bits of positions.
LEMMA Place ==
  ASSUME NEW w \in Nat, NEW i \in 0 .. (wsize - 1)
  PROVE  /\ wsize * w + i \in Nat
         /\ (wsize * w + i) \div wsize = w /\ (wsize * w + i) % wsize = i
         /\ \A mem : StreamBit(mem, wsize * w + i) = BitAt(mem[w], i)
<1>1. wsize \in Nat \ {0}
  BY WordSize
<1>2. wsize * w + i \in Nat
  BY <1>1
<1>3. (wsize * w + i) \div wsize = w /\ (wsize * w + i) % wsize = i
  BY <1>1, DivModUnique
<1> QED
  BY <1>2, <1>3 DEF StreamBit

\* A reader at a position of the stream is at an allocated word.
LEMMA ReaderWord ==
  ASSUME job \in Jobs, device \in [Memory -> Word],
         NEW r, NEW p, AtPosition(r, p), p <= blocks * job.maxbits
  PROVE  /\ p \in Nat
         /\ r.words \in Allocated /\ r.words + 1 \in Allocated
         /\ r.words \in Nat /\ r.bit \in 0 .. (wsize - 1)
         /\ device[r.words] \in Word /\ device[r.words + 1] \in Word
         /\ r.buffer \in Nat
<1>1. r.words \in Nat /\ r.bit \in 0 .. (wsize - 1) /\ p = wsize * r.words + r.bit /\ r.buffer \in Nat
  BY DEF AtPosition, AtIn, ReaderState
<1>2. p \in Nat /\ p \div wsize = r.words
  BY <1>1, Place
<1>3. r.words \in Allocated /\ r.words + 1 \in Allocated
  BY <1>2, PositionAllocated
<1>4. zfp_stream_maximum_size \in Nat
  BY AllocatedSize
<1>5. Allocated \subseteq Memory
  BY <1>4 DEF Allocated, Memory
<1> QED
  BY <1>1, <1>2, <1>3, <1>5

\* read_bit reads the bit at its position and moves on by one.
LEMMA ReadBit ==
  ASSUME job \in Jobs, device \in [Memory -> Word],
         NEW r, NEW p, AtPosition(r, p), p + 1 <= blocks * job.maxbits
  PROVE  /\ read_bit(r).reader.words \in Allocated
         /\ AtPosition(read_bit(r).reader, p + 1)
         /\ read_bit(r).value = StreamBit(device, p)
         /\ read_bit(r).value \in {0, 1}
<1> DEFINE w == r.words
           i == r.bit
           d == device[w]
           s == Used(r, 1)
           q == read_bit(r).reader
<1>0. blocks * job.maxbits \in Nat
  <2>1. blocks \in Nat /\ job.maxbits \in Nat
    BY JobFacts
  <2> QED
    BY <2>1
<1>00. r \in ReaderState /\ p = wsize * w + i /\ r.buffer = d \div 2 ^ i
  BY DEF AtPosition, AtIn
<1>01. p \in Nat /\ p <= blocks * job.maxbits
  <2>1. w \in Nat /\ i \in 0 .. (wsize - 1)
    BY <1>00 DEF ReaderState
  <2>2. p \in Nat
    BY <1>00, <2>1, Place
  <2> QED
    BY <1>0, <2>2
<1>1. /\ p \in Nat /\ w \in Allocated /\ w + 1 \in Allocated /\ w \in Nat /\ i \in 0 .. (wsize - 1)
      /\ d \in Word /\ device[w + 1] \in Word /\ r.buffer \in Nat
  BY <1>01, ReaderWord
<1>2. wsize \in Nat \ {0} /\ 2 ^ 0 = 1 /\ d \in Nat /\ device[w + 1] \in Nat
  BY <1>1, WordSize, Powers, WordIsNat
<1>3. read_bit(r).value = StreamBit(device, p)
  <2>1. StreamBit(device, p) = BitAt(d, i)
    BY <1>00, <1>1, Place
  <2> QED
    BY <1>00, <2>1 DEF read_bit, BitAt
<1>9. read_bit(r).value \in {0, 1}
  <2>1. i \in 0 .. wsize
    BY <1>1, <1>2
  <2>2. BitAt(d, i) \in {0, 1}
    BY <1>2, <2>1, BitRange
  <2>3. StreamBit(device, p) = BitAt(d, i)
    BY <1>00, <1>1, Place
  <2> QED
    BY <1>3, <2>2, <2>3
<1>4. r.buffer \div 2 = d \div 2 ^ (i + 1) /\ r.buffer \div 2 \in Nat
  <2>1. 2 ^ 1 = 2 /\ i \in 0 .. wsize /\ 1 \in 0 .. wsize /\ i + 1 <= wsize
    BY <1>1, <1>2, TwoOne
  <2>2. (d \div 2 ^ i) \div 2 ^ 1 = d \div 2 ^ (i + 1)
    BY <1>2, <2>1, BitOfQuotient
  <2>3. r.buffer \div 2 \in Nat
    BY <1>1, DivMod
  <2> QED
    BY <1>00, <2>1, <2>2, <2>3
<1>5. s = [words |-> w, buffer |-> r.buffer \div 2, bit |-> i + 1]
  <2>1. 2 ^ 1 = 2
    BY <1>2, TwoOne
  <2> QED
    BY <2>1 DEF Used
<1>6. q = IF i + 1 >= wsize THEN [words |-> w + 1, buffer |-> device[w + 1], bit |-> 0] ELSE s
  BY <1>5 DEF read_bit, NextWord
<1>7. CASE i + 1 >= wsize
  <2>1. q = [words |-> w + 1, buffer |-> device[w + 1], bit |-> 0]
    BY <1>6, <1>7
  <2>2. p + 1 = wsize * (w + 1) + 0
    <3> HIDE DEF w, i
    <3>1. wsize * (w + 1) = wsize * w + wsize /\ wsize * w \in Nat
      BY <1>1, <1>2
    <3> QED
      BY <1>00, <1>1, <1>2, <1>7, <3>1
  <2>3. device[w + 1] = device[w + 1] \div 2 ^ 0
    BY <1>2
  <2>4. AtPosition(q, p + 1)
    BY <1>1, <1>2, <2>1, <2>2, <2>3 DEF AtPosition, AtIn, ReaderState
  <2>5. q.words \in Allocated
    BY <1>1, <2>1
  <2> QED
    BY <1>3, <1>9, <2>4, <2>5
<1>8. CASE ~ (i + 1 >= wsize)
  <2>1. q = [words |-> w, buffer |-> r.buffer \div 2, bit |-> i + 1]
    BY <1>5, <1>6, <1>8
  <2>2. p + 1 = wsize * w + (i + 1) /\ i + 1 \in 0 .. (wsize - 1)
    <3>1. wsize * w \in Nat
      BY <1>1, <1>2
    <3> QED
      BY <1>00, <1>1, <1>2, <1>8, <3>1
  <2>4. AtPosition(q, p + 1)
    BY <1>1, <1>2, <1>4, <2>1, <2>2 DEF AtPosition, AtIn, ReaderState
  <2>5. q.words \in Allocated
    BY <1>1, <2>1
  <2> QED
    BY <1>3, <1>9, <2>4, <2>5
<1> QED
  BY <1>7, <1>8

\* read_bits reads the n bits at its position and moves on by n, also across words.
LEMMA ReadBits ==
  ASSUME job \in Jobs, device \in [Memory -> Word], NEW n \in 0 .. wsize,
         NEW r, NEW p, AtPosition(r, p), p + n <= blocks * job.maxbits
  PROVE  /\ read_bits(r, n).reader.words \in Allocated
         /\ AtPosition(read_bits(r, n).reader, p + n)
         /\ IsBits(read_bits(r, n).value, p, n)
<1> DEFINE w == r.words
           i == r.bit
           d == device[w]
           f == device[w + 1]
           rem == wsize - i
           q == read_bits(r, n).reader
           v == read_bits(r, n).value
<1>0. r \in ReaderState /\ p = wsize * w + i /\ r.buffer = d \div 2 ^ i
  BY DEF AtPosition, AtIn
<1>1. p \in Nat /\ p <= blocks * job.maxbits
  <2>1. w \in Nat /\ i \in 0 .. (wsize - 1)
    BY <1>0 DEF ReaderState
  <2>2. p \in Nat
    BY <1>0, <2>1, Place
  <2>3. blocks * job.maxbits \in Nat
    <3>1. blocks \in Nat /\ job.maxbits \in Nat
      BY JobFacts
    <3> QED
      BY <3>1
  <2> HIDE DEF w, i
  <2> QED
    BY <2>2, <2>3, WordSize
<1>2. /\ w \in Allocated /\ w + 1 \in Allocated /\ w \in Nat /\ i \in 0 .. (wsize - 1)
      /\ d \in Word /\ f \in Word /\ r.buffer \in Nat
  BY <1>1, ReaderWord
<1>3. /\ wsize \in Nat \ {0} /\ 2 ^ 0 = 1 /\ d \in Nat /\ f \in Nat
      /\ i \in 0 .. wsize /\ rem \in 1 .. wsize /\ i + rem = wsize /\ n \in Nat
  BY <1>2, WordSize, Powers, WordIsNat
<1>4. ASSUME NEW k \in 0 .. wsize, i + k <= wsize
      PROVE  /\ r.buffer \div 2 ^ k = d \div 2 ^ (i + k)
             /\ BitAt(r.buffer, k) = BitAt(d, i + k)
  <2> HIDE DEF w, i, d
  <2>1. /\ (d \div 2 ^ i) \div 2 ^ k = d \div 2 ^ (i + k)
        /\ BitAt(d \div 2 ^ i, k) = BitAt(d, i + k)
    BY <1>3, <1>4, BitOfQuotient
  <2> QED
    BY <1>0, <2>1
<1>5. ASSUME NEW k \in Nat, k < rem
      PROVE  StreamBit(device, p + k) = BitAt(d, i + k)
  <2>1. i + k \in 0 .. (wsize - 1)
    BY <1>2, <1>3, <1>5
  <2>2. p + k = wsize * w + (i + k)
    <3> HIDE DEF w, i
    <3>1. wsize * w \in Nat
      BY <1>2, <1>3
    <3> QED
      BY <1>0, <1>2, <3>1
  <2> QED
    BY <1>2, <2>1, <2>2, Place
<1>6. ASSUME NEW k \in Nat, rem <= k, k < rem + wsize
      PROVE  StreamBit(device, p + k) = BitAt(f, k - rem)
  <2>1. k - rem \in 0 .. (wsize - 1) /\ w + 1 \in Nat
    BY <1>2, <1>3, <1>6
  <2>2. p + k = wsize * (w + 1) + (k - rem)
    <3> HIDE DEF w, i
    <3>1. wsize * (w + 1) = wsize * w + wsize /\ wsize * w \in Nat
      BY <1>2, <1>3
    <3>2. rem \in Nat /\ i + rem = wsize /\ i \in Nat
      BY <1>2, <1>3
    <3> HIDE DEF rem
    <3> QED
      BY <1>0, <3>1, <3>2
  <2> QED
    BY <2>1, <2>2, Place
<1>7. CASE n < rem
  <2>1. /\ q = Used(Used(r, n), 0)
        /\ v = (r.buffer % 2 ^ n) + (Used(r, n).buffer % 2 ^ 0) * 2 ^ n
    BY <1>3, <1>7 DEF read_bits
  <2>2. n \in 0 .. wsize /\ i + n \in 0 .. (wsize - 1) /\ i + n <= wsize
    BY <1>2, <1>3, <1>7
  <2>3. Used(r, n) = [words |-> w, buffer |-> d \div 2 ^ (i + n), bit |-> i + n]
    BY <1>4, <2>2 DEF Used
  <2>4. 2 ^ n \in Nat \ {0} /\ 2 ^ (i + n) \in Nat \ {0} /\ i + n \in 0 .. wsize
    BY <2>2, Powers
  <2> DEFINE b == d \div 2 ^ (i + n)
  <2>5. b \in Nat
    <3> HIDE DEF i, d
    <3> QED
      BY <1>3, <2>4, BitRange
  <2> HIDE DEF b
  <2>6. b \div 2 ^ 0 = b /\ b % 2 ^ 0 = 0 /\ (i + n) + 0 = i + n
    BY <1>3, <2>2, <2>5
  <2>7. q = [words |-> w, buffer |-> b, bit |-> i + n]
    BY <2>1, <2>3, <2>6 DEF Used, b
  <2>8. v = r.buffer % 2 ^ n
    <3>1. r.buffer % 2 ^ n \in Nat
      BY <1>2, <2>2, PowerDiv
    <3>2. Used(r, n).buffer % 2 ^ 0 = 0
      BY <2>3, <2>6 DEF b
    <3> QED
      BY <2>1, <2>4, <3>1, <3>2
  <2>9. p + n = wsize * w + (i + n)
    <3> HIDE DEF w, i
    <3>1. wsize * w \in Nat
      BY <1>2, <1>3
    <3> QED
      BY <1>0, <1>2, <3>1
  <2>10. AtPosition(q, p + n) /\ q.words \in Allocated
    BY <1>2, <2>2, <2>5, <2>7, <2>9 DEF AtPosition, AtIn, ReaderState, b
  <2>11. IsBits(v, p, n)
    <3>1. v \in Nat /\ v < 2 ^ n
      BY <1>2, <2>2, <2>8, PowerDiv
    <3>2. ASSUME NEW k \in 0 .. (n - 1)
          PROVE  BitAt(v, k) = StreamBit(device, p + k)
      <4>1. k \in Nat /\ k < n /\ k < rem /\ k \in 0 .. wsize /\ i + k <= wsize /\ k \in 0 .. (wsize - 1)
        BY <1>2, <1>3, <1>7
      <4>2. BitAt(v, k) = BitAt(r.buffer, k)
        BY <1>2, <2>8, <4>1, BitOfRemainder
      <4> QED
        BY <1>4, <1>5, <4>1, <4>2
    <3> QED
      BY <3>1, <3>2 DEF IsBits
  <2> QED
    BY <2>10, <2>11
<1>8. CASE ~ (n < rem)
  <2> DEFINE l == n - rem
             g == f \div 2 ^ l
             lo == r.buffer % 2 ^ rem
             hi == f % 2 ^ l
  <2>1. /\ q = Used(NextWord(r), l)
        /\ v = (r.buffer % 2 ^ rem) + (NextWord(r).buffer % 2 ^ l) * 2 ^ rem
    <3>1. n >= rem /\ (IF rem < n THEN rem ELSE n) = rem
      BY <1>3, <1>8
    <3> QED
      BY <3>1 DEF read_bits
  <2>2. NextWord(r) = [words |-> w + 1, buffer |-> f, bit |-> 0]
    BY DEF NextWord
  <2>3. l \in 0 .. wsize /\ l \in 0 .. (wsize - 1) /\ rem \in 0 .. wsize /\ rem + l = n /\ 0 + l = l
    BY <1>2, <1>3, <1>8
  <2>4. q = [words |-> w + 1, buffer |-> g, bit |-> l]
    BY <2>1, <2>2, <2>3 DEF Used
  <2>5. v = lo + hi * 2 ^ rem
    BY <2>1, <2>2
  <2> HIDE DEF l, rem
  <2>6. g \in Nat /\ lo \in Nat /\ lo < 2 ^ rem /\ hi \in Nat /\ hi < 2 ^ l
    <3> HIDE DEF f
    <3> QED
      BY <1>2, <1>3, <2>3, PowerDiv
  <2>7. Joined(v, rem, lo, hi)
    BY <2>3, <2>5, <2>6 DEF Joined
  <2> HIDE DEF lo, hi, v, q
  <2>8. p + n = wsize * (w + 1) + l
    <3> HIDE DEF w, i
    <3>1. wsize * (w + 1) = wsize * w + wsize /\ wsize * w \in Nat
      BY <1>2, <1>3
    <3> QED
      BY <1>0, <1>2, <1>3, <2>3, <3>1
  <2>9. AtPosition(q, p + n) /\ q.words \in Allocated
    BY <1>2, <2>3, <2>4, <2>6, <2>8 DEF AtPosition, AtIn, ReaderState
  <2>10. v \in Nat /\ v < 2 ^ n
    <3>1. v \in Nat /\ v < 2 ^ (rem + l)
      BY <2>3, <2>6, <2>7, JoinBound
    <3> QED
      BY <2>3, <3>1
  <2>11. ASSUME NEW k \in 0 .. (n - 1)
         PROVE  BitAt(v, k) = StreamBit(device, p + k)
    <3>1. k \in Nat /\ k \in 0 .. (wsize - 1) /\ k \in 0 .. wsize /\ k < n
      BY <1>3
    <3>2. CASE k < rem
      <4>1. BitAt(v, k) = BitAt(lo, k)
        BY <2>7, <3>1, <3>2, BitOfJoin
      <4>2. BitAt(lo, k) = BitAt(r.buffer, k)
        BY <1>2, <2>3, <3>1, <3>2, BitOfRemainder DEF lo
      <4>3. i + k <= wsize
        BY <1>2, <1>3, <3>1, <3>2
      <4> QED
        BY <1>4, <1>5, <3>1, <3>2, <4>1, <4>2, <4>3
    <3>3. CASE k >= rem
      <4> DEFINE j == k - rem
      <4>1. j \in 0 .. (wsize - 1) /\ j < l /\ k < rem + wsize /\ rem <= k
        BY <1>3, <2>3, <3>1, <3>3
      <4>2. BitAt(v, k) = BitAt(hi, j)
        BY <2>7, <3>1, <3>3, BitOfJoin
      <4>3. StreamBit(device, p + k) = BitAt(f, j)
        BY <1>6, <3>1, <4>1
      <4> HIDE DEF j, f
      <4>4. BitAt(hi, j) = BitAt(f, j)
        BY <1>3, <2>3, <4>1, BitOfRemainder DEF hi
      <4> QED
        BY <4>2, <4>3, <4>4
    <3> QED
      BY <1>3, <3>1, <3>2, <3>3
  <2> QED
    BY <2>9, <2>10, <2>11 DEF IsBits, q, v
<1> QED
  BY <1>7, <1>8

\* A bit is a number of one bit.
LEMMA OneBit ==
  ASSUME NEW v \in {0, 1}
  PROVE  v \in Nat /\ v < 2 ^ 1 /\ BitAt(v, 0) = v
<1>1. 2 ^ 0 = 1 /\ 0 \div 1 = 0 /\ 1 \div 1 = 1 /\ 0 % 2 = 0 /\ 1 % 2 = 1
  BY Powers
<1> QED
  BY <1>1, TwoOne DEF BitAt

\* A call of the decoder reads the bits at its place.
LEMMA ReadsCall ==
  ASSUME job \in Jobs, device \in [Memory -> Word],
         NEW c, c.n \in 0 .. wsize, c.call \in {"bits", "bit", "exponent"},
         c.call = "bit" => c.n = 1, c.call = "exponent" => c.n > 0,
         NEW r, NEW p, AtPosition(r, p), p + c.n <= blocks * job.maxbits
  PROVE  /\ ReadCall(r, c).reader.words \in Allocated
         /\ AtPosition(ReadCall(r, c).reader, p + c.n)
         /\ IsBits(ReadCall(r, c).value, p, c.n)
<1>1. CASE c.call = "bits"
  <2>1. ReadCall(r, c) = read_bits(r, c.n)
    BY <1>1 DEF ReadCall
  <2>2. /\ read_bits(r, c.n).reader.words \in Allocated
        /\ AtPosition(read_bits(r, c.n).reader, p + c.n)
        /\ IsBits(read_bits(r, c.n).value, p, c.n)
    BY ReadBits
  <2> QED
    BY <2>1, <2>2
<1>2. CASE c.call = "bit"
  <2>1. ReadCall(r, c) = read_bit(r) /\ c.n = 1
    BY <1>2 DEF ReadCall
  <2>2. /\ read_bit(r).reader.words \in Allocated
        /\ AtPosition(read_bit(r).reader, p + 1)
        /\ read_bit(r).value = StreamBit(device, p)
        /\ read_bit(r).value \in {0, 1}
    BY <2>1, ReadBit
  <2>3. p \in Nat
    <3>1. r.words \in Nat /\ r.bit \in 0 .. (wsize - 1) /\ p = wsize * r.words + r.bit
      BY DEF AtPosition, AtIn, ReaderState
    <3> QED
      BY <3>1, Place
  <2> DEFINE v == read_bit(r).value
  <2> HIDE DEF v
  <2>4. IsBits(v, p, 1)
    <3>1. v \in {0, 1} /\ v = StreamBit(device, p)
      BY <2>2 DEF v
    <3>2. v \in Nat /\ v < 2 ^ 1 /\ BitAt(v, 0) = v
      BY <3>1, OneBit
    <3>3. ASSUME NEW k \in 0 .. (1 - 1) PROVE k = 0 /\ p + k = p
      BY <2>3
    <3> QED
      BY <3>1, <3>2, <3>3 DEF IsBits
  <2> QED
    BY <2>1, <2>2, <2>4 DEF v
<1>3. CASE c.call = "exponent"
  <2> DEFINE one == read_bit(r)
             m == c.n - 1
             rest == read_bits(one.reader, m)
             v == one.value + 2 * rest.value
             q == rest.reader
  <2>1. ReadCall(r, c) = [value |-> v, reader |-> q]
    BY <1>3 DEF ReadCall
  <2>2. p \in Nat /\ wsize \in Nat /\ m \in 0 .. wsize /\ m \in Nat /\ m + 1 = c.n /\ 1 + m <= wsize
    <3>1. r.words \in Nat /\ r.bit \in 0 .. (wsize - 1) /\ p = wsize * r.words + r.bit
      BY DEF AtPosition, AtIn, ReaderState
    <3>2. p \in Nat
      BY <3>1, Place
    <3> QED
      BY <1>3, <3>2, WordSize
  <2>3. blocks * job.maxbits \in Nat
    <3>1. blocks \in Nat /\ job.maxbits \in Nat
      BY JobFacts
    <3> QED
      BY <3>1
  <2>4. p + 1 <= blocks * job.maxbits /\ (p + 1) + m <= blocks * job.maxbits /\ (p + 1) + m = p + c.n
    BY <2>2, <2>3
  <2>5. /\ AtPosition(one.reader, p + 1) /\ one.value = StreamBit(device, p) /\ one.value \in {0, 1}
    BY <2>4, ReadBit
  <2>6. /\ q.words \in Allocated /\ AtPosition(q, (p + 1) + m)
        /\ IsBits(rest.value, p + 1, m)
    <3> HIDE DEF one, m
    <3> QED
      BY <2>2, <2>4, <2>5, ReadBits
  <2> DEFINE a == one.value
             h == rest.value
  <2>7. a \in {0, 1} /\ a = StreamBit(device, p) /\ IsBits(h, p + 1, m) /\ v = a + 2 * h
    BY <2>5, <2>6
  <2> HIDE DEF a, h, v, m
  <2>8. h \in Nat /\ h < 2 ^ m /\ \A k \in 0 .. (m - 1) : BitAt(h, k) = StreamBit(device, (p + 1) + k)
    BY <2>7 DEF IsBits
  <2>9. a \in Nat /\ a < 2 ^ 1 /\ BitAt(a, 0) = a
    BY <2>7, OneBit
  <2>10. Joined(v, 1, a, h)
    <3>1. v = a + h * 2 ^ 1
      BY <2>7, <2>8, <2>9, TwoOne
    <3> QED
      BY <2>8, <2>9, <3>1, TwoOne DEF Joined
  <2>11. v \in Nat /\ v < 2 ^ c.n
    <3>1. v \in Nat /\ v < 2 ^ (1 + m)
      BY <2>2, <2>8, <2>10, TwoOne, JoinBound
    <3>2. 1 + m = c.n
      BY <2>2
    <3> QED
      BY <3>1, <3>2
  <2>12. ASSUME NEW k \in 0 .. (c.n - 1)
         PROVE  BitAt(v, k) = StreamBit(device, p + k)
    <3>1. k \in 0 .. (wsize - 1) /\ k \in Nat
      BY <2>2
    <3>2. CASE k = 0
      <4>1. BitAt(v, 0) = BitAt(a, 0)
        BY <2>10, <3>1, <3>2, BitOfJoin
      <4>2. p + 0 = p
        BY <2>2
      <4> QED
        BY <2>7, <2>9, <3>2, <4>1, <4>2
    <3>3. CASE k >= 1
      <4> DEFINE j == k - 1
      <4>1. j \in 0 .. (m - 1) /\ (p + 1) + j = p + k
        BY <2>2, <3>1, <3>3
      <4>2. BitAt(v, k) = BitAt(h, j)
        BY <2>10, <3>1, <3>3, BitOfJoin
      <4> HIDE DEF j
      <4> QED
        BY <2>8, <4>1, <4>2
    <3> QED
      BY <3>1, <3>2, <3>3
  <2>13. IsBits(v, p, c.n)
    BY <2>11, <2>12 DEF IsBits
  <2>14. ReadCall(r, c).reader = q /\ ReadCall(r, c).value = v
    BY <2>1
  <2> HIDE DEF q
  <2> QED
    BY <2>4, <2>6, <2>13, <2>14
<1> QED
  BY <1>1, <1>2, <1>3

-----------------------------------------------------------------------------
\* Threads that write.

\* What a thread may hold.
ThreadState == [next : Nat \ {0}, current : Nat, step : {"first", "second"}, part : Nat,
                buf : Word, loaded : Word \cup {None}]

\* The bit of its word that a thread is at.
Segment(b, t) == (start_bit(b) + t.current) % wsize

\* Thread t of block b is at a call of it, or done with the calls, where that call begins; only
\* threads that store whole words load, a word that is complete or the last one.
WriterAt(b, t) ==
  /\ t \in ThreadState
  /\ t.next <= Len(Code(b)) + 2
  /\ t.current = At(b, t.next)
  /\ IF t.next <= Len(Code(b)) THEN t.part <= Code(b)[t.next].n ELSE t.part = 0
  /\ t.step = "second" => t.next <= Len(Code(b))
  /\ t.step = "second" /\ job.gpu = "metal" =>
       ~ atomic_mode /\ Segment(b, t) + Code(b)[t.next].n >= wsize
  /\ t.loaded # None => /\ job.gpu = "metal" /\ ~ atomic_mode
                        /\ t.step = "first" => t.next = Len(Code(b)) + 1 /\ Segment(b, t) > 0

\* None is told from words.
LEMMA NoneIsNoWord == None \notin Word /\ None \in Word \cup {None}
<1>1. 2 ^ wsize \in Nat
  BY Powers, WordSize
<1> QED
  BY <1>1 DEF Word, None

\* The fields of a thread.
LEMMA ThreadFields ==
  ASSUME NEW t \in ThreadState
  PROVE  /\ t.next \in Nat \ {0} /\ t.current \in Nat /\ t.step \in {"first", "second"}
         /\ t.part \in Nat /\ t.buf \in Word /\ t.loaded \in Word \cup {None}
  BY DEF ThreadState

\* The fields of a thread that has done a call.
LEMMA CalledFields ==
  ASSUME NEW t, NEW n, NEW buf
  PROVE  LET s == Called(t, n, buf)
         IN  /\ s.next = t.next + 1 /\ s.current = t.current + n /\ s.step = "first"
             /\ s.part = 0 /\ s.buf = buf /\ s.loaded = None
  BY DEF Called

\* A thread that has done a call is a thread.
LEMMA CalledState ==
  ASSUME NEW t \in ThreadState, NEW n \in Nat, NEW buf \in Word
  PROVE  Called(t, n, buf) \in ThreadState
<1>1. t.next + 1 \in Nat \ {0} /\ t.current + n \in Nat
  BY ThreadFields
<1>2. 0 \in Nat /\ None \in Word \cup {None} /\ "first" \in {"first", "second"}
  BY NoneIsNoWord
<1> QED
  BY <1>1, <1>2 DEF Called, ThreadState

\* A thread that is not in the middle of a call.
LEMMA Between ==
  ASSUME NEW b, NEW s, s \in ThreadState, s.next <= Len(Code(b)) + 2, s.current = At(b, s.next),
         IF s.next <= Len(Code(b)) THEN s.part <= Code(b)[s.next].n ELSE s.part = 0,
         s.step # "second", s.loaded = None
  PROVE  WriterAt(b, s)
<1>1. s.step = "second" => s.next <= Len(Code(b))
  OBVIOUS
<1>2. s.step = "second" /\ job.gpu = "metal" =>
        ~ atomic_mode /\ Segment(b, s) + Code(b)[s.next].n >= wsize
  OBVIOUS
<1>3. s.loaded # None => /\ job.gpu = "metal" /\ ~ atomic_mode
                         /\ s.step = "first" => s.next = Len(Code(b)) + 1 /\ Segment(b, s) > 0
  OBVIOUS
<1> QED
  BY <1>1, <1>2, <1>3 DEF WriterAt

\* A thread that finishes its call.
LEMMA CallDone ==
  ASSUME job \in Jobs, NEW b \in Blocks, NEW t, WriterAt(b, t), t.next <= Len(Code(b)),
         NEW buf \in Word
  PROVE  WriterAt(b, Called(t, Code(b)[t.next].n, buf))
<1> DEFINE i == t.next
           n == Code(b)[i].n
           s == Called(t, n, buf)
           l == Len(Code(b))
<1>1. t \in ThreadState /\ i \in Nat \ {0} /\ l \in Nat /\ i <= l /\ t.current = At(b, i)
  BY ThreadFields, CallFacts DEF WriterAt
<1>2. i \in Calls(b)
  BY <1>1 DEF Calls
<1>3. n \in 0 .. wsize /\ At(b, i + 1) = At(b, i) + n
  BY <1>2, CallFacts, AtFacts
<1>4. n \in Nat
  BY <1>3, WordSize
<1>5. s \in ThreadState
  BY <1>1, <1>4, CalledState
<1>6. /\ s.next = i + 1 /\ s.current = t.current + n /\ s.step = "first"
      /\ s.part = 0 /\ s.loaded = None
  BY CalledFields
<1>7. i + 1 <= l + 2 /\ s.current = At(b, i + 1)
  BY <1>1, <1>3, <1>6
<1>8. IF s.next <= l THEN s.part <= Code(b)[s.next].n ELSE s.part = 0
  <2>1. ASSUME s.next <= l PROVE Code(b)[s.next].n \in 0 .. wsize
    <3>1. s.next \in Calls(b)
      BY <1>1, <1>6, <2>1 DEF Calls
    <3> QED
      BY <3>1, CallFacts
  <2>2. ASSUME s.next <= l PROVE 0 <= Code(b)[s.next].n
    BY <2>1, <2>2, WordSize
  <2> HIDE DEF s, l
  <2> QED
    BY <1>6, <2>2
<1> HIDE DEF s
<1>9. s.next <= l + 2 /\ s.current = At(b, s.next)
  BY <1>6, <1>7
<1>10. s.step # "second"
  BY <1>6
<1> QED
  BY <1>5, <1>6, <1>8, <1>9, <1>10, Between DEF s

\* A thread that has stored its last word.
LEMMA FlushDone ==
  ASSUME job \in Jobs, NEW b \in Blocks, NEW t, WriterAt(b, t), t.next = Len(Code(b)) + 1
  PROVE  WriterAt(b, Called(t, 0, 0))
<1> DEFINE s == Called(t, 0, 0)
           l == Len(Code(b))
<1>1. t \in ThreadState /\ l \in Nat /\ t.current = At(b, t.next) /\ t.current \in Nat
  BY ThreadFields, CallFacts DEF WriterAt
<1>2. s \in ThreadState
  BY <1>1, CalledState, ZeroWord
<1>3. /\ s.next = t.next + 1 /\ s.current = t.current + 0 /\ s.step = "first"
      /\ s.part = 0 /\ s.loaded = None
  BY CalledFields
<1>4. s.next = l + 2 /\ ~ (s.next <= l) /\ s.current = t.current
  BY <1>1, <1>3
<1>5. At(b, l + 1) = CodeSize(b) /\ At(b, l + 2) = CodeSize(b)
  <2>1. l + 1 \in Nat /\ l + 1 > l /\ l + 2 \in Nat /\ l + 2 > l
    BY <1>1
  <2> QED
    BY <2>1, AtFacts
<1>6. s.current = At(b, s.next)
  BY <1>1, <1>4, <1>5
<1>7. s.next <= l + 2 /\ s.step # "second"
  BY <1>1, <1>3, <1>4
<1>8. IF s.next <= l THEN s.part <= Code(b)[s.next].n ELSE s.part = 0
  BY <1>3, <1>4
<1> HIDE DEF s
<1> QED
  BY <1>2, <1>3, <1>6, <1>7, <1>8, Between DEF s

\* A thread in the middle of a call is a thread.
LEMMA HalfwayState ==
  ASSUME NEW t \in ThreadState, NEW buf \in Word
  PROVE  LET s == Halfway(t, buf)
         IN  /\ s \in ThreadState
             /\ s.next = t.next /\ s.current = t.current /\ s.step = "second"
             /\ s.part = t.part /\ s.buf = buf /\ s.loaded = t.loaded
  BY ThreadFields DEF Halfway, ThreadState

\* A thread in the middle of its call.
LEMMA HalfDone ==
  ASSUME job \in Jobs, NEW b \in Blocks, NEW t, WriterAt(b, t), t.next <= Len(Code(b)),
         t.step = "first", NEW buf \in Word,
         job.gpu = "metal" => ~ atomic_mode /\ Segment(b, t) + Code(b)[t.next].n >= wsize
  PROVE  WriterAt(b, Halfway(t, buf))
<1> DEFINE s == Halfway(t, buf)
<1>1. t \in ThreadState /\ t.next \in Nat /\ Len(Code(b)) \in Nat
  BY ThreadFields, CallFacts DEF WriterAt
<1>2. /\ s \in ThreadState
      /\ s.next = t.next /\ s.current = t.current /\ s.step = "second"
      /\ s.part = t.part /\ s.buf = buf /\ s.loaded = t.loaded
  BY <1>1, HalfwayState
<1> HIDE DEF s
<1>3. s.next <= Len(Code(b)) + 2 /\ s.current = At(b, s.next)
  BY <1>2 DEF WriterAt
<1>4. IF s.next <= Len(Code(b)) THEN s.part <= Code(b)[s.next].n ELSE s.part = 0
  BY <1>2 DEF WriterAt
<1>5. s.step = "second" => s.next <= Len(Code(b))
  BY <1>2
<1>6. Segment(b, s) = Segment(b, t)
  BY <1>2 DEF Segment
<1>7. s.step = "second" /\ job.gpu = "metal" =>
        ~ atomic_mode /\ Segment(b, s) + Code(b)[s.next].n >= wsize
  BY <1>2, <1>6
<1>8. s.loaded = None
  BY <1>1, <1>2 DEF WriterAt
<1>9. WriterAt(b, s)
  BY <1>2, <1>3, <1>4, <1>5, <1>7, <1>8 DEF WriterAt
<1> QED
  BY <1>9 DEF s

\* A thread that has set a part of the bits of a call.
LEMMA PartDone ==
  ASSUME job \in Jobs, NEW b \in Blocks, NEW t, WriterAt(b, t), t.next <= Len(Code(b)),
         t.step = "first", t.loaded = None,
         NEW p \in Nat, p <= Code(b)[t.next].n
  PROVE  WriterAt(b, [t EXCEPT !.part = p])
<1> DEFINE s == [t EXCEPT !.part = p]
<1>1. t \in ThreadState
  BY DEF WriterAt
<1>2. /\ s.next = t.next /\ s.current = t.current /\ s.step = t.step
      /\ s.part = p /\ s.buf = t.buf /\ s.loaded = t.loaded
  BY <1>1 DEF ThreadState
<1>3. s = [next |-> t.next, current |-> t.current, step |-> t.step, part |-> p,
           buf |-> t.buf, loaded |-> t.loaded]
  BY <1>1 DEF ThreadState
<1>4. s \in ThreadState
  BY <1>1, <1>3, ThreadFields DEF ThreadState
<1>6. s.next <= Len(Code(b)) + 2 /\ s.current = At(b, s.next) /\ s.step # "second"
  BY <1>2 DEF WriterAt
<1>7. IF s.next <= Len(Code(b)) THEN s.part <= Code(b)[s.next].n ELSE s.part = 0
  BY <1>2
<1> HIDE DEF s
<1> QED
  BY <1>2, <1>4, <1>6, <1>7, Between DEF s

-----------------------------------------------------------------------------
\* The control invariant.

\* A block that is not decoded has calls left, or none at all, and its reader is at the next.
Reading(b) ==
  b \notin decoded =>
    /\ Len(got[b]) < Len(Code(b)) \/ got[b] = <<>>
    /\ pc = "decode" => AtIn(device, reader[b], Bit0(b) + At(b, Len(got[b]) + 1))

TypeOK ==
  /\ job \in Jobs
  /\ pc \in {"setup", "encode", "copy", "decode", "done"}
  /\ device \in [Memory -> Word]
  /\ host \in [Allocated -> Word]
  /\ thread \in [Blocks -> ThreadState]
  /\ got \in [Blocks -> Seq(Nat)]
  /\ pc = "decode" => DOMAIN reader = Blocks

Phases ==
  /\ pc \in {"setup", "encode", "copy"} => decoded = {} /\ \A b \in Blocks : got[b] = <<>>
  /\ pc = "setup" => thread = Fresh

\* Where every thread is, and every reader.
Control ==
  /\ TypeOK
  /\ Phases
  /\ \A b \in Blocks : WriterAt(b, thread[b])
  /\ \A b \in Blocks : Reading(b)
  /\ touched \subseteq Allocated

\* What depends on the job only.
LEMMA JobKept ==
  ASSUME job' = job
  PROVE  /\ blocks' = blocks /\ Blocks' = Blocks
         /\ Allocated' = Allocated /\ Memory' = Memory /\ Wrapped' = Wrapped
         /\ zfp_calc_stream_words' = zfp_calc_stream_words
         /\ atomic_mode' = atomic_mode
         /\ Fresh' = Fresh
         /\ \A b : Code(b)' = Code(b)
         /\ \A b : CodeSize(b)' = CodeSize(b)
         /\ \A b : Bit0(b)' = Bit0(b)
         /\ \A b : start_bit(b)' = start_bit(b)
  BY DEF blocks, Blocks, Allocated, Memory, Wrapped, zfp_stream_maximum_size, zfp_calc_stream_words,
         CeilDiv, atomic_mode, Fresh, Code, CodeSize, Bit0, start_bit

\* What is said of a thread holds after a step that leaves the job alone.
LEMMA WriterKept ==
  ASSUME job' = job, NEW b, WriterAt(b, thread'[b])
  PROVE  WriterAt(b, thread[b])'
<1>1. /\ Code(b)' = Code(b) /\ CodeSize(b)' = CodeSize(b) /\ start_bit(b)' = start_bit(b)
      /\ atomic_mode' = atomic_mode
  BY JobKept
<1> QED
  BY <1>1 DEF WriterAt, At, Segment, ThreadState, Word

\* The same of a reader.
LEMMA ReadingKept ==
  ASSUME job' = job, NEW b,
         b \notin decoded' =>
           /\ Len(got'[b]) < Len(Code(b)) \/ got'[b] = <<>>
           /\ pc' = "decode" => AtIn(device', reader'[b], Bit0(b) + At(b, Len(got'[b]) + 1))
  PROVE  Reading(b)'
<1>1. Code(b)' = Code(b) /\ CodeSize(b)' = CodeSize(b) /\ Bit0(b)' = Bit0(b)
  BY JobKept
<1> QED
  BY <1>1 DEF Reading, AtIn, At, ReaderState

\* Words that are allocated are words of the memory.
LEMMA AllocatedIsMemory ==
  ASSUME job \in Jobs
  PROVE  Allocated \subseteq Memory
<1>1. zfp_stream_maximum_size \in Nat
  BY AllocatedSize
<1> QED
  BY <1>1 DEF Allocated, Memory

\* Initially nothing is written, read or accessed.
LEMMA InitControl == Init => Control
<1> SUFFICES ASSUME Init PROVE Control
  OBVIOUS
<1>1. /\ job \in Jobs /\ pc = "setup" /\ thread = Fresh /\ decoded = {} /\ touched = {}
      /\ got = [b \in Blocks |-> <<>>]
  BY DEF Init, Blocks
<1>2. 0 \in Word /\ Stale \in Word
  <2>1. 2 ^ wsize \in Nat /\ 2 ^ wsize > 0
    BY Powers, WordSize
  <2> QED
    BY <2>1, ZeroWord DEF Stale, Word
<1>3. device \in [Memory -> Word] /\ host \in [Allocated -> Word]
  BY <1>2 DEF Init
<1>4. got \in [Blocks -> Seq(Nat)] /\ \A b \in Blocks : got[b] = <<>>
  BY <1>1
<1> DEFINE t == [next |-> 1, current |-> 0, step |-> "first", part |-> 0, buf |-> 0, loaded |-> None]
<1>5. thread = [b \in Blocks |-> t] /\ t \in ThreadState
  BY <1>1, <1>2, NoneIsNoWord DEF Fresh, Blocks, ThreadState
<1>6. thread \in [Blocks -> ThreadState] /\ \A b \in Blocks : thread[b] = t
  BY <1>5
<1>7. ASSUME NEW b \in Blocks PROVE WriterAt(b, thread[b])
  <2>1. t.next = 1 /\ t.current = 0 /\ t.step # "second" /\ t.part = 0 /\ t.loaded = None
    OBVIOUS
  <2>2. Len(Code(b)) \in Nat /\ At(b, 1) = 0
    BY <1>1, CallFacts, AtFacts
  <2>3. 1 <= Len(Code(b)) => Code(b)[1].n >= 0
    <3> SUFFICES ASSUME 1 <= Len(Code(b)) PROVE Code(b)[1].n >= 0
      OBVIOUS
    <3>1. 1 \in Calls(b)
      BY <2>2 DEF Calls
    <3>2. Code(b)[1].n \in 0 .. wsize
      BY <1>1, <3>1, CallFacts
    <3> QED
      BY <3>2, WordSize
  <2> HIDE DEF t
  <2>4. IF t.next <= Len(Code(b)) THEN t.part <= Code(b)[t.next].n ELSE t.part = 0
    BY <2>1, <2>3
  <2>5. t.next <= Len(Code(b)) + 2 /\ t.current = At(b, t.next)
    BY <2>1, <2>2
  <2>6. WriterAt(b, t)
    BY <1>5, <2>1, <2>4, <2>5, Between
  <2> QED
    BY <1>6, <2>6
<1>8. ASSUME NEW b \in Blocks PROVE Reading(b)
  BY <1>1, <1>4 DEF Reading
<1> QED
  BY <1>1, <1>3, <1>4, <1>6, <1>7, <1>8 DEF Control, TypeOK, Phases

\* A call writes a number of n bits.
LEMMA MaskedFacts ==
  ASSUME job \in Jobs, NEW b \in Blocks, NEW i \in Calls(b)
  PROVE  LET c == Code(b)[i]
         IN  /\ c.n \in 0 .. wsize /\ c.n \in Nat /\ c.x \in Nat
             /\ Masked(c) \in Nat /\ Masked(c) < 2 ^ c.n /\ Masked(c) = c.x % 2 ^ c.n
             /\ Masked(c) \in Word
             /\ \A k \in 0 .. (c.n - 1) : BitAt(Masked(c), k) = BitAt(c.x, k)
<1> DEFINE c == Code(b)[i]
           x == c.x
           n == c.n
           p == 2 ^ n
<1>1. x \in Nat /\ n \in 0 .. wsize /\ (c.call = "bit" => n = 1 /\ x \in {0, 1})
  BY CallFacts
<1> DEFINE masked == Masked(c)
<1>2. masked = IF c.call = "bit" THEN x ELSE x - (x \div p) * p
  BY DEF Masked
<1> HIDE DEF c, x, n, masked
<1>3. p \in Nat \ {0} /\ n \in Nat /\ n <= wsize
  BY <1>1, Powers, WordSize
<1>4. x \div p \in Nat /\ x % p \in 0 .. (p - 1) /\ x = p * (x \div p) + (x % p)
  <2> HIDE DEF p
  <2> QED
    BY <1>1, <1>3, DivMod
<1>5. masked = x % p
  <2>1. CASE c.call = "bit"
    <3>1. p = 2 /\ x \in {0, 1}
      BY <1>1, <2>1, TwoOne
    <3>2. 0 % 2 = 0 /\ 1 % 2 = 1
      OBVIOUS
    <3> QED
      BY <1>2, <2>1, <3>1, <3>2
  <2>2. CASE c.call # "bit"
    <3> DEFINE q == x \div p
               r == x % p
    <3>1. q \in Nat /\ r \in 0 .. (p - 1) /\ x = p * q + r /\ masked = x - q * p
      BY <1>2, <1>4, <2>2
    <3> HIDE DEF q, r, p
    <3>2. q * p = p * q /\ p * q \in Nat
      BY <1>3, <3>1
    <3>3. masked = r
      BY <1>3, <3>1, <3>2
    <3> QED
      BY <3>3 DEF r
  <2> QED
    BY <2>1, <2>2
<1>6. masked \in Nat /\ masked < p
  <2> HIDE DEF p
  <2> QED
    BY <1>3, <1>4, <1>5
<1>7. ASSUME NEW k \in 0 .. (n - 1) PROVE BitAt(masked, k) = BitAt(x, k)
  <2>1. k \in 0 .. (wsize - 1) /\ k < n
    BY <1>3, WordSize
  <2> QED
    BY <1>1, <1>5, <2>1, BitOfRemainder
<1>8. masked \in Word
  <2>1. n = wsize \/ (wsize - n \in 0 .. wsize /\ n + (wsize - n) = wsize)
    BY <1>3, WordSize
  <2>2. p <= 2 ^ wsize
    <3>1. wsize - n \in 0 .. wsize /\ n + (wsize - n) = wsize /\ n + (wsize - n) <= wsize
      BY <1>3, WordSize
    <3>2. 2 ^ wsize = p * 2 ^ (wsize - n)
      BY <1>1, <3>1, PowerSum
    <3> DEFINE q == 2 ^ (wsize - n)
    <3>3. q \in Nat /\ q > 0 /\ 2 ^ wsize = p * q
      BY <3>1, <3>2, Powers
    <3> HIDE DEF p, q
    <3>4. p * q >= p * 1
      BY <1>3, <3>3
    <3> QED
      BY <1>3, <3>3, <3>4
  <2>3. 2 ^ wsize \in Nat
    BY Powers, WordSize
  <2> HIDE DEF p
  <2> QED
    BY <1>3, <1>6, <2>2, <2>3 DEF Word
<1> QED
  BY <1>1, <1>3, <1>5, <1>6, <1>7, <1>8 DEF c, x, n, masked

\* Where a thread that writes is: in allocated words, and so is the next.
LEMMA WriterWord ==
  ASSUME job \in Jobs, NEW b \in Blocks, WriterAt(b, thread[b]),
         NEW k \in Nat, thread[b].current + k <= job.maxbits
  PROVE  LET p == Bit0(b) + thread[b].current
         IN  /\ p \in Nat /\ p + k \in Nat /\ p + k <= blocks * job.maxbits
             /\ seg_start(b) = p % wsize /\ Segment(b, thread[b]) = p % wsize
             /\ write_index(b) = p \div wsize
             /\ p % wsize \in 0 .. (wsize - 1)
             /\ p \div wsize \in Nat /\ p = wsize * (p \div wsize) + (p % wsize)
             /\ p \div wsize \in Allocated /\ p \div wsize + 1 \in Allocated
             /\ (p + k) \div wsize \in Allocated
<1> DEFINE p == Bit0(b) + thread[b].current
<1>1. thread[b].current \in Nat /\ job.maxbits \in Nat
  BY ThreadFields, JobFacts DEF WriterAt
<1>2. Bit0(b) \in Nat /\ Bit0(b) + job.maxbits <= blocks * job.maxbits /\ blocks * job.maxbits \in Nat
  BY BlockPlace
<1> DEFINE B == blocks * job.maxbits
           m == job.maxbits
<1>3. p \in Nat /\ p + k \in Nat /\ p + k <= B /\ p <= B
  <2> HIDE DEF B, m
  <2>1. B \in Nat /\ m \in Nat /\ Bit0(b) + m <= B /\ thread[b].current + k <= m
    BY <1>1, <1>2 DEF B, m
  <2> QED
    BY <1>1, <1>2, <2>1
<1>4. /\ (start_bit(b) + thread[b].current) % wsize = p % wsize
      /\ word_index(b) + (start_bit(b) + thread[b].current) \div wsize = p \div wsize
  BY <1>1, WriterPlace
<1>5. /\ seg_start(b) = p % wsize /\ Segment(b, thread[b]) = p % wsize
      /\ write_index(b) = p \div wsize
  BY <1>4 DEF seg_start, Segment, write_index
<1> HIDE DEF p
<1>6. /\ p \div wsize \in Allocated /\ p \div wsize + 1 \in Allocated
      /\ p \div wsize \in Nat /\ p % wsize \in 0 .. (wsize - 1)
      /\ p = wsize * (p \div wsize) + (p % wsize)
  BY <1>3, PositionAllocated
<1>7. (p + k) \div wsize \in Allocated
  <2> DEFINE q == p + k
  <2>1. q \in Nat /\ q <= blocks * job.maxbits
    BY <1>3
  <2> HIDE DEF q
  <2>2. q \div wsize \in Allocated
    BY <2>1, PositionAllocated
  <2> QED
    BY <2>2 DEF q
<1>8. /\ p \in Nat /\ p + k \in Nat /\ p + k <= blocks * job.maxbits
      /\ seg_start(b) = p % wsize /\ Segment(b, thread[b]) = p % wsize
      /\ write_index(b) = p \div wsize
      /\ p % wsize \in 0 .. (wsize - 1)
      /\ p \div wsize \in Nat /\ p = wsize * (p \div wsize) + (p % wsize)
      /\ p \div wsize \in Allocated /\ p \div wsize + 1 \in Allocated
      /\ (p + k) \div wsize \in Allocated
  BY <1>3, <1>5, <1>6, <1>7, Zenon
<1> QED
  BY <1>8, Zenon DEF p

\* A sum is a word.
LEMMA PlusIsWord ==
  ASSUME NEW d \in Word, NEW x \in Nat
  PROVE  Plus(d, x) \in Word
<1> DEFINE q == 2 ^ wsize
<1>1. q \in Nat \ {0} /\ d \in Nat
  BY Powers, WordSize, WordIsNat
<1>2. d + x \in Nat
  BY <1>1
<1>3. (d + x) % q \in 0 .. (q - 1)
  <2> DEFINE y == d + x
  <2> HIDE DEF y, q
  <2>1. y % q \in 0 .. (q - 1)
    BY <1>1, <1>2, DivMod DEF y
  <2> QED
    BY <2>1 DEF y
<1> QED
  BY <1>3 DEF Plus, Word

\* A step of a thread that writes.
LEMMA WriteStep ==
  ASSUME Control, pc = "encode", NEW b \in Blocks, NEW s, WriterAt(b, s),
         thread' = [thread EXCEPT ![b] = s],
         device' \in [Memory -> Word], touched' \subseteq Allocated,
         UNCHANGED <<job, pc, host, ptr, reader, got, decoded>>
  PROVE  Control'
<1>1. /\ Blocks' = Blocks /\ Allocated' = Allocated /\ Memory' = Memory
  BY JobKept
<1>2. s \in ThreadState
  BY DEF WriterAt
<1>3. thread' \in [Blocks -> ThreadState]
  BY <1>2 DEF Control, TypeOK
<1>4. TypeOK'
  BY <1>1, <1>3 DEF Control, TypeOK, ThreadState, Word
<1>5. Phases'
  BY <1>1 DEF Control, Phases
<1>6. ASSUME NEW a \in Blocks PROVE WriterAt(a, thread[a])'
  <2>1. WriterAt(a, thread'[a])
    BY DEF Control, TypeOK
  <2> QED
    BY <2>1, WriterKept
<1>7. ASSUME NEW a \in Blocks PROVE Reading(a)'
  <2>1. Reading(a)
    BY DEF Control
  <2> QED
    BY <2>1, ReadingKept DEF Reading
<1> QED
  BY <1>1, <1>4, <1>5, <1>6, <1>7 DEF Control

\* The blocks that are launched.
LEMMA BlocksLaunched ==
  ASSUME Control
  PROVE  job \in Jobs /\ Launched = Blocks
<1>1. job \in Jobs
  BY DEF Control, TypeOK
<1> QED
  BY <1>1, JobFacts, AllLaunched DEF Blocks

\* The call a thread is at.
LEMMA WritersCall ==
  ASSUME Control, NEW b \in Blocks, thread[b].next <= Len(Code(b))
  PROVE  /\ job \in Jobs /\ thread[b].next \in Calls(b) /\ WriterAt(b, thread[b])
         /\ Code(b)[thread[b].next].n \in Nat
         /\ thread[b].current + Code(b)[thread[b].next].n <= job.maxbits
<1>1. job \in Jobs /\ WriterAt(b, thread[b])
  BY DEF Control, TypeOK
<1>2. thread[b].next \in Nat \ {0} /\ Len(Code(b)) \in Nat /\ thread[b].current = At(b, thread[b].next)
  BY <1>1, ThreadFields, CallFacts DEF WriterAt
<1>3. thread[b].next \in Calls(b)
  BY <1>2 DEF Calls
<1>4. Code(b)[thread[b].next].n \in Nat
  BY <1>1, <1>3, MaskedFacts
<1>5. /\ At(b, thread[b].next) = Code(b)[thread[b].next].at
      /\ Code(b)[thread[b].next].at + Code(b)[thread[b].next].n <= job.maxbits
  BY <1>1, <1>3, CallFacts, AtFacts
<1> QED
  BY <1>1, <1>2, <1>3, <1>4, <1>5

\* An addition to an allocated word.
LEMMA AddStep ==
  ASSUME Control, NEW w \in Allocated, NEW x \in Nat, AtomicAdd(w, x)
  PROVE  device' \in [Memory -> Word] /\ touched' \subseteq Allocated
<1>1. w \in Memory /\ device \in [Memory -> Word] /\ touched \subseteq Allocated
  BY AllocatedIsMemory DEF Control, TypeOK
<1>2. Plus(device[w], x) \in Word
  BY <1>1, PlusIsWord
<1> QED
  BY <1>1, <1>2 DEF AtomicAdd

\* The steps of the threads of the CUDA back end.
LEMMA WriteBitsControl ==
  ASSUME Control, NEW b \in Blocks, WriteBits(b)
  PROVE  Control'
<1> DEFINE t == thread[b]
           c == Code(b)[t.next]
           w == write_index(b)
           x == Masked(c) * 2 ^ seg_start(b)
           s == IF Straddles(b, c) THEN Halfway(t, t.buf) ELSE Called(t, c.n, t.buf)
<1>1. pc = "encode" /\ job.gpu = "cuda" /\ t.next <= Len(Code(b)) /\ t.step = "first"
  BY DEF WriteBits
<1>2. /\ job \in Jobs /\ t.next \in Calls(b) /\ WriterAt(b, t) /\ c.n \in Nat
      /\ t.current + c.n <= job.maxbits
  BY <1>1, WritersCall
<1>3. t \in ThreadState /\ t.buf \in Word
  BY <1>2, ThreadFields DEF WriterAt
<1>4. thread \in [Blocks -> ThreadState]
  BY DEF Control, TypeOK
<1>5. AtomicAdd(w, x) /\ thread' = [thread EXCEPT ![b] = s]
      /\ UNCHANGED <<job, pc, host, ptr, reader, got, decoded>>
  BY <1>4 DEF WriteBits
<1>6. w \in Allocated /\ x \in Nat
  <2>1. w \in Allocated /\ seg_start(b) \in 0 .. (wsize - 1)
    BY <1>2, WriterWord
  <2>2. 2 ^ seg_start(b) \in Nat
    BY <2>1, Powers, WordSize
  <2>3. Masked(c) \in Nat
    BY <1>2, MaskedFacts
  <2> QED
    BY <2>1, <2>2, <2>3
<1>7. WriterAt(b, s)
  <2>1. WriterAt(b, Halfway(t, t.buf))
    BY <1>1, <1>2, <1>3, HalfDone
  <2>2. WriterAt(b, Called(t, c.n, t.buf))
    BY <1>1, <1>2, <1>3, CallDone
  <2> QED
    BY <2>1, <2>2
<1> HIDE DEF s, x, w
<1>8. device' \in [Memory -> Word] /\ touched' \subseteq Allocated
  BY <1>5, <1>6, AddStep
<1> QED
  BY <1>1, <1>5, <1>7, <1>8, WriteStep

LEMMA WriteRestControl ==
  ASSUME Control, NEW b \in Blocks, WriteRest(b)
  PROVE  Control'
<1> DEFINE t == thread[b]
           c == Code(b)[t.next]
           w == write_index(b) + 1
           x == Masked(c) \div 2 ^ (wsize - seg_start(b))
           s == Called(t, c.n, t.buf)
<1>1. pc = "encode" /\ t.next <= Len(Code(b))
  BY DEF WriteRest, Control, WriterAt
<1>2. /\ job \in Jobs /\ t.next \in Calls(b) /\ WriterAt(b, t) /\ c.n \in Nat
      /\ t.current + c.n <= job.maxbits
  BY <1>1, WritersCall
<1>3. t \in ThreadState /\ t.buf \in Word
  BY <1>2, ThreadFields DEF WriterAt
<1>4. thread \in [Blocks -> ThreadState]
  BY DEF Control, TypeOK
<1>5. AtomicAdd(w, x) /\ thread' = [thread EXCEPT ![b] = s]
      /\ UNCHANGED <<job, pc, host, ptr, reader, got, decoded>>
  BY <1>4 DEF WriteRest
<1>6. w \in Allocated /\ x \in Nat
  <2>1. w \in Allocated /\ seg_start(b) \in 0 .. (wsize - 1)
    BY <1>2, WriterWord
  <2>2. wsize - seg_start(b) \in 0 .. wsize
    BY <2>1, WordSize
  <2>3. Masked(c) \in Nat
    BY <1>2, MaskedFacts
  <2> QED
    BY <2>1, <2>2, <2>3, PowerDiv
<1>7. WriterAt(b, s)
  BY <1>1, <1>2, <1>3, CallDone
<1> HIDE DEF s, x, w
<1>8. device' \in [Memory -> Word] /\ touched' \subseteq Allocated
  BY <1>5, <1>6, AddStep
<1> QED
  BY <1>1, <1>5, <1>7, <1>8, WriteStep

\* Half words are half a word.
LEMMA HalfWord ==
  /\ half \in Nat \ {0} /\ half + half = wsize /\ half <= wsize
  /\ \A p \in Nat : p % half \in 0 .. (half - 1) /\ (p % wsize) + (half - (p % half)) <= wsize
<1>1. wsize \in Nat \ {0} /\ wsize % 2 = 0
  BY StreamAssumption
<1>2. half \in Nat \ {0} /\ half + half = wsize /\ half <= wsize
  <2>1. half \in Nat /\ wsize = 2 * half + (wsize % 2)
    BY <1>1 DEF half
  <2> QED
    BY <1>1, <2>1
<1>3. ASSUME NEW p \in Nat
      PROVE  p % half \in 0 .. (half - 1) /\ (p % wsize) + (half - (p % half)) <= wsize
  <2> DEFINE h == half
             q == p \div wsize
             r == p % wsize
             e == p % h
  <2>1. q \in Nat /\ r \in 0 .. (wsize - 1) /\ p = wsize * q + r
    BY <1>1, DivMod
  <2> HIDE DEF h
  <2>2. h \in Nat \ {0} /\ h + h = wsize
    BY <1>2 DEF h
  <2>3. e \in 0 .. (h - 1)
    BY <2>2, DivMod
  <2> HIDE DEF q, r
  <2>4. wsize * q = h * (2 * q) /\ h * (2 * q + 1) = h * (2 * q) + h
    BY <2>1, <2>2
  <2>5. CASE r < h
    <3>1. p = h * (2 * q) + r /\ r \in 0 .. (h - 1) /\ 2 * q \in Nat
      BY <2>1, <2>2, <2>4, <2>5
    <3>2. e = r
      BY <2>2, <3>1, DivModUnique
    <3> QED
      BY <2>2, <2>3, <3>1, <3>2 DEF r, h
  <2>6. CASE r >= h
    <3> DEFINE f == r - h
    <3>1. p = h * (2 * q + 1) + f /\ f \in 0 .. (h - 1) /\ 2 * q + 1 \in Nat
      BY <2>1, <2>2, <2>4, <2>6
    <3>2. e = f
      <4> HIDE DEF f
      <4> QED
        BY <2>2, <3>1, DivModUnique
    <3>3. e + h = r
      BY <2>1, <2>2, <3>2
    <3> HIDE DEF e, f
    <3>4. r + (h - e) <= wsize
      BY <2>1, <2>2, <2>3, <3>3
    <3> QED
      BY <2>3, <3>4 DEF e, r, h
  <2> QED
    BY <2>1, <2>2, <2>5, <2>6
<1> QED
  BY <1>2, <1>3

\* What a thread of the Metal back end sets in one step of a call of n bits.
Chunk(n, part, pos) == IF n - part < half - (pos % half) THEN n - part ELSE half - (pos % half)

\* A part of a call is not longer than what is left of the call, and stays within its half word.
LEMMA ChunkFacts ==
  ASSUME NEW n \in 0 .. wsize, NEW part \in Nat, part <= n, NEW pos \in Nat
  PROVE  /\ Chunk(n, part, pos) \in 0 .. wsize /\ Chunk(n, part, pos) \in Nat
         /\ part + Chunk(n, part, pos) <= n
         /\ (pos % wsize) + Chunk(n, part, pos) <= wsize
         /\ n > part => Chunk(n, part, pos) > 0
<1> DEFINE h == half
           e == pos % h
           r == pos % wsize
           k == Chunk(n, part, pos)
<1>1. h \in Nat \ {0} /\ h <= wsize /\ e \in 0 .. (h - 1) /\ r + (h - e) <= wsize
  BY HalfWord
<1>2. r \in 0 .. (wsize - 1)
  <2>1. wsize \in Nat \ {0}
    BY WordSize
  <2> QED
    BY <2>1, DivMod
<1>3. k = IF n - part < h - e THEN n - part ELSE h - e
  BY DEF Chunk
<1> HIDE DEF h, e, r, k
<1>4. /\ k \in 0 .. wsize /\ k \in Nat /\ part + k <= n /\ r + k <= wsize
      /\ n > part => k > 0
  BY <1>1, <1>2, <1>3, WordSize
<1> QED
  BY <1>4 DEF k, r

\* The steps of the threads of the Metal back end that encode.
LEMMA MetalOrControl ==
  ASSUME Control, NEW b \in Blocks, MetalOr(b)
  PROVE  Control'
<1> DEFINE t == thread[b]
           c == Code(b)[t.next]
           part == t.part
           pos == Bit0(b) + t.current + part
           chunk == Chunk(c.n, part, pos)
           bits == ((Masked(c) \div 2 ^ part) % 2 ^ chunk) * 2 ^ (pos % wsize)
           w == pos \div wsize
           s == IF part + chunk = c.n THEN Called(t, c.n, t.buf) ELSE [t EXCEPT !.part = part + chunk]
<1>1. pc = "encode" /\ job.gpu = "metal" /\ atomic_mode /\ t.next <= Len(Code(b))
  BY DEF MetalOr
<1>2. /\ job \in Jobs /\ t.next \in Calls(b) /\ WriterAt(b, t) /\ c.n \in Nat
      /\ t.current + c.n <= job.maxbits
  BY <1>1, WritersCall
<1>3. t \in ThreadState /\ t.buf \in Word /\ part \in Nat /\ part <= c.n /\ t.current \in Nat
  BY <1>1, <1>2, ThreadFields DEF WriterAt
<1>4. t.step = "first" /\ t.loaded = None
  BY <1>1, <1>2, <1>3, ThreadFields DEF WriterAt
<1>5. thread \in [Blocks -> ThreadState]
  BY DEF Control, TypeOK
<1>6. /\ device' = [device EXCEPT ![w] = Or(@, bits)]
      /\ touched' = IF part = c.n THEN touched ELSE touched \cup {w}
      /\ thread' = [thread EXCEPT ![b] = s]
      /\ UNCHANGED <<job, pc, host, ptr, reader, got, decoded>>
  <2>1. chunk = IF c.n - part < half - (pos % half) THEN c.n - part ELSE half - (pos % half)
    BY DEF Chunk
  <2>2. device' = [device EXCEPT ![w] = Or(@, bits)]
    BY <2>1 DEF MetalOr
  <2>3. touched' = IF part = c.n THEN touched ELSE touched \cup {w}
    BY DEF MetalOr
  <2>4. thread' = [thread EXCEPT ![b] = s]
    BY <1>5, <2>1 DEF MetalOr
  <2> QED
    BY <2>2, <2>3, <2>4 DEF MetalOr
<1>7. pos \in Nat /\ w \in Allocated
  <2>1. t.current + part <= job.maxbits
    <3>1. job.maxbits \in Nat
      BY <1>2, JobFacts
    <3> QED
      BY <1>2, <1>3, <3>1
  <2> QED
    BY <1>2, <1>3, <2>1, WriterWord
<1>8. c.n \in 0 .. wsize
  BY <1>2, MaskedFacts
<1>9. chunk \in Nat /\ part + chunk <= c.n
  <2> HIDE DEF pos
  <2> QED
    BY <1>3, <1>7, <1>8, ChunkFacts
<1> HIDE DEF chunk, pos
<1>10. WriterAt(b, s)
  <2>1. WriterAt(b, Called(t, c.n, t.buf))
    BY <1>1, <1>2, <1>3, CallDone
  <2>2. WriterAt(b, [t EXCEPT !.part = part + chunk])
    <3>1. part + chunk \in Nat
      BY <1>3, <1>9
    <3> QED
      BY <1>1, <1>2, <1>4, <1>9, <3>1, PartDone
  <2> QED
    BY <2>1, <2>2
<1>11. device' \in [Memory -> Word]
  <2>1. Or(device[w], bits) \in Word
    BY OrBits
  <2>2. device \in [Memory -> Word]
    BY DEF Control, TypeOK
  <2> QED
    BY <1>6, <2>1, <2>2
<1>12. touched' \subseteq Allocated
  BY <1>6, <1>7 DEF Control
<1> HIDE DEF s
<1> QED
  BY <1>1, <1>6, <1>10, <1>11, <1>12, WriteStep

LEMMA MetalCollectControl ==
  ASSUME Control, NEW b \in Blocks, MetalCollect(b)
  PROVE  Control'
<1> DEFINE t == thread[b]
           c == Code(b)[t.next]
           buf == Or(t.buf, (Masked(c) * 2 ^ seg_start(b)) % 2 ^ wsize)
           s == IF seg_start(b) + c.n >= wsize THEN Halfway(t, buf) ELSE Called(t, c.n, buf)
<1>1. /\ pc = "encode" /\ job.gpu = "metal" /\ ~ atomic_mode /\ t.next <= Len(Code(b))
      /\ t.step = "first"
  BY DEF MetalCollect
<1>2. /\ job \in Jobs /\ t.next \in Calls(b) /\ WriterAt(b, t) /\ c.n \in Nat
      /\ t.current + c.n <= job.maxbits
  BY <1>1, WritersCall
<1>3. t \in ThreadState
  BY <1>2 DEF WriterAt
<1>4. thread \in [Blocks -> ThreadState]
  BY DEF Control, TypeOK
<1>5. thread' = [thread EXCEPT ![b] = s]
      /\ UNCHANGED <<job, pc, device, host, ptr, reader, got, decoded, touched>>
  BY <1>4 DEF MetalCollect
<1>6. buf \in Word
  BY OrBits
<1>8. seg_start(b) = Segment(b, t)
  BY DEF seg_start, Segment
<1> HIDE DEF buf
<1>9. ASSUME seg_start(b) + c.n >= wsize PROVE WriterAt(b, Halfway(t, buf))
  BY <1>1, <1>2, <1>6, <1>8, <1>9, HalfDone
<1>10. WriterAt(b, s)
  <2>1. WriterAt(b, Called(t, c.n, buf))
    BY <1>1, <1>2, <1>6, CallDone
  <2> QED
    BY <1>9, <2>1
<1>11. device' \in [Memory -> Word] /\ touched' \subseteq Allocated
  BY <1>5 DEF Control, TypeOK
<1> HIDE DEF s
<1> QED
  BY <1>1, <1>5, <1>10, <1>11, WriteStep

\* A thread that has loaded a word.
LEMMA Loaded ==
  ASSUME job \in Jobs, NEW b \in Blocks, NEW t, WriterAt(b, t), NEW d \in Word,
         job.gpu = "metal", ~ atomic_mode,
         t.step = "first" => t.next = Len(Code(b)) + 1 /\ Segment(b, t) > 0
  PROVE  WriterAt(b, [t EXCEPT !.loaded = d])
<1> DEFINE s == [t EXCEPT !.loaded = d]
<1>1. t \in ThreadState
  BY DEF WriterAt
<1>2. /\ s.next = t.next /\ s.current = t.current /\ s.step = t.step
      /\ s.part = t.part /\ s.buf = t.buf /\ s.loaded = d
  BY <1>1 DEF ThreadState
<1>3. s = [next |-> t.next, current |-> t.current, step |-> t.step, part |-> t.part,
           buf |-> t.buf, loaded |-> d]
  BY <1>1 DEF ThreadState
<1>4. s \in ThreadState
  BY <1>1, <1>3, ThreadFields DEF ThreadState
<1>5. Segment(b, s) = Segment(b, t)
  BY <1>2 DEF Segment
<1> HIDE DEF s
<1>6. s.next <= Len(Code(b)) + 2 /\ s.current = At(b, s.next)
  BY <1>2 DEF WriterAt
<1>7. IF s.next <= Len(Code(b)) THEN s.part <= Code(b)[s.next].n ELSE s.part = 0
  BY <1>2 DEF WriterAt
<1>8. s.step = "second" => s.next <= Len(Code(b))
  BY <1>2 DEF WriterAt
<1>9. s.step = "second" /\ job.gpu = "metal" =>
        ~ atomic_mode /\ Segment(b, s) + Code(b)[s.next].n >= wsize
  BY <1>2, <1>5 DEF WriterAt
<1>10. s.step = "first" => s.next = Len(Code(b)) + 1 /\ Segment(b, s) > 0
  BY <1>2, <1>5
<1>11. WriterAt(b, s)
  BY <1>4, <1>6, <1>7, <1>8, <1>9, <1>10 DEF WriterAt
<1> QED
  BY <1>11 DEF s

\* What is left of a word is a word.
LEMMA QuotientIsWord ==
  ASSUME NEW d \in Word, NEW e \in 0 .. wsize
  PROVE  d \div 2 ^ e \in Word
<1> DEFINE p == 2 ^ e
           q == d \div p
<1>1. d \in Nat /\ p \in Nat \ {0} /\ 2 ^ wsize \in Nat /\ d < 2 ^ wsize
  BY Powers, WordIsNat, WordSize
<1>2. q \in Nat /\ d % p \in 0 .. (p - 1) /\ d = p * q + (d % p)
  <2> HIDE DEF p
  <2> QED
    BY <1>1, DivMod
<1> HIDE DEF p, q
<1>3. q <= p * q /\ p * q \in Nat
  BY <1>1, <1>2
<1>4. q <= d
  BY <1>1, <1>2, <1>3
<1>5. q \in Word
  BY <1>1, <1>2, <1>4 DEF Word
<1> QED
  BY <1>5 DEF q, p

LEMMA MetalLoadControl ==
  ASSUME Control, NEW b \in Blocks, MetalLoad(b)
  PROVE  Control'
<1> DEFINE t == thread[b]
           w == write_index(b)
           s == [t EXCEPT !.loaded = device[w]]
<1>1. /\ pc = "encode" /\ job.gpu = "metal" /\ (t.step = "second" \/ FlushDue(b))
      /\ touched' = touched \cup {w}
      /\ UNCHANGED <<job, pc, device, host, ptr, reader, got, decoded>>
  BY DEF MetalLoad
<1>2. thread \in [Blocks -> ThreadState] /\ device \in [Memory -> Word] /\ job \in Jobs
      /\ WriterAt(b, t)
  BY DEF Control, TypeOK
<1>3. thread' = [thread EXCEPT ![b] = s]
  BY <1>2 DEF MetalLoad
<1>4. w \in Allocated
  <2>1. t.current \in 0 .. job.maxbits /\ job.maxbits \in Nat /\ t.current + 0 <= job.maxbits
    <3>1. t.next \in Nat \ {0} /\ t.current = At(b, t.next) /\ job.maxbits \in Nat
      BY <1>2, ThreadFields, JobFacts DEF WriterAt
    <3>2. t.current \in 0 .. job.maxbits
      BY <1>2, <3>1, AtFacts
    <3> QED
      BY <3>1, <3>2
  <2> QED
    BY <1>2, <2>1, WriterWord
<1>5. device[w] \in Word
  BY <1>2, <1>4, AllocatedIsMemory
<1>6. ~ atomic_mode /\ (t.step = "first" => t.next = Len(Code(b)) + 1 /\ Segment(b, t) > 0)
  <2>1. seg_start(b) = Segment(b, t)
    BY DEF seg_start, Segment
  <2>2. CASE t.step = "second"
    BY <1>1, <1>2, <2>2 DEF WriterAt
  <2>3. CASE FlushDue(b)
    BY <2>1, <2>3 DEF FlushDue
  <2> QED
    BY <1>1, <2>2, <2>3
<1>7. WriterAt(b, s)
  BY <1>1, <1>2, <1>5, <1>6, Loaded
<1>8. device' \in [Memory -> Word] /\ touched' \subseteq Allocated
  BY <1>1, <1>2, <1>4 DEF Control
<1> HIDE DEF s, w
<1> QED
  BY <1>1, <1>3, <1>7, <1>8, WriteStep

LEMMA MetalStoreControl ==
  ASSUME Control, NEW b \in Blocks, MetalStore(b)
  PROVE  Control'
<1> DEFINE t == thread[b]
           w == write_index(b)
           c == Code(b)[t.next]
           rest == Masked(c) \div 2 ^ (wsize - seg_start(b))
           s == IF t.step = "first" THEN Called(t, 0, 0) ELSE Called(t, c.n, rest)
<1>1. /\ pc = "encode" /\ t.loaded # None
      /\ device' = [device EXCEPT ![w] = Or(t.loaded, t.buf)]
      /\ UNCHANGED <<job, pc, host, ptr, reader, got, decoded, touched>>
  BY DEF MetalStore
<1>2. thread \in [Blocks -> ThreadState] /\ device \in [Memory -> Word] /\ job \in Jobs
      /\ WriterAt(b, t) /\ t \in ThreadState
  BY DEF Control, TypeOK, WriterAt
<1>3. thread' = [thread EXCEPT ![b] = s]
  BY <1>2 DEF MetalStore
<1>4. WriterAt(b, s)
  <2>1. CASE t.step = "first"
    <3>1. t.next = Len(Code(b)) + 1
      BY <1>1, <1>2, <2>1 DEF WriterAt
    <3> QED
      BY <1>2, <2>1, <3>1, FlushDone
  <2>2. CASE t.step = "second"
    <3>1. t.next <= Len(Code(b))
      BY <1>2, <2>2 DEF WriterAt
    <3>2. t.next \in Calls(b) /\ t.current + c.n <= job.maxbits /\ c.n \in Nat
      BY <3>1, WritersCall
    <3>3. seg_start(b) \in 0 .. (wsize - 1)
      BY <1>2, <3>2, WriterWord
    <3>4. Masked(c) \in Word
      BY <1>2, <3>2, MaskedFacts
    <3>5. rest \in Word
      <4> DEFINE e == wsize - seg_start(b)
      <4>1. e \in 0 .. wsize
        BY <3>3, WordSize
      <4> HIDE DEF e
      <4>2. Masked(c) \div 2 ^ e \in Word
        BY <3>4, <4>1, QuotientIsWord
      <4> QED
        BY <4>2 DEF e
    <3> HIDE DEF rest
    <3>6. WriterAt(b, Called(t, c.n, rest))
      BY <1>2, <3>1, <3>5, CallDone
    <3> QED
      BY <2>2, <3>6
  <2> QED
    BY <1>2, <2>1, <2>2, ThreadFields
<1>5. device' \in [Memory -> Word] /\ touched' \subseteq Allocated
  <2>1. Or(t.loaded, t.buf) \in Word
    BY OrBits
  <2> QED
    BY <1>1, <1>2, <2>1 DEF Control
<1> HIDE DEF s, w
<1> QED
  BY <1>1, <1>3, <1>4, <1>5, WriteStep

\* A step of the host.
LEMMA HostStep ==
  ASSUME Control, UNCHANGED <<job, thread, got, decoded>>,
         pc' \in {"encode", "copy", "decode", "done"},
         pc' \in {"encode", "copy"} => pc \in {"setup", "encode"},
         device' \in [Memory -> Word], host' \in [Allocated -> Word], touched' \subseteq Allocated,
         pc' = "decode" =>
           /\ DOMAIN reader' = Blocks
           /\ \A b \in Blocks \ decoded :
                AtIn(device', reader'[b], Bit0(b) + At(b, Len(got[b]) + 1))
  PROVE  Control'
<1>1. /\ Blocks' = Blocks /\ Allocated' = Allocated /\ Memory' = Memory
  BY JobKept
<1>2. TypeOK'
  BY <1>1 DEF Control, TypeOK, ThreadState, Word
<1>3. Phases'
  BY <1>1 DEF Control, Phases
<1>4. ASSUME NEW a \in Blocks PROVE WriterAt(a, thread[a])'
  <2>1. WriterAt(a, thread'[a])
    BY DEF Control
  <2> QED
    BY <2>1, WriterKept
<1>5. ASSUME NEW a \in Blocks PROVE Reading(a)'
  <2>1. Reading(a)
    BY DEF Control
  <2> QED
    BY <2>1, ReadingKept DEF Reading
<1> QED
  BY <1>1, <1>2, <1>3, <1>4, <1>5 DEF Control

\* The steps of the host.
LEMMA EncodeLaunchControl ==
  ASSUME Control, NEW words, EncodeLaunch(words)
  PROVE  Control'
<1>1. /\ device' = [w \in Memory |-> IF w < words THEN 0 ELSE device[w]]
      /\ pc = "setup" /\ pc' = "encode"
      /\ UNCHANGED <<job, host, ptr, thread, reader, got, decoded, touched>>
  BY DEF EncodeLaunch
<1>2. device \in [Memory -> Word] /\ host \in [Allocated -> Word] /\ touched \subseteq Allocated
  BY DEF Control, TypeOK
<1>3. device' \in [Memory -> Word]
  BY <1>1, <1>2, ZeroWord
<1> QED
  BY <1>1, <1>2, <1>3, HostStep

LEMMA CompressControl ==
  ASSUME Control, cuda_compress \/ metal_compress
  PROVE  Control'
<1>1. device \in [Memory -> Word] /\ host \in [Allocated -> Word] /\ touched \subseteq Allocated
      /\ Allocated \subseteq Memory
  BY AllocatedIsMemory DEF Control, TypeOK
<1>2. host' \in [Allocated -> Word]
  <2>1. CASE cuda_compress
    BY <1>1, <2>1 DEF cuda_compress
  <2>2. CASE metal_compress
    BY <1>1, <2>2 DEF metal_compress
  <2> QED
    BY <2>1, <2>2
<1>3. /\ pc = "encode" /\ pc' = "copy"
      /\ UNCHANGED <<job, device, thread, reader, got, decoded, touched>>
  BY DEF cuda_compress, metal_compress
<1> QED
  BY <1>1, <1>2, <1>3, HostStep

LEMMA DecodeLaunchControl ==
  ASSUME Control, NEW words, DecodeLaunch(words), Wrapped \subseteq words, words \subseteq Allocated
  PROVE  Control'
<1>1. /\ job \in Jobs /\ Launched = Blocks /\ host \in [Allocated -> Word]
      /\ touched \subseteq Allocated /\ decoded = {} /\ \A b \in Blocks : got[b] = <<>>
  BY BlocksLaunched DEF Control, TypeOK, Phases, DecodeLaunch
<1>2. /\ reader' = [b \in Blocks |-> NewReader(host, b)]
      /\ touched' = touched \cup { word_index(b) : b \in Blocks }
      /\ pc' = "decode"
      /\ UNCHANGED <<job, host, thread, got, decoded>>
  BY <1>1 DEF DecodeLaunch
<1>3. PICK x \in {0, Stale} : device' = [w \in Memory |-> IF w \in words THEN host[w] ELSE x]
  BY DEF DecodeLaunch
<1>4. x \in Word
  <2>1. 2 ^ wsize \in Nat /\ 2 ^ wsize > 0
    BY Powers, WordSize
  <2> QED
    BY <2>1, ZeroWord DEF Stale, Word
<1>5. device' \in [Memory -> Word] /\ \A w \in Wrapped : device'[w] = host[w]
  BY <1>1, <1>3, <1>4, AllocatedIsMemory
<1>6. ASSUME NEW b \in Blocks
      PROVE  /\ word_index(b) \in Allocated
             /\ AtIn(device', reader'[b], Bit0(b) + At(b, Len(got[b]) + 1))
  <2> DEFINE p == Bit0(b)
             w == p \div wsize
             i == p % wsize
             r == reader'[b]
  <2>1. p \in Nat /\ p <= blocks * job.maxbits /\ p < blocks * job.maxbits
    <3>1. p \in Nat /\ p + job.maxbits <= blocks * job.maxbits /\ job.maxbits \in Nat \ {0}
          /\ blocks * job.maxbits \in Nat
      BY <1>1, BlockPlace, JobFacts
    <3> DEFINE B == blocks * job.maxbits
    <3> HIDE DEF B
    <3>2. p \in Nat /\ p + job.maxbits <= B /\ job.maxbits \in Nat \ {0} /\ B \in Nat
      BY <3>1 DEF B
    <3>3. p <= B /\ p < B
      BY <3>2
    <3> QED
      BY <3>1, <3>3 DEF B
  <2>2. w \in Allocated /\ w \in Wrapped /\ w \in Nat /\ i \in 0 .. (wsize - 1) /\ p = wsize * w + i
    <3> HIDE DEF p
    <3>1. w \in Allocated /\ w \in Nat /\ i \in 0 .. (wsize - 1) /\ p = wsize * w + i
      BY <1>1, <2>1, PositionAllocated
    <3>2. w \in Wrapped
      BY <1>1, <2>1, WrappedWords
    <3> QED
      BY <3>1, <3>2
  <2>3. word_index(b) = w /\ start_bit(b) = i
    BY DEF word_index, start_bit
  <2>4. r = [words |-> w, buffer |-> host[w] \div 2 ^ i, bit |-> i]
    BY <1>2, <2>3 DEF NewReader
  <2> HIDE DEF p, w, i
  <2>5. host[w] \div 2 ^ i \in Nat
    <3>1. host[w] \in Word /\ i \in 0 .. wsize
      BY <1>1, <2>2, WordSize
    <3>2. host[w] \in Nat
      BY <3>1, WordIsNat
    <3> QED
      BY <3>1, <3>2, PowerDiv
  <2> HIDE DEF r
  <2>6. r \in ReaderState
    BY <2>2, <2>4, <2>5 DEF ReaderState
  <2>7. r.words = w /\ r.bit = i /\ r.buffer = device'[w] \div 2 ^ i
    BY <1>5, <2>2, <2>4
  <2>8. AtIn(device', r, p)
    BY <2>2, <2>6, <2>7 DEF AtIn
  <2>9. p + At(b, Len(got[b]) + 1) = p
    <3>1. Len(got[b]) + 1 = 1 /\ At(b, 1) = 0
      BY <1>1, AtFacts
    <3> QED
      BY <2>1, <3>1
  <2> QED
    BY <2>2, <2>3, <2>8, <2>9 DEF p, r
<1>7. touched' \subseteq Allocated
  BY <1>1, <1>2, <1>6
<1>8. DOMAIN reader' = Blocks
  BY <1>2
<1> QED
  BY <1>1, <1>2, <1>5, <1>6, <1>7, <1>8, HostStep

LEMMA DecompressControl ==
  ASSUME Control, cuda_decompress
  PROVE  Control'
<1>1. device \in [Memory -> Word] /\ host \in [Allocated -> Word] /\ touched \subseteq Allocated
  BY DEF Control, TypeOK
<1>2. pc' = "done" /\ UNCHANGED <<job, device, host, thread, reader, got, decoded, touched>>
  BY DEF cuda_decompress
<1> QED
  BY <1>1, <1>2, HostStep

\* The launches, on a copy of all words or on those of the blocks.
LEMMA DecodeLaunches ==
  ASSUME job \in Jobs, decode1launch \/ decode2launch \/ decode3launch \/ zfp_metal_decode_runtime
  PROVE  \E words : DecodeLaunch(words) /\ Wrapped \subseteq words /\ words \subseteq Allocated
<1>1. DecodeLaunch(Allocated) \/ DecodeLaunch(Wrapped)
  BY DEF decode1launch, decode2launch, decode3launch, setup_device_stream_decompress,
         zfp_metal_decode_runtime
<1> QED
  BY <1>1, WrappedWords

\* Nothing happens.
LEMMA StutterControl ==
  ASSUME Control, UNCHANGED vars
  PROVE  Control'
<1>1. UNCHANGED <<job, pc, device, host, ptr, thread, reader, got, decoded, touched>>
  BY DEF vars
<1>2. /\ Blocks' = Blocks /\ Allocated' = Allocated /\ Memory' = Memory /\ Fresh' = Fresh
  BY <1>1, JobKept
<1>3. TypeOK' /\ Phases'
  BY <1>1, <1>2 DEF Control, TypeOK, Phases, ThreadState, Word
<1>4. ASSUME NEW a \in Blocks PROVE WriterAt(a, thread[a])' /\ Reading(a)'
  <2>1. WriterAt(a, thread'[a]) /\ Reading(a)
    BY <1>1 DEF Control
  <2> QED
    BY <1>1, <2>1, WriterKept, ReadingKept DEF Reading
<1> QED
  BY <1>1, <1>2, <1>3, <1>4 DEF Control

\* A step of a thread that reads.
LEMMA ReadStep ==
  ASSUME Control, pc = "decode", NEW b \in Blocks,
         UNCHANGED <<job, pc, device, host, ptr, thread>>,
         got' \in [Blocks -> Seq(Nat)], DOMAIN reader' = Blocks, touched' \subseteq Allocated,
         \A a \in Blocks \ {b} : got'[a] = got[a] /\ reader'[a] = reader[a],
         \A a \in Blocks \ {b} : a \notin decoded' => a \notin decoded,
         b \notin decoded' =>
           /\ Len(got'[b]) < Len(Code(b))
           /\ AtIn(device, reader'[b], Bit0(b) + At(b, Len(got'[b]) + 1))
  PROVE  Control'
<1>1. /\ Blocks' = Blocks /\ Allocated' = Allocated /\ Memory' = Memory
  BY JobKept
<1>2. TypeOK' /\ Phases'
  BY <1>1 DEF Control, TypeOK, Phases, ThreadState, Word
<1>3. ASSUME NEW a \in Blocks PROVE WriterAt(a, thread[a])'
  <2>1. WriterAt(a, thread'[a])
    BY DEF Control
  <2> QED
    BY <2>1, WriterKept
<1>4. ASSUME NEW a \in Blocks PROVE Reading(a)'
  <2>1. CASE a = b
    BY <2>1, ReadingKept
  <2>2. CASE a # b
    <3>1. Reading(a)
      BY DEF Control
    <3> QED
      BY <2>2, <3>1, ReadingKept DEF Reading
  <2> QED
    BY <2>1, <2>2
<1> QED
  BY <1>1, <1>2, <1>3, <1>4 DEF Control

\* Where a thread that reads is.
LEMMA ReaderAt ==
  ASSUME Control, pc = "decode", NEW b \in Blocks, b \notin decoded
  PROVE  LET i == Len(got[b]) + 1
             p == Bit0(b) + At(b, i)
         IN  /\ job \in Jobs /\ device \in [Memory -> Word] /\ got[b] \in Seq(Nat)
             /\ i \in Nat \ {0} /\ Len(Code(b)) \in Nat
             /\ AtPosition(reader[b], p)
             /\ p \in Nat /\ p <= blocks * job.maxbits
             /\ i <= Len(Code(b)) =>
                  /\ i \in Calls(b)
                  /\ p + Code(b)[i].n <= blocks * job.maxbits
                  /\ At(b, i + 1) = At(b, i) + Code(b)[i].n
             /\ i > Len(Code(b)) =>
                  /\ got[b] = <<>> /\ Len(Code(b)) = 0 /\ p = Bit0(b)
                  /\ p + 1 <= blocks * job.maxbits
<1> DEFINE i == Len(got[b]) + 1
           a == At(b, i)
           p == Bit0(b) + a
           B == blocks * job.maxbits
           m == job.maxbits
<1>1. job \in Jobs /\ device \in [Memory -> Word] /\ got[b] \in Seq(Nat) /\ Reading(b)
  BY DEF Control, TypeOK
<1>2. Len(got[b]) \in Nat /\ i \in Nat \ {0} /\ Len(Code(b)) \in Nat
  BY <1>1, CallFacts
<1>3. AtPosition(reader[b], p) /\ (Len(got[b]) < Len(Code(b)) \/ got[b] = <<>>)
  BY <1>1 DEF Reading, AtPosition, AtIn
<1>4. a \in 0 .. m /\ m \in Nat \ {0} /\ Bit0(b) \in Nat /\ Bit0(b) + m <= B /\ B \in Nat
  BY <1>1, <1>2, AtFacts, JobFacts, BlockPlace
<1>5. p \in Nat /\ p <= B
  <2> HIDE DEF a, B, m
  <2> QED
    BY <1>4
<1>6. ASSUME i <= Len(Code(b))
      PROVE  /\ i \in Calls(b) /\ p + Code(b)[i].n <= B /\ At(b, i + 1) = a + Code(b)[i].n
  <2>1. i \in Calls(b)
    BY <1>2, <1>6 DEF Calls
  <2> DEFINE n == Code(b)[i].n
  <2>2. a = Code(b)[i].at /\ a + n <= m /\ n \in Nat /\ At(b, i + 1) = a + n
    BY <1>1, <2>1, AtFacts, CallFacts, MaskedFacts
  <2>3. p + n <= B
    <3> DEFINE z == Bit0(b)
    <3>1. z \in Nat /\ a \in Nat /\ n \in Nat /\ m \in Nat /\ B \in Nat /\ a + n <= m /\ z + m <= B
      BY <1>4, <2>2
    <3>2. p = z + a
      OBVIOUS
    <3> HIDE DEF a, B, m, n, p, z
    <3> QED
      BY <3>1, <3>2
  <2> QED
    BY <2>1, <2>2, <2>3
<1>7. ASSUME i > Len(Code(b))
      PROVE  got[b] = <<>> /\ Len(Code(b)) = 0 /\ p = Bit0(b) /\ p + 1 <= B
  <2>1. ~ (Len(got[b]) < Len(Code(b)))
    BY <1>2, <1>7
  <2>2. got[b] = <<>>
    BY <1>3, <2>1
  <2>3. Len(got[b]) = 0 /\ Len(Code(b)) = 0 /\ i = 1
    BY <1>2, <1>7, <2>2
  <2>4. a = 0
    BY <1>1, <2>3, AtFacts
  <2> HIDE DEF a, B, m
  <2> QED
    BY <1>4, <2>2, <2>3, <2>4
<1>8. /\ job \in Jobs /\ device \in [Memory -> Word] /\ got[b] \in Seq(Nat)
      /\ i \in Nat \ {0} /\ Len(Code(b)) \in Nat
      /\ AtPosition(reader[b], p)
      /\ p \in Nat /\ p <= B
  BY <1>1, <1>2, <1>3, <1>5
<1> QED
  BY <1>6, <1>7, <1>8

\* A float block without calls is skipped.
LEMMA SkipBlockControl ==
  ASSUME Control, NEW b \in Blocks, SkipBlock(b)
  PROVE  Control'
<1>1. /\ pc = "decode" /\ b \notin decoded /\ got[b] = <<>>
      /\ decoded' = decoded \cup {b} /\ touched' = touched \cup {Flag(b).reader.words}
      /\ UNCHANGED <<job, pc, device, host, ptr, thread, reader, got>>
  BY DEF SkipBlock
<1> DEFINE i == Len(got[b]) + 1
           p == Bit0(b) + At(b, i)
<1>2. /\ job \in Jobs /\ device \in [Memory -> Word] /\ AtPosition(reader[b], p)
  BY <1>1, ReaderAt
<1>3. p + 1 <= blocks * job.maxbits
  <2> DEFINE B == blocks * job.maxbits
             m == job.maxbits
  <2>1. i = 1 /\ At(b, 1) = 0 /\ m \in Nat \ {0} /\ Bit0(b) \in Nat /\ Bit0(b) + m <= B /\ B \in Nat
    BY <1>1, <1>2, AtFacts, JobFacts, BlockPlace
  <2>2. p = Bit0(b) + 0
    BY <2>1
  <2> HIDE DEF p, B, m
  <2>3. p + 1 <= B
    BY <2>1, <2>2
  <2> QED
    BY <2>3 DEF B
<1> HIDE DEF p
<1>4. Flag(b).reader.words \in Allocated
  BY <1>2, <1>3, ReadBit DEF Flag
<1>5. touched' \subseteq Allocated /\ got' \in [Blocks -> Seq(Nat)] /\ DOMAIN reader' = Blocks
  BY <1>1, <1>4 DEF Control, TypeOK
<1>6. \A a \in Blocks \ {b} : got'[a] = got[a] /\ reader'[a] = reader[a]
  BY <1>1
<1>7. b \in decoded' /\ \A a \in Blocks \ {b} : a \notin decoded' => a \notin decoded
  BY <1>1
<1> QED
  BY <1>1, <1>5, <1>6, <1>7, ReadStep

\* The call that reads an exponent is the first one, and reads at least a bit.
LEMMA Exponents ==
  ASSUME job \in Jobs, NEW b \in Blocks, NEW i \in Calls(b), Code(b)[i].call = "exponent"
  PROVE  i = 1 /\ job.type = "float" /\ Code(b)[i].n > 0 /\ Code(b)[i].x % 2 = 1
<1>1. Begins(Code(b), job.type) /\ job.type \in {"int", "float"}
  BY JobFacts
<1>2. CASE job.type = "int"
  BY <1>1, <1>2 DEF Begins, Calls
<1>3. CASE job.type = "float"
  <2>1. \A j \in 1 .. Len(Code(b)) :
          (Code(b)[j].call = "exponent") = (j = 1) /\ (j = 1 => Code(b)[j].n > 0 /\ Code(b)[j].x % 2 = 1)
    BY <1>1, <1>3 DEF Begins
  <2> QED
    BY <1>3, <2>1 DEF Calls
<1> QED
  BY <1>1, <1>2, <1>3

\* What a thread reads.
LEMMA DecodeReads ==
  ASSUME Control, pc = "decode", NEW b \in Blocks, b \notin decoded
  PROVE  LET i == Len(got[b]) + 1
             p == Bit0(b) + At(b, i)
             r == ReadCall(reader[b], IF i <= Len(Code(b)) THEN Code(b)[i] ELSE [call |-> "bit"])
         IN  /\ r.value \in Nat /\ r.reader.words \in Allocated
             /\ i <= Len(Code(b)) =>
                  /\ IsBits(r.value, p, Code(b)[i].n)
                  /\ AtIn(device, r.reader, Bit0(b) + At(b, i + 1))
<1> DEFINE i == Len(got[b]) + 1
           p == Bit0(b) + At(b, i)
           r == ReadCall(reader[b], IF i <= Len(Code(b)) THEN Code(b)[i] ELSE [call |-> "bit"])
<1>1. /\ job \in Jobs /\ device \in [Memory -> Word] /\ got[b] \in Seq(Nat)
      /\ i \in Nat \ {0} /\ Len(Code(b)) \in Nat
      /\ AtPosition(reader[b], p)
      /\ p \in Nat /\ p <= blocks * job.maxbits
  BY ReaderAt
<1>2. ASSUME i <= Len(Code(b))
      PROVE  /\ r.value \in Nat /\ r.reader.words \in Allocated
             /\ IsBits(r.value, p, Code(b)[i].n)
             /\ AtIn(device, r.reader, Bit0(b) + At(b, i + 1))
  <2> DEFINE c == Code(b)[i]
  <2>1. /\ i \in Calls(b) /\ p + c.n <= blocks * job.maxbits
        /\ At(b, i + 1) = At(b, i) + c.n
    BY <1>2, ReaderAt
  <2>2. /\ c.n \in 0 .. wsize /\ c.n \in Nat /\ c.call \in {"bits", "bit", "exponent"}
        /\ (c.call = "bit" => c.n = 1)
    BY <1>1, <2>1, CallFacts, MaskedFacts
  <2>3. c.call = "exponent" => c.n > 0
    BY <1>1, <2>1, Exponents
  <2>4. r = ReadCall(reader[b], c)
    BY <1>2
  <2>5. Bit0(b) + At(b, i + 1) = p + c.n
    <3>1. Bit0(b) \in Nat /\ At(b, i) \in Nat
      <4>1. At(b, i) \in 0 .. job.maxbits /\ job.maxbits \in Nat
        BY <1>1, AtFacts, JobFacts
      <4> QED
        BY <1>1, <4>1, BlockPlace
    <3> QED
      BY <2>1, <2>2, <3>1
  <2> HIDE DEF c, p, r
  <2>6. /\ r.reader.words \in Allocated /\ AtPosition(r.reader, p + c.n) /\ IsBits(r.value, p, c.n)
    BY <1>1, <2>1, <2>2, <2>3, <2>4, ReadsCall
  <2>7. AtIn(device, r.reader, p + c.n) /\ r.value \in Nat
    BY <2>6 DEF AtPosition, AtIn, IsBits
  <2> QED
    BY <2>5, <2>6, <2>7 DEF c
<1>3. ASSUME i > Len(Code(b))
      PROVE  r.value \in Nat /\ r.reader.words \in Allocated
  <2>1. p + 1 <= blocks * job.maxbits
    BY <1>3, ReaderAt
  <2>2. r = read_bit(reader[b])
    BY <1>1, <1>3 DEF ReadCall
  <2> HIDE DEF p, r
  <2>3. read_bit(reader[b]).reader.words \in Allocated /\ read_bit(reader[b]).value \in {0, 1}
    BY <1>1, <2>1, ReadBit
  <2> QED
    BY <2>2, <2>3
<1> HIDE DEF r, p
<1>4. /\ r.value \in Nat /\ r.reader.words \in Allocated
      /\ i <= Len(Code(b)) =>
                  /\ IsBits(r.value, p, Code(b)[i].n)
                  /\ AtIn(device, r.reader, Bit0(b) + At(b, i + 1))
  BY <1>1, <1>2, <1>3
<1> QED
  BY <1>4 DEF r, p

\* A decoding thread makes a call.
LEMMA DecodeCallControl ==
  ASSUME Control, NEW b \in Blocks, DecodeCall(b)
  PROVE  Control'
<1> DEFINE i == Len(got[b]) + 1
           r == ReadCall(reader[b], IF i <= Len(Code(b)) THEN Code(b)[i] ELSE [call |-> "bit"])
<1>1. pc = "decode" /\ b \notin decoded /\ UNCHANGED <<job, pc, device, host, ptr, thread>>
  BY DEF DecodeCall
<1>2. /\ got' = [got EXCEPT ![b] = Append(@, r.value)]
      /\ reader' = [reader EXCEPT ![b] = r.reader]
      /\ touched' = touched \cup {r.reader.words}
      /\ decoded' = IF i >= Len(Code(b)) THEN decoded \cup {b} ELSE decoded
  BY DEF DecodeCall
<1>3. got \in [Blocks -> Seq(Nat)] /\ DOMAIN reader = Blocks /\ touched \subseteq Allocated
      /\ job \in Jobs
  BY <1>1 DEF Control, TypeOK
<1>4. /\ r.value \in Nat /\ r.reader.words \in Allocated
      /\ i <= Len(Code(b)) => AtIn(device, r.reader, Bit0(b) + At(b, i + 1))
  BY <1>1, DecodeReads
<1> HIDE DEF r
<1>5. got[b] \in Seq(Nat) /\ got' \in [Blocks -> Seq(Nat)] /\ got'[b] = Append(got[b], r.value)
  <2>1. got[b] \in Seq(Nat)
    BY <1>3
  <2>2. Append(got[b], r.value) \in Seq(Nat)
    BY <1>4, <2>1
  <2> QED
    BY <1>2, <1>3, <2>1, <2>2
<1>6. Len(got'[b]) = i /\ i \in Nat /\ Len(Code(b)) \in Nat
  BY <1>3, <1>4, <1>5, CallFacts
<1>7. DOMAIN reader' = Blocks /\ reader'[b] = r.reader /\ touched' \subseteq Allocated
  BY <1>2, <1>3, <1>4
<1>8. /\ \A a \in Blocks \ {b} : got'[a] = got[a] /\ reader'[a] = reader[a]
      /\ \A a \in Blocks \ {b} : a \notin decoded' => a \notin decoded
  BY <1>2, <1>3
<1>9. ASSUME b \notin decoded'
      PROVE  Len(got'[b]) < Len(Code(b)) /\ AtIn(device, reader'[b], Bit0(b) + At(b, Len(got'[b]) + 1))
  <2>1. i < Len(Code(b))
    BY <1>2, <1>6, <1>9
  <2> QED
    BY <1>4, <1>6, <1>7, <2>1
<1> QED
  BY <1>1, <1>5, <1>7, <1>8, <1>9, ReadStep

\* The control invariant is inductive.
LEMMA NextControl == Control /\ [Next]_vars => Control'
<1> SUFFICES ASSUME Control, [Next]_vars PROVE Control'
  OBVIOUS
<1>1. CASE UNCHANGED vars
  BY <1>1, StutterControl
<1>2. CASE Finished
  BY <1>2, StutterControl DEF Finished
<1>3. CASE Host
  <2>1. CASE encode1launch \/ encode2launch \/ encode3launch \/ zfp_metal_encode_runtime
    BY <2>1, EncodeLaunchControl
       DEF encode1launch, encode2launch, encode3launch, zfp_metal_encode_runtime
  <2>2. CASE cuda_compress \/ metal_compress
    BY <2>2, CompressControl
  <2>3. CASE decode1launch \/ decode2launch \/ decode3launch \/ zfp_metal_decode_runtime
    <3>1. job \in Jobs
      BY DEF Control, TypeOK
    <3> QED
      BY <2>3, <3>1, DecodeLaunches, DecodeLaunchControl
  <2>4. CASE cuda_decompress
    BY <2>4, DecompressControl
  <2> QED
    BY <1>3, <2>1, <2>2, <2>3, <2>4 DEF Host
<1>4. CASE \E b \in 0 .. (blocks - 1) : Thread(b)
  <2>1. PICK b \in Blocks : Thread(b)
    BY <1>4 DEF Blocks
  <2>2. CASE WriteBits(b)
    BY <2>2, WriteBitsControl
  <2>3. CASE WriteRest(b)
    BY <2>3, WriteRestControl
  <2>4. CASE MetalOr(b)
    BY <2>4, MetalOrControl
  <2>5. CASE MetalCollect(b)
    BY <2>5, MetalCollectControl
  <2>6. CASE MetalLoad(b)
    BY <2>6, MetalLoadControl
  <2>7. CASE MetalStore(b)
    BY <2>7, MetalStoreControl
  <2>8. CASE SkipBlock(b)
    BY <2>8, SkipBlockControl
  <2>9. CASE DecodeCall(b)
    BY <2>9, DecodeCallControl
  <2> QED
    BY <2>1, <2>2, <2>3, <2>4, <2>5, <2>6, <2>7, <2>8, <2>9 DEF Thread
<1> QED
  BY <1>1, <1>2, <1>3, <1>4 DEF Next, Step

\* A Metal kernel accesses the words of the blocks only, and the one after them that a reader
\* loads in advance when the blocks fill their words.
Inside == job.gpu = "metal" => touched \subseteq Wrapped \cup Prefetched

\* A step that accesses no other words.
LEMMA InsideStep ==
  ASSUME Inside, job' = job,
         pc \in {"decode", "done"} => pc' \in {"decode", "done"},
         job.gpu = "metal" => touched' \subseteq touched \cup Wrapped \cup Prefetched'
  PROVE  Inside'
<1>1. Wrapped' = Wrapped /\ zfp_calc_stream_words' = zfp_calc_stream_words /\ blocks' = blocks
  BY JobKept
<1>2. Prefetched \subseteq Prefetched'
  BY <1>1 DEF Prefetched
<1> QED
  BY <1>1, <1>2 DEF Inside

\* A position that is not behind the stream is in the words that are wrapped, or in the one
\* that is loaded in advance.
LEMMA PositionInside ==
  ASSUME job \in Jobs, NEW p \in Nat, p <= blocks * job.maxbits, job.gpu = "metal", pc = "decode"
  PROVE  p \div wsize \in Wrapped \cup Prefetched
<1>1. CASE p \div wsize \in Wrapped
  BY <1>1
<1>2. CASE p = blocks * job.maxbits /\ p % wsize = 0 /\ p \div wsize = zfp_calc_stream_words
  BY <1>2 DEF Prefetched
<1> QED
  BY <1>1, <1>2, WrappedWords

\* The word of a reader at such a position.
LEMMA ReaderInside ==
  ASSUME job \in Jobs, NEW r, NEW p \in Nat, AtPosition(r, p), p <= blocks * job.maxbits,
         job.gpu = "metal", pc = "decode"
  PROVE  r.words \in Wrapped \cup Prefetched
<1>1. r.words \in Nat /\ r.bit \in 0 .. (wsize - 1) /\ p = wsize * r.words + r.bit
  BY DEF AtPosition, AtIn, ReaderState
<1>2. p \div wsize = r.words
  BY <1>1, Place
<1>3. p \div wsize \in Wrapped \cup Prefetched
  BY PositionInside
<1> QED
  BY <1>2, <1>3

\* A thread that sets bits sets them in the words of the blocks.
LEMMA MetalOrInside ==
  ASSUME Control, Inside, NEW b \in Blocks, MetalOr(b)
  PROVE  Inside'
<1> DEFINE t == thread[b]
           c == Code(b)[t.next]
           m == job.maxbits
           B == blocks * job.maxbits
           pos == Bit0(b) + t.current + t.part
<1>1. /\ job' = job /\ pc' = pc /\ t.next <= Len(Code(b))
      /\ touched' = IF t.part = c.n THEN touched ELSE touched \cup {pos \div wsize}
  BY DEF MetalOr
<1>2. /\ job \in Jobs /\ WriterAt(b, t) /\ c.n \in Nat /\ t.current + c.n <= m
  BY <1>1, WritersCall
<1>3. t.part \in Nat /\ t.part <= c.n /\ t.current \in Nat
  BY <1>1, <1>2, ThreadFields DEF WriterAt
<1>4. Bit0(b) \in Nat /\ Bit0(b) + m <= B /\ m \in Nat /\ B \in Nat
  BY <1>2, BlockPlace, JobFacts
<1>5. ASSUME t.part # c.n PROVE pos \div wsize \in Wrapped
  <2>1. t.part < c.n
    BY <1>2, <1>3, <1>5
  <2>2. pos \in Nat /\ pos < B
    <3> HIDE DEF B, m, c, t
    <3> QED
      BY <1>2, <1>3, <1>4, <2>1
  <2> HIDE DEF pos
  <2> QED
    BY <1>2, <2>2, WrappedWords
<1> QED
  BY <1>1, <1>5, InsideStep

\* A thread that loads a word has bits for it.
LEMMA MetalLoadInside ==
  ASSUME Control, Inside, NEW b \in Blocks, MetalLoad(b)
  PROVE  Inside'
<1> DEFINE t == thread[b]
           c == Code(b)[t.next]
           m == job.maxbits
           B == blocks * job.maxbits
           p == Bit0(b) + t.current
<1>1. /\ job' = job /\ pc' = pc /\ job.gpu = "metal" /\ (t.step = "second" \/ FlushDue(b))
      /\ touched' = touched \cup {write_index(b)}
  BY DEF MetalLoad
<1>2. job \in Jobs /\ WriterAt(b, t)
  BY DEF Control, TypeOK
<1>3. t.next \in Nat \ {0} /\ t.current = At(b, t.next)
  BY <1>2, ThreadFields DEF WriterAt
<1>4. t.current \in 0 .. m /\ m \in Nat /\ t.current + 0 <= m
  BY <1>2, <1>3, AtFacts, JobFacts
<1>5. /\ p \in Nat /\ p + 0 <= B /\ Segment(b, t) = p % wsize
      /\ seg_start(b) = p % wsize /\ write_index(b) = p \div wsize
      /\ p % wsize \in 0 .. (wsize - 1)
  BY <1>2, <1>4, WriterWord
<1>6. B \in Nat /\ Bit0(b) \in Nat /\ Bit0(b) + m <= B /\ wsize \in Nat \ {0}
  BY <1>2, BlockPlace, WordSize
<1>7. CASE t.step = "second"
  <2>1. t.next <= Len(Code(b)) /\ Segment(b, t) + c.n >= wsize
    BY <1>1, <1>2, <1>7 DEF WriterAt
  <2>2. c.n \in Nat /\ t.current + c.n <= m
    BY <2>1, WritersCall
  <2>3. c.n > 0
    <3> DEFINE g == p % wsize
    <3>1. g \in 0 .. (wsize - 1) /\ g + c.n >= wsize
      BY <1>5, <2>1
    <3> HIDE DEF g, c
    <3> QED
      BY <1>6, <2>2, <3>1
  <2>4. p < B
    <3> HIDE DEF B, m, c
    <3> QED
      BY <1>4, <1>6, <2>2, <2>3
  <2> HIDE DEF p
  <2>5. p \div wsize \in Wrapped
    BY <1>2, <1>5, <2>4, WrappedWords
  <2> QED
    BY <1>1, <1>5, <2>5, InsideStep
<1>8. CASE FlushDue(b)
  <2>1. p % wsize > 0
    BY <1>5, <1>8 DEF FlushDue
  <2>2. p <= B
    <3> HIDE DEF B, p
    <3> QED
      BY <1>5, <1>6
  <2> HIDE DEF p
  <2>3. p \div wsize \in Wrapped
    BY <1>2, <1>5, <2>1, <2>2, WrappedWords
  <2> QED
    BY <1>1, <1>5, <2>3, InsideStep
<1> QED
  BY <1>1, <1>7, <1>8

\* A thread begins to read in the words of the blocks.
LEMMA DecodeLaunchInside ==
  ASSUME Control, Inside, NEW words, DecodeLaunch(words)
  PROVE  Inside'
<1>1. job \in Jobs /\ Launched = Blocks
  BY BlocksLaunched
<1>2. /\ touched' = touched \cup { word_index(b) : b \in Blocks }
      /\ job' = job /\ pc = "copy"
  BY <1>1 DEF DecodeLaunch
<1>3. ASSUME NEW b \in Blocks PROVE word_index(b) \in Wrapped
  <2> DEFINE p == Bit0(b)
             m == job.maxbits
             B == blocks * job.maxbits
  <2>1. p \in Nat /\ p + m <= B /\ m \in Nat \ {0} /\ B \in Nat
    BY <1>1, BlockPlace, JobFacts
  <2>2. p < B
    <3> HIDE DEF p, m, B
    <3> QED
      BY <2>1
  <2>3. p \div wsize \in Wrapped
    <3> HIDE DEF p
    <3> QED
      BY <1>1, <2>1, <2>2, WrappedWords
  <2> QED
    BY <2>3 DEF word_index
<1> QED
  BY <1>2, <1>3, InsideStep

\* A reader that has read its flag, or a call, is not behind the stream.
LEMMA SkipBlockInside ==
  ASSUME Control, Inside, NEW b \in Blocks, SkipBlock(b)
  PROVE  Inside'
<1>1. /\ pc = "decode" /\ b \notin decoded /\ got[b] = <<>>
      /\ touched' = touched \cup {Flag(b).reader.words}
      /\ job' = job /\ pc' = pc
  BY DEF SkipBlock
<1> DEFINE i == Len(got[b]) + 1
           p == Bit0(b) + At(b, i)
           m == job.maxbits
           B == blocks * job.maxbits
<1>2. job \in Jobs /\ device \in [Memory -> Word] /\ AtPosition(reader[b], p)
  BY <1>1, ReaderAt
<1>3. i = 1 /\ At(b, 1) = 0 /\ m \in Nat \ {0} /\ Bit0(b) \in Nat /\ Bit0(b) + m <= B /\ B \in Nat
  BY <1>1, <1>2, AtFacts, JobFacts, BlockPlace
<1>4. p = Bit0(b) + 0
  BY <1>3
<1> HIDE DEF p
<1>5. p + 1 \in Nat /\ p + 1 <= B
  <2> HIDE DEF B, m
  <2> QED
    BY <1>3, <1>4
<1>6. AtPosition(Flag(b).reader, p + 1)
  BY <1>2, <1>5, ReadBit DEF Flag
<1>7. job.gpu = "metal" => Flag(b).reader.words \in Wrapped \cup Prefetched
  <2> DEFINE q == p + 1
  <2>1. q \in Nat /\ q <= B /\ AtPosition(Flag(b).reader, q)
    BY <1>5, <1>6
  <2> HIDE DEF q
  <2> QED
    BY <1>1, <1>2, <2>1, ReaderInside
<1>8. Prefetched' = Prefetched
  BY <1>1, JobKept DEF Prefetched
<1> QED
  BY <1>1, <1>7, <1>8, InsideStep

LEMMA DecodeCallInside ==
  ASSUME Control, Inside, NEW b \in Blocks, DecodeCall(b)
  PROVE  Inside'
<1> DEFINE i == Len(got[b]) + 1
           B == blocks * job.maxbits
           r == ReadCall(reader[b], IF i <= Len(Code(b)) THEN Code(b)[i] ELSE [call |-> "bit"])
<1>1. /\ pc = "decode" /\ b \notin decoded /\ job' = job /\ pc' = pc
      /\ touched' = touched \cup {r.reader.words}
  BY DEF DecodeCall
<1>2. \E q \in Nat : q <= B /\ AtPosition(r.reader, q)
  <2> DEFINE p == Bit0(b) + At(b, i)
  <2>1. /\ job \in Jobs /\ device \in [Memory -> Word] /\ AtPosition(reader[b], p)
        /\ p \in Nat /\ p <= B /\ i \in Nat \ {0} /\ Len(Code(b)) \in Nat
    BY <1>1, ReaderAt
  <2>2. CASE i <= Len(Code(b))
    <3>1. i \in Calls(b) /\ p + Code(b)[i].n <= B /\ At(b, i + 1) = At(b, i) + Code(b)[i].n
      BY <1>1, <2>2, ReaderAt
    <3>2. Code(b)[i].n \in Nat
      BY <2>1, <3>1, MaskedFacts
    <3>3. AtPosition(r.reader, Bit0(b) + At(b, i + 1))
      BY <1>1, <2>2, DecodeReads DEF AtPosition
    <3>4. Bit0(b) + At(b, i + 1) = p + Code(b)[i].n
      <4>1. Bit0(b) \in Nat /\ At(b, i) \in Nat
        <5>1. At(b, i) \in 0 .. job.maxbits /\ job.maxbits \in Nat
          BY <2>1, AtFacts, JobFacts
        <5> QED
          BY <2>1, <5>1, BlockPlace
      <4> QED
        BY <3>1, <3>2, <4>1
    <3> HIDE DEF p, B, r
    <3>5. p + Code(b)[i].n \in Nat
      BY <2>1, <3>2
    <3> QED
      BY <3>1, <3>3, <3>4, <3>5
  <2>3. CASE i > Len(Code(b))
    <3>1. p + 1 <= B
      BY <1>1, <2>3, ReaderAt
    <3>2. r = read_bit(reader[b])
      BY <2>1, <2>3 DEF ReadCall
    <3> HIDE DEF p, B, r
    <3>3. AtPosition(r.reader, p + 1)
      BY <2>1, <3>1, <3>2, ReadBit DEF B
    <3> QED
      BY <2>1, <3>1, <3>3
  <2> QED
    BY <2>1, <2>2, <2>3
<1>3. job \in Jobs
  BY DEF Control, TypeOK
<1> HIDE DEF r
<1>4. job.gpu = "metal" => r.reader.words \in Wrapped \cup Prefetched
  BY <1>1, <1>2, <1>3, ReaderInside
<1>5. Prefetched' = Prefetched
  BY <1>1, JobKept DEF Prefetched
<1> QED
  BY <1>1, <1>4, <1>5, InsideStep

\* It is inductive with the control invariant.
LEMMA NextInside == ASSUME Control, Inside, [Next]_vars PROVE Inside'
<1>1. CASE UNCHANGED vars \/ Finished
  BY <1>1, InsideStep DEF vars, Finished
<1>2. CASE Host
  <2>1. CASE encode1launch \/ encode2launch \/ encode3launch \/ zfp_metal_encode_runtime
    <3>1. pc = "setup" /\ UNCHANGED <<job, touched>>
      BY <2>1 DEF encode1launch, encode2launch, encode3launch, zfp_metal_encode_runtime, EncodeLaunch
    <3> QED
      BY <3>1, InsideStep
  <2>2. CASE cuda_compress \/ metal_compress
    <3>1. pc = "encode" /\ UNCHANGED <<job, touched>>
      BY <2>2 DEF cuda_compress, metal_compress
    <3> QED
      BY <3>1, InsideStep
  <2>3. CASE decode1launch \/ decode2launch \/ decode3launch \/ zfp_metal_decode_runtime
    <3>1. job \in Jobs
      BY DEF Control, TypeOK
    <3> QED
      BY <2>3, <3>1, DecodeLaunches, DecodeLaunchInside
  <2>4. CASE cuda_decompress
    <3>1. pc' = "done" /\ UNCHANGED <<job, touched>>
      BY <2>4 DEF cuda_decompress
    <3> QED
      BY <3>1, InsideStep
  <2> QED
    BY <1>2, <2>1, <2>2, <2>3, <2>4 DEF Host
<1>3. CASE \E b \in 0 .. (blocks - 1) : Thread(b)
  <2>1. PICK b \in Blocks : Thread(b)
    BY <1>3 DEF Blocks
  <2>2. CASE WriteBits(b) \/ WriteRest(b)
    <3>1. job.gpu = "cuda" /\ UNCHANGED <<job, pc>>
      BY <2>2 DEF WriteBits, WriteRest
    <3> QED
      BY <3>1, InsideStep
  <2>3. CASE MetalOr(b)
    BY <2>3, MetalOrInside
  <2>4. CASE MetalCollect(b) \/ MetalStore(b)
    <3>1. UNCHANGED <<job, pc, touched>>
      BY <2>4 DEF MetalCollect, MetalStore
    <3> QED
      BY <3>1, InsideStep
  <2>5. CASE MetalLoad(b)
    BY <2>5, MetalLoadInside
  <2>6. CASE SkipBlock(b)
    BY <2>6, SkipBlockInside
  <2>7. CASE DecodeCall(b)
    BY <2>7, DecodeCallInside
  <2> QED
    BY <2>1, <2>2, <2>3, <2>4, <2>5, <2>6, <2>7 DEF Thread
<1> QED
  BY <1>1, <1>2, <1>3 DEF Next, Step

\* Kernels access words of their buffer only.  On a CUDA device writers that add nothing to the
\* word after the last one of the stream, and readers that load it in advance, stay within the
\* room that zfp_stream_maximum_size leaves for a header.  On Metal the buffer has the words of
\* the blocks and no more: writers stay within it, and readers unless the blocks fill their
\* words, when the one that reads the last bit loads the next word.
THEOREM KernelsWithinAllocation == Spec => []WithinAllocation
<1>1. Init => Control /\ Inside
  <2>1. Init => Inside
    BY DEF Init, Inside
  <2> QED
    BY <2>1, InitControl
<1>2. Control /\ Inside /\ [Next]_vars => (Control /\ Inside)'
  <2>1. Control /\ Inside /\ [Next]_vars => Inside'
    BY NextInside
  <2> QED
    BY <2>1, NextControl
<1>3. Control /\ Inside => WithinAllocation
  BY DEF Control, Inside, WithinAllocation, Buffer
<1> QED
  BY <1>1, <1>2, <1>3, PTL DEF Spec


-----------------------------------------------------------------------------
\* The bits of the stream.

\* Bit k of the code of a block.
BitOf(code, k) ==
  LET i == CHOOSE i \in 1 .. Len(code) : code[i].at <= k /\ k < code[i].at + code[i].n
  IN  BitAt(code[i].x, k - code[i].at)
CodeBit(b, k) == BitOf(Code(b), k)

\* The first done[b] bits of each block are those of its code, and the others are zero.
Holds(mem, done) ==
  \A b \in Blocks : \A k \in 0 .. (job.maxbits - 1) :
    StreamBit(mem, Bit0(b) + k) = IF k < done[b] THEN CodeBit(b, k) ELSE 0

\* The bits of mem2 are those of mem but for len bits from p on, which are those of m.
FilledAt(mem2, mem, p, len, m) ==
  \A q \in Nat : q \div wsize \in Memory =>
    StreamBit(mem2, q) = IF p <= q /\ q < p + len THEN BitAt(m, q - p) ELSE StreamBit(mem, q)

\* A call ends before a later one begins.
LEMMA CallsInOrder ==
  ASSUME job \in Jobs, NEW b \in Blocks, NEW i \in Calls(b), NEW j \in Calls(b), i < j
  PROVE  At(b, i) + Code(b)[i].n <= At(b, j)
<1> DEFINE e == At(b, i) + Code(b)[i].n
           l == Len(Code(b))
           T == {d \in Nat : (i + 1) + d <= l => e <= At(b, (i + 1) + d)}
<1>1. i \in Nat \ {0} /\ j \in Nat /\ l \in Nat /\ i <= l /\ j <= l
  BY CallFacts DEF Calls
<1>2. \A k \in 1 .. l : k \in Calls(b)
  BY DEF Calls
<1>3. \A k \in Calls(b) : At(b, k) \in Nat /\ Code(b)[k].n \in Nat /\ At(b, k + 1) = At(b, k) + Code(b)[k].n
  <2> TAKE k \in Calls(b)
  <2>1. Code(b)[k].n \in Nat /\ Code(b)[k].at \in Nat
    BY MaskedFacts, CallFacts
  <2> QED
    BY <2>1, AtFacts
<1>4. e \in Nat /\ At(b, i + 1) = e
  BY <1>3
<1> HIDE DEF e
<1>5. 0 \in T
  <2>1. (i + 1) + 0 = i + 1
    BY <1>1
  <2> QED
    BY <1>4, <2>1
<1>6. ASSUME NEW d \in T PROVE d + 1 \in T
  <2>1. d \in Nat /\ d + 1 \in Nat /\ (i + 1) + (d + 1) = ((i + 1) + d) + 1
    BY <1>1
  <2>2. ASSUME (i + 1) + (d + 1) <= l PROVE e <= At(b, (i + 1) + (d + 1))
    <3> DEFINE k == (i + 1) + d
    <3>1. k \in 1 .. l /\ k <= l /\ k + 1 = (i + 1) + (d + 1) /\ k + 1 \in 1 .. l
      BY <1>1, <2>1, <2>2
    <3>2. e <= At(b, k)
      BY <3>1
    <3> HIDE DEF k
    <3>3. At(b, k + 1) = At(b, k) + Code(b)[k].n /\ At(b, k) \in Nat /\ Code(b)[k].n \in Nat
      BY <1>2, <1>3, <3>1
    <3>4. e <= At(b, k + 1)
      BY <1>4, <3>2, <3>3
    <3> QED
      BY <3>1, <3>4
  <2> QED
    BY <2>1, <2>2
<1>7. T = Nat
  <2> HIDE DEF T
  <2>1. T \in SUBSET Nat
    BY DEF T
  <2> QED
    BY <1>5, <1>6, <2>1, SetInduction
<1> DEFINE d == j - (i + 1)
<1>8. d \in Nat /\ (i + 1) + d = j
  BY <1>1
<1>9. d \in T
  BY <1>7, <1>8
<1> QED
  BY <1>1, <1>8, <1>9 DEF e

\* The bits of the code are those of its calls.
LEMMA CodeBitOf ==
  ASSUME job \in Jobs, NEW b \in Blocks, NEW i \in Calls(b), NEW k \in 0 .. (Code(b)[i].n - 1)
  PROVE  CodeBit(b, At(b, i) + k) = BitAt(Code(b)[i].x, k)
<1> DEFINE q == At(b, i) + k
           P(j) == Code(b)[j].at <= q /\ q < Code(b)[j].at + Code(b)[j].n
           h == CHOOSE j \in 1 .. Len(Code(b)) : P(j)
<1>1. \A j \in Calls(b) :
        At(b, j) \in Nat /\ Code(b)[j].n \in Nat /\ j \in Nat /\ Code(b)[j].at = At(b, j)
  <2> TAKE j \in Calls(b)
  <2>1. Code(b)[j].n \in Nat /\ Code(b)[j].at \in Nat
    BY MaskedFacts, CallFacts
  <2> QED
    BY <2>1, AtFacts, SMTT(30) DEF Calls
<1>2. q \in Nat /\ k \in Nat /\ q - At(b, i) = k
  BY <1>1
<1>3. P(i)
  BY <1>1, <1>2
<1>4. h \in Calls(b) /\ P(h)
  BY <1>3 DEF Calls
<1>5. h = i
  <2>1. CASE h < i
    <3>1. At(b, h) + Code(b)[h].n <= At(b, i)
      BY <1>4, <2>1, CallsInOrder
    <3> QED
      BY <1>1, <1>2, <1>3, <1>4, <3>1, SMTT(30)
  <2>2. CASE i < h
    <3>1. At(b, i) + Code(b)[i].n <= At(b, h)
      BY <1>4, <2>2, CallsInOrder
    <3> QED
      BY <1>1, <1>2, <1>3, <1>4, <3>1, SMTT(30)
  <2> HIDE DEF h
  <2> QED
    BY <1>1, <1>4, <2>1, <2>2
<1>6. CodeBit(b, q) = BitAt(Code(b)[h].x, q - Code(b)[h].at)
  BY DEF CodeBit, BitOf
<1>8. CodeBit(b, q) = BitAt(Code(b)[i].x, q - At(b, i))
  BY <1>1, <1>5, <1>6
<1> HIDE DEF h, q
<1>7. CodeBit(b, q) = BitAt(Code(b)[i].x, k)
  BY <1>2, <1>8
<1> QED
  BY <1>7 DEF q

\* What a change of a word does to the stream.
LEMMA Put ==
  ASSUME NEW mem \in [Memory -> Word], NEW p \in Nat, p \div wsize \in Memory,
         NEW len \in Nat, (p % wsize) + len <= wsize, NEW m,
         NEW e, Filled(e, mem[p \div wsize], p % wsize, len, m),
         NEW mem2, mem2 = [mem EXCEPT ![p \div wsize] = e]
  PROVE  FilledAt(mem2, mem, p, len, m)
<1> DEFINE w == p \div wsize
           s == p % wsize
<1>1. wsize \in Nat \ {0}
  BY WordSize
<1>2. w \in Nat /\ s \in 0 .. (wsize - 1) /\ p = wsize * w + s /\ s + len <= wsize
  BY <1>1, DivMod
<1>3. w \in Memory /\ Filled(e, mem[w], s, len, m) /\ mem2 = [mem EXCEPT ![w] = e]
  OBVIOUS
<1> HIDE DEF w, s
<1>4. ASSUME NEW q \in Nat, q \div wsize \in Memory
      PROVE  StreamBit(mem2, q) =
               IF p <= q /\ q < p + len THEN BitAt(m, q - p) ELSE StreamBit(mem, q)
  <2> DEFINE v == q \div wsize
             j == q % wsize
  <2>1. v \in Nat /\ j \in 0 .. (wsize - 1) /\ q = wsize * v + j
    BY <1>1, DivMod
  <2>2. v \in Memory /\ StreamBit(mem2, q) = BitAt(mem2[v], j) /\ StreamBit(mem, q) = BitAt(mem[v], j)
    BY <1>4 DEF StreamBit
  <2> HIDE DEF v, j
  <2>3. CASE v = w
    <3>1. mem2[v] = e
      BY <1>3, <2>2, <2>3
    <3>2. BitAt(e, j) = IF s <= j /\ j < s + len THEN BitAt(m, j - s) ELSE BitAt(mem[v], j)
      BY <1>3, <2>1, <2>3 DEF Filled
    <3> DEFINE z == wsize * w
    <3>3. z \in Nat /\ p = z + s /\ q = z + j
      BY <1>1, <1>2, <2>1, <2>3
    <3> HIDE DEF z
    <3>4. (p <= q <=> s <= j) /\ (q < p + len <=> j < s + len) /\ q - p = j - s
      BY <1>1, <1>2, <2>1, <3>3
    <3> QED
      BY <2>2, <3>1, <3>2, <3>4
  <2>4. CASE v # w
    <3>1. mem2[v] = mem[v]
      BY <1>3, <2>2, <2>4
    <3>2. ~ (p <= q /\ q < p + len)
      <4>1. CASE v < w
        <5>1. wsize * (v + 1) <= wsize * w /\ wsize * (v + 1) = wsize * v + wsize
              /\ wsize * v \in Nat /\ wsize * w \in Nat
          BY <1>1, <1>2, <2>1, <4>1
        <5> QED
          BY <1>1, <1>2, <2>1, <5>1
      <4>2. CASE w < v
        <5>1. wsize * (w + 1) <= wsize * v /\ wsize * (w + 1) = wsize * w + wsize
              /\ wsize * v \in Nat /\ wsize * w \in Nat
          BY <1>1, <1>2, <2>1, <4>2
        <5> QED
          BY <1>1, <1>2, <2>1, <5>1
      <4> QED
        BY <1>2, <2>1, <2>4, <4>1, <4>2
    <3> QED
      BY <2>2, <3>1, <3>2
  <2> QED
    BY <2>3, <2>4
<1> QED
  BY <1>4 DEF FilledAt

\* A block ends before a later one begins.
LEMMA BlocksApart ==
  ASSUME job \in Jobs, NEW a \in Blocks, NEW b \in Blocks, a < b
  PROVE  Bit0(a) + job.maxbits <= Bit0(b)
<1> DEFINE m == job.maxbits
<1>1. m \in Nat /\ blocks \in Nat
  BY JobFacts
<1>2. a \in Nat /\ b \in Nat /\ a + 1 <= b
  BY <1>1 DEF Blocks
<1> HIDE DEF m
<1>3. (a + 1) * m <= b * m /\ (a + 1) * m = a * m + m
  BY <1>1, <1>2
<1> QED
  BY <1>3 DEF Bit0, m

\* A position in a block is one of a word.
LEMMA BitPlace ==
  ASSUME job \in Jobs, NEW b \in Blocks, NEW k \in Nat, k <= job.maxbits
  PROVE  LET q == Bit0(b) + k
         IN  /\ q \in Nat /\ q <= blocks * job.maxbits
             /\ q \div wsize \in Allocated /\ q \div wsize \in Memory
             /\ q \div wsize \in Nat /\ q % wsize \in 0 .. (wsize - 1)
             /\ q = wsize * (q \div wsize) + (q % wsize)
<1> DEFINE q == Bit0(b) + k
           B == blocks * job.maxbits
           m == job.maxbits
<1>1. Bit0(b) \in Nat /\ Bit0(b) + m <= B /\ m \in Nat /\ B \in Nat /\ k <= m
  BY BlockPlace, JobFacts
<1>2. q \in Nat /\ q <= B
  <2> HIDE DEF B, m
  <2> QED
    BY <1>1
<1> HIDE DEF q
<1>3. /\ q \div wsize \in Allocated /\ q \div wsize \in Nat /\ q % wsize \in 0 .. (wsize - 1)
      /\ q = wsize * (q \div wsize) + (q % wsize)
  BY <1>2, PositionAllocated
<1>4. q \div wsize \in Memory
  BY <1>3, AllocatedIsMemory
<1>5. /\ q \in Nat /\ q <= blocks * job.maxbits
      /\ q \div wsize \in Allocated /\ q \div wsize \in Memory
      /\ q \div wsize \in Nat /\ q % wsize \in 0 .. (wsize - 1)
      /\ q = wsize * (q \div wsize) + (q % wsize)
  BY <1>2, <1>3, <1>4
<1> QED
  BY <1>5, Zenon DEF q

\* The next bits of a block's code are put in place; bits of other blocks, in the same word
\* or not, stay.
LEMMA Grow ==
  ASSUME job \in Jobs, NEW b \in Blocks, NEW done \in [Blocks -> Nat],
         NEW mem, Holds(mem, done),
         NEW len \in Nat, NEW p \in Nat, len = 0 \/ p = Bit0(b) + done[b], done[b] + len <= job.maxbits,
         NEW m, \A j \in 0 .. (len - 1) : BitAt(m, j) = CodeBit(b, done[b] + j),
         NEW mem2, FilledAt(mem2, mem, p, len, m)
  PROVE  Holds(mem2, [done EXCEPT ![b] = done[b] + len])
<1> DEFINE n == job.maxbits
           z == done[b]
           f == [done EXCEPT ![b] = z + len]
<1>1. n \in Nat /\ z \in Nat /\ Bit0(b) \in Nat /\ z + len <= n
  BY JobFacts, BlockPlace
<1>2. f[b] = z + len /\ \A a \in Blocks \ {b} : f[a] = done[a]
  OBVIOUS
<1> HIDE DEF f
<1>3. ASSUME NEW a \in Blocks, NEW k \in 0 .. (n - 1)
      PROVE  StreamBit(mem2, Bit0(a) + k) = IF k < f[a] THEN CodeBit(a, k) ELSE 0
  <2> DEFINE q == Bit0(a) + k
  <2>1. k \in Nat /\ k <= n /\ k < n
    BY <1>1
  <2>2. q \in Nat /\ q \div wsize \in Memory /\ Bit0(a) \in Nat
    BY <2>1, BitPlace, BlockPlace
  <2>3. StreamBit(mem, q) = IF k < done[a] THEN CodeBit(a, k) ELSE 0
    BY DEF Holds
  <2>4. StreamBit(mem2, q) = IF p <= q /\ q < p + len THEN BitAt(m, q - p) ELSE StreamBit(mem, q)
    <3> HIDE DEF q
    <3> QED
      BY <2>2 DEF FilledAt
  <2>5. CASE len = 0
    <3>1. ~ (p <= q /\ q < p + len) /\ f[a] = done[a]
      BY <1>1, <1>2, <2>2, <2>5
    <3> HIDE DEF q
    <3>2. StreamBit(mem2, q) = IF k < f[a] THEN CodeBit(a, k) ELSE 0
      BY <2>3, <2>4, <3>1
    <3> QED
      BY <3>2 DEF q
  <2>6. CASE p = Bit0(b) + z /\ a = b
    <3> DEFINE j == k - z
    <3> HIDE DEF z, n
    <3>1. (p <= q <=> z <= k) /\ (q < p + len <=> k < z + len) /\ q - p = j
      BY <1>1, <2>1, <2>2, <2>6
    <3>2. CASE z <= k /\ k < z + len
      <4>1. j \in 0 .. (len - 1) /\ z + j = k
        BY <1>1, <2>1, <3>2
      <4>2. BitAt(m, j) = CodeBit(b, z + j)
        BY <4>1 DEF z
      <4> HIDE DEF q, j
      <4>3. StreamBit(mem2, q) = CodeBit(a, k)
        BY <2>4, <2>6, <3>1, <3>2, <4>1, <4>2
      <4> QED
        BY <1>2, <2>6, <3>2, <4>3 DEF q
    <3>3. CASE ~ (z <= k /\ k < z + len)
      <4>1. k < done[a] <=> k < f[a]
        BY <1>1, <1>2, <2>1, <2>6, <3>3 DEF z
      <4> HIDE DEF q, j
      <4>2. StreamBit(mem2, q) = StreamBit(mem, q)
        BY <2>4, <3>1, <3>3
      <4> QED
        BY <2>3, <4>1, <4>2 DEF q
    <3> QED
      BY <3>2, <3>3
  <2>7. CASE p = Bit0(b) + z /\ a # b
    <3>1. ~ (p <= q /\ q < p + len)
      <4>1. a \in Nat /\ b \in Nat
        BY JobFacts DEF Blocks
      <4>2. CASE a < b
        <5>1. Bit0(a) + n <= Bit0(b)
          BY <4>2, BlocksApart
        <5> HIDE DEF n, z
        <5> QED
          BY <1>1, <2>1, <2>2, <2>7, <5>1
      <4>3. CASE b < a
        <5>1. Bit0(b) + n <= Bit0(a)
          BY <4>3, BlocksApart
        <5> HIDE DEF n, z
        <5> QED
          BY <1>1, <2>1, <2>2, <2>7, <5>1
      <4> QED
        BY <2>7, <4>1, <4>2, <4>3
    <3>2. f[a] = done[a]
      BY <1>2, <2>7
    <3> HIDE DEF q
    <3>3. StreamBit(mem2, q) = IF k < f[a] THEN CodeBit(a, k) ELSE 0
      BY <2>3, <2>4, <3>1, <3>2
    <3> QED
      BY <3>3 DEF q
  <2> QED
    BY <2>5, <2>6, <2>7
<1>4. Holds(mem2, f)
  BY <1>3 DEF Holds
<1> QED
  BY <1>4 DEF f

\* The bits of a block that are not done yet are zero in their word.
LEMMA ZerosAhead ==
  ASSUME job \in Jobs, NEW b \in Blocks, NEW done \in [Blocks -> Nat], NEW mem, Holds(mem, done),
         NEW z \in Nat, done[b] <= z, NEW len \in Nat, z + len <= job.maxbits,
         NEW p, p = Bit0(b) + z, (p % wsize) + len <= wsize
  PROVE  \A k \in (p % wsize) .. ((p % wsize) + len - 1) : BitAt(mem[p \div wsize], k) = 0
<1> DEFINE w == p \div wsize
           s == p % wsize
           n == job.maxbits
<1>1. n \in Nat /\ Bit0(b) \in Nat /\ done[b] \in Nat /\ wsize \in Nat
  BY JobFacts, BlockPlace, WordSize
<1>2. z <= n
  <2> HIDE DEF n
  <2>1. z + len <= n
    BY DEF n
  <2> QED
    BY <1>1, <2>1
<1>3. p \in Nat /\ w \in Nat /\ s \in 0 .. (wsize - 1) /\ p = wsize * w + s
  BY <1>2, BitPlace
<1>4. s + len <= wsize /\ z + len <= n /\ done[b] <= z /\ p = Bit0(b) + z
  OBVIOUS
<1> HIDE DEF w, s, n
<1>5. ASSUME NEW k \in s .. (s + len - 1) PROVE BitAt(mem[w], k) = 0
  <2> DEFINE j == z + (k - s)
             q == Bit0(b) + j
  <2>1. k \in 0 .. (wsize - 1) /\ k \in Nat /\ j \in 0 .. (n - 1) /\ ~ (j < done[b])
    BY <1>1, <1>3, <1>4
  <2>2. q = wsize * w + k
    <3> DEFINE y == wsize * w
    <3>1. y \in Nat /\ Bit0(b) + z = y + s
      BY <1>1, <1>3, <1>4
    <3> DEFINE x == Bit0(b)
    <3>2. x \in Nat /\ x + z = y + s /\ s \in Nat /\ k \in Nat /\ q = x + (z + (k - s))
      BY <1>1, <1>3, <2>1, <3>1
    <3> HIDE DEF y, x, q
    <3>3. q = y + k
      BY <3>1, <3>2
    <3> QED
      BY <3>3 DEF y
  <2>3. StreamBit(mem, q) = 0
    <3> HIDE DEF j
    <3> QED
      BY <2>1 DEF Holds, n
  <2>4. StreamBit(mem, wsize * w + k) = BitAt(mem[w], k)
    BY <1>3, <2>1, Place
  <2> QED
    BY <2>2, <2>3, <2>4
<1> QED
  BY <1>5 DEF w, s

-----------------------------------------------------------------------------
\* What threads have written.

Lesser(x, y) == IF x < y THEN x ELSE y

\* The bits of a block that are in the device's words: between the two additions of a call, those
\* that fit the first word; of the Metal back end, the parts that are set or the words that are stored.
Stored(b, t) ==
  IF job.gpu = "cuda"
  THEN t.current + (IF t.step = "second" THEN Lesser(Code(b)[t.next].n, wsize - Segment(b, t)) ELSE 0)
  ELSE IF atomic_mode THEN t.current + t.part
  ELSE IF t.next = Len(Code(b)) + 2 THEN t.current
  ELSE t.current - Segment(b, t)

\* A thread of the Metal back end that stores whole words has the other bits of its code.
Collected(b, t) ==
  job.gpu = "metal" /\ ~ atomic_mode =>
    /\ t.next <= Len(Code(b)) + 1 =>
         \A j \in 0 .. (wsize - 1) :
           BitAt(t.buf, j) = IF t.step = "second" \/ j < Segment(b, t)
                             THEN CodeBit(b, (t.current - Segment(b, t)) + j) ELSE 0
    /\ t.loaded # None => t.loaded = 0

\* What the device's words hold while threads encode.
Encoding ==
  pc = "encode" =>
    /\ Holds(device, [b \in Blocks |-> Stored(b, thread[b])])
    /\ \A b \in Blocks : Collected(b, thread[b])

\* What threads have stored and collected depends on the job and the thread only.
LEMMA HoldsKept ==
  ASSUME job' = job
  PROVE  /\ \A b, k : CodeBit(b, k)' = CodeBit(b, k)
         /\ \A b, t : Stored(b, t)' = Stored(b, t)
         /\ \A b, t : Collected(b, t)' = Collected(b, t)
<1>1. /\ \A b : Code(b)' = Code(b) /\ start_bit(b)' = start_bit(b)
      /\ atomic_mode' = atomic_mode
  BY JobKept
<1>2. \A b, k : CodeBit(b, k)' = CodeBit(b, k)
  BY <1>1 DEF CodeBit
<1>3. \A b, t : Segment(b, t)' = Segment(b, t)
  BY <1>1 DEF Segment
<1>4. \A b, t : Stored(b, t)' = Stored(b, t)
  BY <1>1, <1>3 DEF Stored, Lesser
<1>5. \A b, t : Collected(b, t)' = Collected(b, t)
  BY <1>1, <1>2, <1>3 DEF Collected
<1> QED
  BY <1>2, <1>4, <1>5

\* The invariant of the stream after a step, in terms of the new words and threads.
LEMMA EncodingKept ==
  ASSUME job' = job, thread' \in [Blocks -> ThreadState],
         Holds(device', [b \in Blocks |-> Stored(b, thread'[b])]),
         \A b \in Blocks : Collected(b, thread'[b])
  PROVE  Encoding'
<1>1. /\ Blocks' = Blocks /\ \A b : Code(b)' = Code(b) /\ Bit0(b)' = Bit0(b)
  BY JobKept
<1>2. \A b \in Blocks : Stored(b, thread[b])' = Stored(b, thread'[b])
  BY HoldsKept
<1>3. \A b \in Blocks : Collected(b, thread[b])' = Collected(b, thread'[b])
  BY HoldsKept
<1>4. Holds(device, [b \in Blocks |-> Stored(b, thread[b])])'
  BY <1>1, <1>2, HoldsKept DEF Holds, StreamBit
<1> QED
  BY <1>1, <1>3, <1>4 DEF Encoding

\* Blocks are whole words where threads store words.
LEMMA Aligned ==
  ASSUME SafeJobs, job \in Jobs, job.gpu = "metal", ~ atomic_mode, NEW b \in Blocks
  PROVE  /\ start_bit(b) = 0
         /\ job.maxbits % wsize = 0
         /\ \A t : t.current \in Nat =>
              Segment(b, t) = t.current % wsize /\ Segment(b, t) \in 0 .. (wsize - 1)
              /\ Segment(b, t) <= t.current
<1> DEFINE m == job.maxbits
           u == m \div wsize
<1>1. m % wsize = 0 /\ m \in Nat /\ wsize \in Nat \ {0} /\ b \in Nat
  BY JobFacts, WordSize DEF SafeJobs, atomic_mode, Blocks
<1>2. u \in Nat /\ m = wsize * u + (m % wsize)
  <2> HIDE DEF m
  <2> QED
    BY <1>1, DivMod
<1>3. Bit0(b) = b * m
  BY DEF Bit0
<1> HIDE DEF m, u
<1>4. m = wsize * u
  <2>1. wsize * u \in Nat
    BY <1>1, <1>2
  <2> QED
    BY <1>1, <1>2, <2>1
<1>5. Bit0(b) = wsize * (b * u) + 0 /\ b * u \in Nat /\ 0 \in 0 .. (wsize - 1)
  <2>1. b * (wsize * u) = wsize * (b * u) /\ b * u \in Nat
    BY <1>1, <1>2
  <2>2. wsize * (b * u) \in Nat
    BY <1>1, <2>1
  <2> QED
    BY <1>1, <1>3, <1>4, <2>1, <2>2
<1>6. start_bit(b) = 0
  <2> DEFINE q == b * u
  <2> HIDE DEF q
  <2>1. q \in Nat /\ Bit0(b) = wsize * q + 0 /\ 0 \in 0 .. (wsize - 1)
    BY <1>5 DEF q
  <2>2. (wsize * q + 0) % wsize = 0
    BY <1>1, <2>1, DivModUnique
  <2> QED
    BY <2>1, <2>2 DEF start_bit
<1>7. ASSUME NEW t, t.current \in Nat
      PROVE  Segment(b, t) = t.current % wsize /\ Segment(b, t) \in 0 .. (wsize - 1)
             /\ Segment(b, t) <= t.current
  <2> DEFINE x == t.current
  <2>1. Segment(b, t) = (0 + x) % wsize
    BY <1>6 DEF Segment
  <2>2. x \in Nat /\ 0 + x = x
    BY <1>7
  <2> DEFINE q == x \div wsize
             r == x % wsize
  <2>3. q \in Nat /\ r \in 0 .. (wsize - 1) /\ x = wsize * q + r
    <3> HIDE DEF x
    <3> QED
      BY <1>1, <2>2, DivMod
  <2>4. Segment(b, t) = r
    BY <2>1, <2>2
  <2> HIDE DEF q, r
  <2>5. wsize * q \in Nat
    BY <1>1, <2>3
  <2>6. r <= x
    BY <1>1, <2>3, <2>5
  <2> QED
    BY <2>3, <2>4, <2>6 DEF r
<1> QED
  BY <1>1, <1>6, <1>7 DEF m

\* The bits that are stored can be counted.
LEMMA StoredIsNat ==
  ASSUME SafeJobs, Control, NEW b \in Blocks
  PROVE  Stored(b, thread[b]) \in Nat
<1> DEFINE t == thread[b]
<1>1. job \in Jobs /\ job.gpu \in {"cuda", "metal"} /\ WriterAt(b, t)
  BY JobFacts DEF Control, TypeOK
<1>2. t \in ThreadState /\ t.current \in Nat /\ t.part \in Nat /\ t.next \in Nat
  BY <1>1, ThreadFields DEF WriterAt
<1>3. CASE job.gpu = "cuda"
  <2>1. CASE t.step = "second"
    <3>1. t.next <= Len(Code(b))
      BY <1>1, <2>1 DEF WriterAt
    <3> DEFINE n == Code(b)[t.next].n
               s == Segment(b, t)
    <3>2. n \in Nat /\ t.current + n <= job.maxbits
      BY <3>1, WritersCall
    <3>3. s \in 0 .. (wsize - 1)
      BY <1>1, <3>2, WriterWord
    <3>4. Stored(b, t) = t.current + Lesser(n, wsize - s)
      BY <1>3, <2>1 DEF Stored
    <3> HIDE DEF n, s
    <3>5. Lesser(n, wsize - s) \in Nat
      BY <3>2, <3>3, WordSize DEF Lesser
    <3> QED
      BY <1>2, <3>4, <3>5
  <2>2. CASE t.step # "second"
    <3>1. Stored(b, t) = t.current + 0
      BY <1>3, <2>2 DEF Stored
    <3> QED
      BY <1>2, <3>1
  <2> QED
    BY <2>1, <2>2
<1>4. CASE job.gpu = "metal" /\ atomic_mode
  <2>1. Stored(b, t) = t.current + t.part
    BY <1>4 DEF Stored
  <2> QED
    BY <1>2, <2>1
<1>5. CASE job.gpu = "metal" /\ ~ atomic_mode
  <2> DEFINE s == Segment(b, t)
  <2>1. s \in 0 .. (wsize - 1) /\ s <= t.current
    BY <1>1, <1>2, <1>5, Aligned
  <2>2. Stored(b, t) = IF t.next = Len(Code(b)) + 2 THEN t.current ELSE t.current - s
    BY <1>5 DEF Stored
  <2> HIDE DEF s
  <2> QED
    BY <1>2, <2>1, <2>2, WordSize
<1> QED
  BY <1>1, <1>3, <1>4, <1>5

\* A thread that puts the next bits of its block in place.
LEMMA Advance ==
  ASSUME SafeJobs, Control, pc = "encode", Encoding, job' = job,
         NEW b \in Blocks, NEW s \in ThreadState, thread' = [thread EXCEPT ![b] = s],
         NEW p \in Nat, NEW len \in Nat, NEW m, FilledAt(device', device, p, len, m),
         len = 0 \/ p = Bit0(b) + Stored(b, thread[b]), Stored(b, thread[b]) + len <= job.maxbits,
         \A j \in 0 .. (len - 1) : BitAt(m, j) = CodeBit(b, Stored(b, thread[b]) + j),
         Stored(b, s) = Stored(b, thread[b]) + len, Collected(b, s)
  PROVE  Encoding'
<1> DEFINE done == [a \in Blocks |-> Stored(a, thread[a])]
           z == Stored(b, thread[b])
           next == [a \in Blocks |-> Stored(a, thread'[a])]
<1>1. job \in Jobs /\ thread \in [Blocks -> ThreadState]
  BY DEF Control, TypeOK
<1>2. done \in [Blocks -> Nat] /\ Holds(device, done) /\ done[b] = z
  BY StoredIsNat DEF Encoding
<1>3. thread' \in [Blocks -> ThreadState] /\ \A a \in Blocks : thread'[a] = IF a = b THEN s ELSE thread[a]
  BY <1>1
<1>4. next = [done EXCEPT ![b] = z + len]
  <2>1. \A a \in Blocks : Stored(a, thread'[a]) = IF a = b THEN z + len ELSE Stored(a, thread[a])
    BY <1>3
  <2> QED
    BY <2>1
<1> HIDE DEF done
<1>5. Holds(device', [done EXCEPT ![b] = done[b] + len])
  BY <1>1, <1>2, Grow
<1>6. Holds(device', next)
  BY <1>2, <1>4, <1>5
<1>7. \A a \in Blocks : Collected(a, thread'[a])
  BY <1>3 DEF Encoding
<1> QED
  BY <1>3, <1>6, <1>7, EncodingKept

\* The words of threads that are not done are zero ahead of what they have stored.
LEMMA DeviceZeros ==
  ASSUME SafeJobs, Control, pc = "encode", Encoding, NEW b \in Blocks,
         NEW z \in Nat, Stored(b, thread[b]) <= z, NEW len \in Nat, z + len <= job.maxbits,
         NEW p, p = Bit0(b) + z, (p % wsize) + len <= wsize
  PROVE  \A k \in (p % wsize) .. ((p % wsize) + len - 1) : BitAt(device[p \div wsize], k) = 0
<1> DEFINE done == [a \in Blocks |-> Stored(a, thread[a])]
<1>1. job \in Jobs
  BY DEF Control, TypeOK
<1>2. done \in [Blocks -> Nat] /\ Holds(device, done) /\ done[b] = Stored(b, thread[b])
  BY StoredIsNat DEF Encoding
<1> HIDE DEF done
<1> QED
  BY <1>1, <1>2, ZerosAhead

\* Bits of a call are bits of its block.
LEMMA CallBits ==
  ASSUME Control, NEW b \in Blocks, thread[b].next <= Len(Code(b))
  PROVE  LET c == Code(b)[thread[b].next]
         IN  \A k \in 0 .. (c.n - 1) : BitAt(Masked(c), k) = CodeBit(b, thread[b].current + k)
<1> DEFINE i == thread[b].next
           c == Code(b)[i]
<1>1. job \in Jobs /\ i \in Calls(b) /\ WriterAt(b, thread[b])
  BY WritersCall
<1>2. thread[b].current = At(b, i)
  BY <1>1 DEF WriterAt
<1>3. ASSUME NEW k \in 0 .. (c.n - 1) PROVE BitAt(Masked(c), k) = CodeBit(b, thread[b].current + k)
  BY <1>1, <1>2, CodeBitOf, MaskedFacts
<1> QED
  BY <1>3

\* The first addition of a call: the bits that fit the word.
LEMMA WriteBitsEncoding ==
  ASSUME SafeJobs, Control, Encoding, NEW b \in Blocks, WriteBits(b)
  PROVE  Encoding'
<1> DEFINE t == thread[b]
           c == Code(b)[t.next]
           n == c.n
           p == Bit0(b) + t.current
           w == p \div wsize
           s == p % wsize
           m == Masked(c)
           x == m * 2 ^ s
           u == IF Straddles(b, c) THEN Halfway(t, t.buf) ELSE Called(t, n, t.buf)
           len == Lesser(n, wsize - s)
<1>1. pc = "encode" /\ job.gpu = "cuda" /\ t.next <= Len(Code(b)) /\ t.step = "first" /\ job' = job
  BY DEF WriteBits
<1>2. /\ job \in Jobs /\ t.next \in Calls(b) /\ WriterAt(b, t) /\ n \in Nat
      /\ t.current + n <= job.maxbits
  BY <1>1, WritersCall
<1>3. t \in ThreadState /\ t.buf \in Word /\ t.current \in Nat
  BY <1>2, ThreadFields DEF WriterAt
<1>4. thread \in [Blocks -> ThreadState] /\ device \in [Memory -> Word]
  BY DEF Control, TypeOK
<1>5. /\ p \in Nat /\ seg_start(b) = s /\ Segment(b, t) = s /\ write_index(b) = w
      /\ s \in 0 .. (wsize - 1) /\ w \in Allocated /\ p = wsize * w + s
  BY <1>2, WriterWord
<1>6. w \in Memory
  BY <1>2, <1>5, AllocatedIsMemory
<1>7. AtomicAdd(w, x) /\ thread' = [thread EXCEPT ![b] = u]
  BY <1>4, <1>5 DEF WriteBits
<1>8. n \in 0 .. wsize /\ m \in Nat /\ m < 2 ^ n
  BY <1>2, MaskedFacts
<1>9. \A k \in 0 .. (n - 1) : BitAt(m, k) = CodeBit(b, t.current + k)
  BY <1>1, CallBits
<1>10. u \in ThreadState
  <2>1. Halfway(t, t.buf) \in ThreadState
    BY <1>3, HalfwayState
  <2>2. Called(t, n, t.buf) \in ThreadState
    BY <1>2, <1>3, CalledState
  <2> QED
    BY <2>1, <2>2
<1>11. Stored(b, t) = t.current
  <2>1. Stored(b, t) = t.current + 0
    BY <1>1 DEF Stored
  <2> QED
    BY <1>3, <2>1
<1>12. /\ len \in 0 .. wsize /\ len \in Nat /\ len <= n /\ s + len <= wsize
       /\ (len = n \/ s + len = wsize)
  <2> HIDE DEF n, s
  <2> QED
    BY <1>2, <1>5, <1>8, WordSize DEF Lesser
<1>13. Stored(b, u) = t.current + len
  <2>1. CASE Straddles(b, c)
    <3>1. u = Halfway(t, t.buf)
      BY <2>1
    <3>2. u.next = t.next /\ u.current = t.current /\ u.step = "second"
      BY <1>3, <3>1, HalfwayState
    <3>3. Segment(b, u) = s
      BY <1>5, <3>2 DEF Segment
    <3> HIDE DEF u, s
    <3> QED
      BY <1>1, <3>2, <3>3 DEF Stored
  <2>2. CASE ~ Straddles(b, c)
    <3>1. u.current = t.current + n /\ u.step = "first"
      BY <2>2, CalledFields
    <3>2. n <= wsize - s
      <4>1. CASE c.call = "bit"
        <5>1. n = 1
          BY <1>2, <4>1, CallFacts
        <5> HIDE DEF n, s
        <5> QED
          BY <1>5, <5>1, WordSize
      <4>2. CASE c.call # "bit"
        <5>1. ~ (IF s + n = 0 THEN TRUE ELSE s + n - 1 >= wsize)
          BY <1>5, <2>2, <4>2 DEF Straddles
        <5> HIDE DEF n, s
        <5> QED
          BY <1>2, <1>5, <5>1, WordSize
      <4> QED
        BY <4>1, <4>2
    <3>3. len = n
      <4> HIDE DEF n, s
      <4> QED
        BY <1>2, <1>5, <3>2, WordSize DEF Lesser
    <3>4. Stored(b, u) = u.current + 0
      <4> HIDE DEF u
      <4> QED
        BY <1>1, <3>1 DEF Stored
    <3> QED
      BY <1>2, <1>3, <3>1, <3>3, <3>4
  <2> QED
    BY <2>1, <2>2
<1>14. Collected(b, u)
  BY <1>1 DEF Collected
<1> HIDE DEF u, len, n, m, s, w, p
<1>15. t.current + len <= job.maxbits
  <2>1. job.maxbits \in Nat
    BY <1>2, JobFacts
  <2> QED
    BY <1>2, <1>3, <1>12, <2>1
<1>16. \A k \in s .. (s + len - 1) : BitAt(device[w], k) = 0
  <2>1. Stored(b, t) <= t.current
    BY <1>3, <1>11
  <2>2. p = Bit0(b) + t.current
    BY DEF p
  <2>3. (p % wsize) + len <= wsize
    BY <1>12 DEF s
  <2>4. \A k \in (p % wsize) .. ((p % wsize) + len - 1) : BitAt(device[p \div wsize], k) = 0
    BY <1>1, <1>3, <1>12, <1>15, <2>1, <2>2, <2>3, DeviceZeros
  <2> QED
    BY <2>4 DEF s, w
<1>17. Filled(Plus(device[w], x), device[w], s, len, m)
  <2>1. device[w] \in Word /\ s \in 0 .. wsize
    BY <1>4, <1>5, <1>6, WordSize
  <2>2. m < 2 ^ len \/ s + len = wsize
    BY <1>8, <1>12
  <2> QED
    BY <1>8, <1>12, <1>16, <2>1, <2>2, PlusFills
<1>18. FilledAt(device', device, p, len, m)
  <2>1. device' = [device EXCEPT ![w] = Plus(device[w], x)]
    BY <1>7 DEF AtomicAdd
  <2> DEFINE e == Plus(device[w], x)
  <2>2. Filled(e, device[p \div wsize], p % wsize, len, m) /\ device' = [device EXCEPT ![p \div wsize] = e]
        /\ p \div wsize \in Memory /\ (p % wsize) + len <= wsize
    BY <1>6, <1>12, <1>17, <2>1 DEF w, s
  <2> HIDE DEF e
  <2> QED
    BY <1>4, <1>5, <1>12, <2>2, Put
<1>19. \A j \in 0 .. (len - 1) : BitAt(m, j) = CodeBit(b, t.current + j)
  BY <1>2, <1>9, <1>12
<1>20. /\ p = Bit0(b) + Stored(b, t) /\ Stored(b, t) + len <= job.maxbits
       /\ Stored(b, u) = Stored(b, t) + len
       /\ \A j \in 0 .. (len - 1) : BitAt(m, j) = CodeBit(b, Stored(b, t) + j)
  BY <1>11, <1>13, <1>15, <1>19 DEF p
<1> QED
  BY <1>1, <1>5, <1>7, <1>10, <1>12, <1>14, <1>18, <1>20, Advance

\* What is left of a number of n bits when d are taken away has n - d bits.
LEMMA QuotientBelow ==
  ASSUME NEW a \in Nat, NEW d \in 0 .. wsize, NEW len \in 0 .. wsize, d + len <= wsize,
         a < 2 ^ (d + len)
  PROVE  a \div 2 ^ d \in Nat /\ a \div 2 ^ d < 2 ^ len
<1> DEFINE p == 2 ^ d
           r == 2 ^ len
           q == a \div p
<1>1. p \in Nat \ {0} /\ r \in Nat \ {0} /\ a < p * r
  BY Powers, PowerSum
<1>2. q \in Nat /\ a % p \in 0 .. (p - 1) /\ a = p * q + (a % p)
  <2> HIDE DEF p
  <2> QED
    BY <1>1, DivMod
<1> HIDE DEF p, q, r
<1>3. q < r
  <2> SUFFICES ASSUME r <= q PROVE FALSE
    BY <1>1, <1>2
  <2>1. p * r <= p * q /\ p * q \in Nat /\ p * r \in Nat
    BY <1>1, <1>2
  <2> QED
    BY <1>1, <1>2, <2>1
<1> QED
  BY <1>2, <1>3 DEF p, q, r

\* The rest of a call after d bits of it.
LEMMA RestOfCall ==
  ASSUME Control, NEW b \in Blocks, thread[b].next <= Len(Code(b)), NEW d \in 0 .. wsize
  PROVE  LET c == Code(b)[thread[b].next]
             m == Masked(c) \div 2 ^ d
             len == c.n - Lesser(c.n, d)
         IN  /\ m \in Nat /\ len \in 0 .. wsize /\ m < 2 ^ len
             /\ \A j \in 0 .. (len - 1) :
                  BitAt(m, j) = CodeBit(b, (thread[b].current + Lesser(c.n, d)) + j)
<1> DEFINE t == thread[b]
           c == Code(b)[t.next]
           n == c.n
           a == Masked(c)
           m == a \div 2 ^ d
           k == Lesser(n, d)
           len == n - k
<1>1. job \in Jobs /\ t.next \in Calls(b) /\ WriterAt(b, t)
  BY WritersCall
<1>2. n \in 0 .. wsize /\ n \in Nat /\ a \in Nat /\ a < 2 ^ n /\ t.current \in Nat
  BY <1>1, MaskedFacts, ThreadFields DEF WriterAt
<1>3. \A i \in 0 .. (n - 1) : BitAt(a, i) = CodeBit(b, t.current + i)
  BY CallBits
<1> HIDE DEF n, a
<1>4. k \in Nat /\ len \in 0 .. wsize /\ d \in Nat
  BY <1>2, WordSize DEF Lesser
<1>5. m \in Nat
  BY <1>2, PowerDiv
<1>6. CASE n <= d
  <2>1. k = n /\ len = 0 /\ d \in n .. wsize
    BY <1>2, <1>4, <1>6, WordSize DEF Lesser
  <2>2. m = 0
    BY <1>2, <2>1, NoHighBits
  <2>3. m < 2 ^ len
    <3>1. 2 ^ 0 = 1
      BY Powers
    <3> HIDE DEF m, len
    <3> QED
      BY <2>1, <2>2, <3>1
  <2>4. \A j \in 0 .. (len - 1) : FALSE
    BY <2>1
  <2> QED
    BY <1>4, <1>5, <2>3, <2>4 DEF n, a
<1>7. CASE n > d
  <2>1. k = d /\ len = n - d /\ d + len = n /\ d + len <= wsize
    BY <1>2, <1>4, <1>7, WordSize DEF Lesser
  <2>2. m < 2 ^ len
    <3> HIDE DEF len
    <3> QED
      BY <1>2, <1>4, <2>1, QuotientBelow
  <2>3. ASSUME NEW j \in 0 .. (len - 1)
        PROVE  BitAt(m, j) = CodeBit(b, (t.current + k) + j)
    <3>1. /\ j \in 0 .. wsize /\ d + j <= wsize /\ d + j \in 0 .. (n - 1)
          /\ (t.current + k) + j = t.current + (d + j)
      BY <1>2, <1>4, <2>1, WordSize
    <3>2. BitAt(m, j) = BitAt(a, d + j)
      BY <1>2, <3>1, BitOfQuotient
    <3>3. BitAt(a, d + j) = CodeBit(b, t.current + (d + j))
      BY <1>3, <3>1
    <3> QED
      BY <3>1, <3>2, <3>3
  <2> QED
    BY <1>4, <1>5, <2>2, <2>3 DEF n, a
<1> QED
  BY <1>2, <1>4, <1>6, <1>7

\* The second addition of a call: the bits that are left.
LEMMA WriteRestEncoding ==
  ASSUME SafeJobs, Control, Encoding, NEW b \in Blocks, WriteRest(b)
  PROVE  Encoding'
<1> DEFINE t == thread[b]
           c == Code(b)[t.next]
           n == c.n
           q == Bit0(b) + t.current
           w == q \div wsize
           s == q % wsize
           d == wsize - s
           k == Lesser(n, d)
           len == n - k
           m == Masked(c) \div 2 ^ d
           p == wsize * (w + 1) + 0
           u == Called(t, n, t.buf)
<1>1. pc = "encode" /\ job.gpu = "cuda" /\ t.next <= Len(Code(b)) /\ t.step = "second" /\ job' = job
  BY DEF WriteRest, Control, WriterAt
<1>2. /\ job \in Jobs /\ t.next \in Calls(b) /\ WriterAt(b, t) /\ n \in Nat
      /\ t.current + n <= job.maxbits
  BY <1>1, WritersCall
<1>3. t \in ThreadState /\ t.buf \in Word /\ t.current \in Nat
  BY <1>2, ThreadFields DEF WriterAt
<1>4. thread \in [Blocks -> ThreadState] /\ device \in [Memory -> Word]
  BY DEF Control, TypeOK
<1>5. /\ q \in Nat /\ seg_start(b) = s /\ Segment(b, t) = s /\ write_index(b) = w
      /\ s \in 0 .. (wsize - 1) /\ w \in Nat /\ w + 1 \in Allocated /\ q = wsize * w + s
  BY <1>2, WriterWord
<1>6. w + 1 \in Memory
  BY <1>2, <1>5, AllocatedIsMemory
<1>7. AtomicAdd(w + 1, m) /\ thread' = [thread EXCEPT ![b] = u]
  BY <1>4, <1>5 DEF WriteRest
<1>8. n \in 0 .. wsize
  BY <1>2, MaskedFacts
<1>9. d \in 0 .. wsize
  <2> HIDE DEF s
  <2> QED
    BY <1>5, WordSize
<1>10. /\ m \in Nat /\ len \in 0 .. wsize /\ m < 2 ^ len
       /\ \A j \in 0 .. (len - 1) : BitAt(m, j) = CodeBit(b, (t.current + k) + j)
  <2> HIDE DEF d
  <2> QED
    BY <1>1, <1>9, RestOfCall
<1>11. u \in ThreadState
  BY <1>2, <1>3, CalledState
<1>12. Stored(b, t) = t.current + k
  <2> HIDE DEF s
  <2> QED
    BY <1>1, <1>5 DEF Stored
<1>13. k \in Nat /\ len \in Nat /\ k + len = n /\ (len # 0 => k = d)
  <2> HIDE DEF n, d
  <2> QED
    BY <1>2, <1>9, <1>8, WordSize DEF Lesser
<1>14. Stored(b, u) = (t.current + k) + len
  <2>1. u.current = t.current + n /\ u.step = "first"
    BY CalledFields
  <2>2. Stored(b, u) = u.current + 0
    <3> HIDE DEF u
    <3> QED
      BY <1>1, <2>1 DEF Stored
  <2> HIDE DEF u, k, len, n
  <2> QED
    BY <1>2, <1>3, <1>13, <2>1, <2>2
<1>15. Collected(b, u)
  BY <1>1 DEF Collected
<1> HIDE DEF u, w
<1>16. p \in Nat /\ p \div wsize = w + 1 /\ p % wsize = 0
  <2>1. w + 1 \in Nat /\ 0 \in 0 .. (wsize - 1)
    BY <1>5, WordSize
  <2> QED
    BY <2>1, Place
<1>17. len = 0 \/ p = Bit0(b) + (t.current + k)
  <2> SUFFICES ASSUME len # 0 PROVE p = Bit0(b) + (t.current + k)
    OBVIOUS
  <2> DEFINE y == wsize * w
             z == Bit0(b)
  <2>1. y \in Nat /\ p = y + wsize /\ z \in Nat /\ z + t.current = y + s
    <3>1. wsize \in Nat /\ wsize * (w + 1) = wsize * w + wsize /\ wsize * w \in Nat
      BY <1>5, WordSize
    <3>2. p = wsize * w + wsize
      BY <3>1
    <3> QED
      BY <1>2, <1>5, <3>1, <3>2, BlockPlace
  <2>2. k = wsize - s
    BY <1>13
  <2> HIDE DEF y, z, p, s, k
  <2>3. p = z + (t.current + k)
    BY <1>3, <1>5, <2>1, <2>2, WordSize
  <2> QED
    BY <2>3 DEF z
<1> HIDE DEF p, d, s, k, len, n, m
<1>18. (t.current + k) \in Nat /\ (t.current + k) + len <= job.maxbits
  <2>1. job.maxbits \in Nat
    BY <1>2, JobFacts
  <2> QED
    BY <1>2, <1>3, <1>13, <2>1
<1>19. 0 + len <= wsize /\ (p % wsize) + len <= wsize
  BY <1>10, <1>16, WordSize
<1>20. \A j \in 0 .. (0 + len - 1) : BitAt(device[w + 1], j) = 0
  <2>1. CASE len = 0
    BY <2>1
  <2>2. CASE len # 0
    <3> DEFINE z == t.current + k
    <3>1. z \in Nat /\ p = Bit0(b) + z /\ Stored(b, thread[b]) <= z /\ z + len <= job.maxbits
      BY <1>12, <1>17, <1>18, <2>2
    <3> HIDE DEF z
    <3>2. \A j \in (p % wsize) .. ((p % wsize) + len - 1) : BitAt(device[p \div wsize], j) = 0
      BY <1>1, <1>13, <1>19, <3>1, DeviceZeros
    <3> QED
      BY <1>16, <3>2
  <2> QED
    BY <2>1, <2>2
<1>21. Filled(Plus(device[w + 1], m), device[w + 1], 0, len, m)
  <2>1. device[w + 1] \in Word /\ 0 \in 0 .. wsize
    BY <1>4, <1>6, WordSize
  <2>2. Filled(Plus(device[w + 1], m * 2 ^ 0), device[w + 1], 0, len, m)
    BY <1>10, <1>19, <1>20, <2>1, PlusFills
  <2>3. m * 2 ^ 0 = m
    BY <1>10, Powers
  <2> QED
    BY <2>2, <2>3
<1>22. FilledAt(device', device, p, len, m)
  <2> DEFINE e == Plus(device[w + 1], m)
  <2>1. device' = [device EXCEPT ![w + 1] = e]
    BY <1>7 DEF AtomicAdd
  <2>2. Filled(e, device[p \div wsize], p % wsize, len, m) /\ device' = [device EXCEPT ![p \div wsize] = e]
        /\ p \div wsize \in Memory
    BY <1>6, <1>16, <1>21, <2>1
  <2> HIDE DEF e
  <2> QED
    BY <1>4, <1>13, <1>16, <1>19, <2>2, Put
<1>23. /\ len = 0 \/ p = Bit0(b) + Stored(b, t)
       /\ Stored(b, t) + len <= job.maxbits
       /\ Stored(b, u) = Stored(b, t) + len
       /\ \A j \in 0 .. (len - 1) : BitAt(m, j) = CodeBit(b, Stored(b, t) + j)
  BY <1>10, <1>12, <1>14, <1>17, <1>18
<1> QED
  BY <1>1, <1>7, <1>11, <1>13, <1>15, <1>16, <1>22, <1>23, Advance

\* The bits of a half word are set.
LEMMA MetalOrEncoding ==
  ASSUME SafeJobs, Control, Encoding, NEW b \in Blocks, MetalOr(b)
  PROVE  Encoding'
<1> DEFINE t == thread[b]
           c == Code(b)[t.next]
           n == c.n
           part == t.part
           p == Bit0(b) + t.current + part
           w == p \div wsize
           s == p % wsize
           len == Chunk(n, part, p)
           m == Masked(c) \div 2 ^ part
           x == (m % 2 ^ len) * 2 ^ s
           u == IF part + len = n THEN Called(t, n, t.buf) ELSE [t EXCEPT !.part = part + len]
<1>1. pc = "encode" /\ job.gpu = "metal" /\ atomic_mode /\ t.next <= Len(Code(b)) /\ job' = job
  BY DEF MetalOr
<1>2. /\ job \in Jobs /\ t.next \in Calls(b) /\ WriterAt(b, t) /\ n \in Nat
      /\ t.current + n <= job.maxbits /\ job.maxbits \in Nat
  BY <1>1, WritersCall, JobFacts
<1>3. t \in ThreadState /\ t.buf \in Word /\ part \in Nat /\ part <= n /\ t.current \in Nat
  BY <1>1, <1>2, ThreadFields DEF WriterAt
<1>4. thread \in [Blocks -> ThreadState] /\ device \in [Memory -> Word]
  BY DEF Control, TypeOK
<1>5. device' = [device EXCEPT ![w] = Or(device[w], x)] /\ thread' = [thread EXCEPT ![b] = u]
  <2>1. len = IF n - part < half - (p % half) THEN n - part ELSE half - (p % half)
    BY DEF Chunk
  <2>2. device' = [device EXCEPT ![w] = Or(@, x)]
    BY <2>1 DEF MetalOr
  <2>3. thread' = [thread EXCEPT ![b] = u]
    BY <1>4, <2>1 DEF MetalOr
  <2> HIDE DEF x, w
  <2> QED
    BY <1>4, <2>2, <2>3
<1>6. p \in Nat /\ w \in Allocated /\ w \in Memory /\ s \in 0 .. (wsize - 1)
  <2> DEFINE k == t.current + part
  <2>1. k \in Nat /\ k <= job.maxbits
    BY <1>2, <1>3
  <2>2. Bit0(b) \in Nat
    BY <1>2, BlockPlace
  <2>3. p = Bit0(b) + k
    BY <1>3, <2>2
  <2> HIDE DEF k, p
  <2> QED
    BY <1>2, <2>1, <2>3, BitPlace
<1>7. n \in 0 .. wsize /\ Masked(c) \in Nat
  BY <1>2, MaskedFacts
<1>8. \A k \in 0 .. (n - 1) : BitAt(Masked(c), k) = CodeBit(b, t.current + k)
  BY <1>1, CallBits
<1>9. part \in 0 .. wsize
  BY <1>3, <1>7, WordSize
<1>10. /\ len \in 0 .. wsize /\ len \in Nat /\ part + len <= n /\ s + len <= wsize
  <2> HIDE DEF p, n
  <2> QED
    BY <1>3, <1>6, <1>7, ChunkFacts
<1>11. m \in Nat
  BY <1>7, <1>9, PowerDiv
<1>12. Stored(b, t) = t.current + part
  BY <1>1 DEF Stored
<1> HIDE DEF len
<1>13. u \in ThreadState /\ Stored(b, u) = (t.current + part) + len
  <2>1. CASE part + len = n
    <3>1. u = Called(t, n, t.buf)
      BY <2>1
    <3>2. u \in ThreadState /\ u.current = t.current + n /\ u.part = 0
      <4>1. Called(t, n, t.buf) \in ThreadState
        BY <1>2, <1>3, CalledState
      <4>2. Called(t, n, t.buf).current = t.current + n /\ Called(t, n, t.buf).part = 0
        BY CalledFields
      <4> QED
        BY <3>1, <4>1, <4>2
    <3>3. Stored(b, u) = u.current + u.part
      <4> HIDE DEF u
      <4> QED
        BY <1>1 DEF Stored
    <3> HIDE DEF u
    <3> QED
      BY <1>2, <1>3, <1>10, <2>1, <3>2, <3>3
  <2>2. CASE part + len # n
    <3> DEFINE y == part + len
    <3>1. u = [t EXCEPT !.part = y] /\ y \in Nat
      BY <1>3, <1>10, <2>2
    <3> HIDE DEF y
    <3>2. u.current = t.current /\ u.part = y
      BY <1>3, <3>1 DEF ThreadState
    <3>3. u = [next |-> t.next, current |-> t.current, step |-> t.step, part |-> y,
               buf |-> t.buf, loaded |-> t.loaded]
      BY <1>3, <3>1 DEF ThreadState
    <3>4. u \in ThreadState
      BY <1>3, <3>1, <3>3, ThreadFields DEF ThreadState
    <3>5. Stored(b, u) = u.current + u.part
      <4> HIDE DEF u
      <4> QED
        BY <1>1 DEF Stored
    <3>6. t.current + y = (t.current + part) + len
      BY <1>3, <1>10 DEF y
    <3> HIDE DEF u
    <3> QED
      BY <3>2, <3>4, <3>5, <3>6
  <2> QED
    BY <2>1, <2>2
<1>14. Collected(b, u)
  BY <1>1 DEF Collected
<1>15. \A j \in 0 .. (len - 1) : BitAt(m, j) = CodeBit(b, (t.current + part) + j)
  <2> TAKE j \in 0 .. (len - 1)
  <2>1. /\ part + j \in 0 .. (n - 1) /\ j \in 0 .. wsize /\ part + j <= wsize
        /\ (t.current + part) + j = t.current + (part + j)
    BY <1>3, <1>7, <1>10, WordSize
  <2>2. BitAt(m, j) = BitAt(Masked(c), part + j)
    BY <1>7, <1>9, <2>1, BitOfQuotient
  <2> QED
    BY <1>8, <2>1, <2>2
<1> HIDE DEF m, u
<1>16. Filled(x, 0, s, len, m) /\ x \in Word
  <2> DEFINE y == m % 2 ^ len
  <2>1. y \in Nat /\ y < 2 ^ len
    BY <1>10, <1>11, PowerDiv
  <2>2. s \in 0 .. wsize /\ 2 ^ s \in Nat
    BY <1>6, WordSize, Powers
  <2> HIDE DEF y, s
  <2>3. Filled(0 + y * 2 ^ s, 0, s, len, y)
    <3>1. s + len <= wsize
      BY <1>10 DEF s
    <3>2. \A k \in s .. (s + len - 1) : BitAt(0, k) = 0
      <4>1. \A k \in s .. (s + len - 1) : k \in 0 .. wsize
        BY <1>10, <2>2, <3>1, WordSize
      <4> QED
        BY <4>1, ZeroWord
    <3> QED
      BY <1>10, <2>1, <2>2, <3>1, <3>2, ZeroWord, AddBits
  <2>4. 0 + y * 2 ^ s = y * 2 ^ s
    BY <2>1, <2>2
  <2>5. x = y * 2 ^ s
    BY DEF y
  <2> HIDE DEF x
  <2>6. Filled(x, 0, s, len, m % 2 ^ len)
    BY <2>3, <2>4, <2>5 DEF y
  <2>7. Filled(x, 0, s, len, m)
    BY <1>10, <1>11, <2>2, <2>6, FilledLow
  <2> QED
    BY <2>7 DEF Filled
<1> HIDE DEF x
<1>17. \A k \in s .. (s + len - 1) : BitAt(device[w], k) = 0
  <2> DEFINE z == t.current + part
  <2>1. z \in Nat /\ Stored(b, thread[b]) <= z /\ z + len <= job.maxbits /\ p = Bit0(b) + z
    <3>1. Bit0(b) \in Nat
      BY <1>2, BlockPlace
    <3> HIDE DEF n
    <3> QED
      BY <1>2, <1>3, <1>10, <1>12, <3>1
  <2>2. (p % wsize) + len <= wsize
    BY <1>10
  <2> HIDE DEF z, p
  <2>3. \A k \in (p % wsize) .. ((p % wsize) + len - 1) : BitAt(device[p \div wsize], k) = 0
    BY <1>1, <1>10, <2>1, <2>2, DeviceZeros
  <2> QED
    BY <2>3
<1> HIDE DEF p
<1>18. Filled(Or(device[w], x), device[w], s, len, m)
  <2>1. device[w] \in Word /\ s \in 0 .. wsize
    BY <1>4, <1>6, WordSize
  <2> HIDE DEF s, w
  <2> QED
    BY <1>10, <1>16, <1>17, <2>1, OrFills
<1>19. FilledAt(device', device, p, len, m)
  <2> DEFINE e == Or(device[w], x)
  <2>1. Filled(e, device[p \div wsize], p % wsize, len, m) /\ device' = [device EXCEPT ![p \div wsize] = e]
    BY <1>5, <1>18
  <2> HIDE DEF e
  <2> QED
    BY <1>4, <1>6, <1>10, <2>1, Put
<1>20. /\ p = Bit0(b) + Stored(b, t)
       /\ Stored(b, t) + len <= job.maxbits
       /\ Stored(b, u) = Stored(b, t) + len
       /\ \A j \in 0 .. (len - 1) : BitAt(m, j) = CodeBit(b, Stored(b, t) + j)
  <2>1. Bit0(b) \in Nat
    BY <1>2, BlockPlace
  <2>2. p = Bit0(b) + (t.current + part)
    BY <1>3, <2>1 DEF p
  <2>3. (t.current + part) + len <= job.maxbits
    <3> HIDE DEF n
    <3> QED
      BY <1>2, <1>3, <1>10
  <2> QED
    BY <1>12, <1>13, <1>15, <2>2, <2>3
<1> QED
  BY <1>1, <1>5, <1>6, <1>10, <1>13, <1>14, <1>19, <1>20, Advance

\* No word changes.
LEMMA SameMemory ==
  ASSUME NEW mem, NEW p \in Nat, NEW m
  PROVE  FilledAt(mem, mem, p, 0, m)
<1>1. ASSUME NEW q \in Nat PROVE ~ (p <= q /\ q < p + 0)
  OBVIOUS
<1> QED
  BY <1>1 DEF FilledAt

\* n more bits in a word, or beyond it.
LEMMA SegmentSum ==
  ASSUME NEW x \in Nat, NEW n \in 0 .. wsize
  PROVE  /\ (x % wsize) + n < wsize => (x + n) % wsize = (x % wsize) + n
         /\ (x % wsize) + n >= wsize => (x + n) % wsize = (x % wsize) + n - wsize
<1> DEFINE q == x \div wsize
           r == x % wsize
<1>1. wsize \in Nat \ {0} /\ n \in Nat /\ n <= wsize
  BY WordSize
<1>2. q \in Nat /\ r \in 0 .. (wsize - 1) /\ x = wsize * q + r
  BY <1>1, DivMod
<1> HIDE DEF q, r
<1>3. wsize * q \in Nat /\ wsize * (q + 1) = wsize * q + wsize
  BY <1>1, <1>2
<1>4. ASSUME r + n < wsize PROVE (x + n) % wsize = r + n
  <2> DEFINE e == r + n
  <2>1. e \in 0 .. (wsize - 1) /\ x + n = wsize * q + e
    BY <1>1, <1>2, <1>3, <1>4
  <2> HIDE DEF e
  <2>2. (wsize * q + e) % wsize = e
    BY <1>1, <1>2, <2>1, DivModUnique
  <2> QED
    BY <2>1, <2>2 DEF e
<1>5. ASSUME r + n >= wsize PROVE (x + n) % wsize = r + n - wsize
  <2> DEFINE e == r + n - wsize
             v == q + 1
  <2>1. e \in 0 .. (wsize - 1) /\ x + n = wsize * v + e /\ v \in Nat
    BY <1>1, <1>2, <1>3, <1>5
  <2> HIDE DEF e, v
  <2>2. (wsize * v + e) % wsize = e
    BY <1>1, <2>1, DivModUnique
  <2> QED
    BY <2>1, <2>2 DEF e
<1> QED
  BY <1>4, <1>5 DEF r

\* Where a thread is that stores whole words.
LEMMA AtWord ==
  ASSUME SafeJobs, Control, job.gpu = "metal", ~ atomic_mode, NEW b \in Blocks
  PROVE  LET t == thread[b]
             s == Segment(b, t)
             p == Bit0(b) + (t.current - s)
         IN  /\ job \in Jobs /\ WriterAt(b, t) /\ t \in ThreadState
             /\ t.current \in Nat /\ t.next \in Nat /\ t.current <= job.maxbits
             /\ s = t.current % wsize /\ s \in 0 .. (wsize - 1) /\ seg_start(b) = s
             /\ t.current - s \in Nat
             /\ p \in Nat /\ p % wsize = 0 /\ p \div wsize = write_index(b)
             /\ write_index(b) \in Memory
             /\ t.next # Len(Code(b)) + 2 => Stored(b, t) = t.current - s
<1> DEFINE t == thread[b]
           s == Segment(b, t)
           p == Bit0(b) + (t.current - s)
           q == Bit0(b) + t.current
           w == q \div wsize
<1>1. job \in Jobs /\ WriterAt(b, t) /\ t \in ThreadState
  BY DEF Control, TypeOK, WriterAt
<1>2. t.current \in Nat /\ t.next \in Nat \ {0} /\ t.current = At(b, t.next) /\ job.maxbits \in Nat
  BY <1>1, ThreadFields, JobFacts DEF WriterAt
<1>3. t.current <= job.maxbits /\ t.current + 0 <= job.maxbits
  <2>1. t.current \in 0 .. job.maxbits
    BY <1>1, <1>2, AtFacts
  <2> QED
    BY <1>2, <2>1
<1>4. /\ q \in Nat /\ seg_start(b) = q % wsize /\ s = q % wsize /\ write_index(b) = w
      /\ w \in Nat /\ q = wsize * w + (q % wsize) /\ w \in Allocated
  BY <1>1, <1>3, WriterWord
<1>5. s = t.current % wsize /\ s \in 0 .. (wsize - 1) /\ s <= t.current
  BY <1>1, <1>2, Aligned
<1>6. w \in Memory
  BY <1>1, <1>4, AllocatedIsMemory
<1>7. t.next # Len(Code(b)) + 2 => Stored(b, t) = t.current - s
  BY DEF Stored
<1>8. Bit0(b) \in Nat
  BY <1>1, BlockPlace
<1> HIDE DEF s, w
<1>9. q = wsize * w + s
  BY <1>4
<1>10. t.current - s \in Nat
  BY <1>2, <1>5, WordSize
<1>11. p = wsize * w + 0
  <2> DEFINE y == wsize * w
             z == Bit0(b)
  <2>1. y \in Nat /\ z + t.current = y + s /\ z \in Nat /\ s \in Nat
    BY <1>4, <1>5, <1>8, <1>9, WordSize
  <2>2. p = z + (t.current - s)
    OBVIOUS
  <2> HIDE DEF y, z, p
  <2>3. p = y + 0
    BY <1>2, <2>1, <2>2
  <2> QED
    BY <2>3 DEF y
<1>12. p \in Nat /\ p % wsize = 0 /\ p \div wsize = w
  <2>1. 0 \in 0 .. (wsize - 1)
    BY WordSize
  <2> HIDE DEF p
  <2> QED
    BY <1>4, <1>11, <2>1, Place
<1> HIDE DEF p
<1>13. /\ job \in Jobs /\ WriterAt(b, t) /\ t \in ThreadState
       /\ t.current \in Nat /\ t.next \in Nat /\ t.current <= job.maxbits
       /\ s = t.current % wsize /\ s \in 0 .. (wsize - 1) /\ seg_start(b) = s
       /\ t.current - s \in Nat
       /\ p \in Nat /\ p % wsize = 0 /\ p \div wsize = write_index(b)
       /\ write_index(b) \in Memory
       /\ t.next # Len(Code(b)) + 2 => Stored(b, t) = t.current - s
  BY <1>1, <1>2, <1>3, <1>4, <1>5, <1>6, <1>7, <1>10, <1>12
<1> QED
  BY <1>13, Zenon DEF p, s

\* Bits are collected; none is stored.
LEMMA MetalCollectEncoding ==
  ASSUME SafeJobs, Control, Encoding, NEW b \in Blocks, MetalCollect(b)
  PROVE  Encoding'
<1> DEFINE t == thread[b]
           c == Code(b)[t.next]
           n == c.n
           s == Segment(b, t)
           base == t.current - s
           m == Masked(c)
           len == Lesser(n, wsize - s)
           y == (m * 2 ^ s) % 2 ^ wsize
           buf == Or(t.buf, y)
           u == IF s + n >= wsize THEN Halfway(t, buf) ELSE Called(t, n, buf)
<1>1. /\ pc = "encode" /\ job.gpu = "metal" /\ ~ atomic_mode /\ t.next <= Len(Code(b))
      /\ t.step = "first" /\ UNCHANGED <<job, device>>
  BY DEF MetalCollect
<1>2. /\ job \in Jobs /\ t.next \in Calls(b) /\ WriterAt(b, t) /\ n \in Nat
  BY <1>1, WritersCall
<1>3. /\ t \in ThreadState /\ t.current \in Nat /\ t.next \in Nat
      /\ s = t.current % wsize /\ s \in 0 .. (wsize - 1) /\ seg_start(b) = s /\ base \in Nat
      /\ t.current <= job.maxbits
      /\ t.next # Len(Code(b)) + 2 => Stored(b, t) = base
  BY <1>1, AtWord
<1>4. thread \in [Blocks -> ThreadState] /\ t.buf \in Word
  BY <1>3, ThreadFields DEF Control, TypeOK
<1>5. thread' = [thread EXCEPT ![b] = u]
  BY <1>3, <1>4 DEF MetalCollect
<1>6. n \in 0 .. wsize /\ m \in Nat /\ m < 2 ^ n /\ Len(Code(b)) \in Nat
  BY <1>2, MaskedFacts, CallFacts
<1>7. \A k \in 0 .. (n - 1) : BitAt(m, k) = CodeBit(b, t.current + k)
  BY <1>1, CallBits
<1>8. Stored(b, t) = base
  BY <1>1, <1>3, <1>6
<1>9. \A j \in 0 .. (wsize - 1) : BitAt(t.buf, j) = IF j < s THEN CodeBit(b, base + j) ELSE 0
  <2>1. Collected(b, t) /\ t.next <= Len(Code(b)) + 1
    BY <1>1, <1>3, <1>6 DEF Encoding
  <2>2. t.step # "second"
    BY <1>1
  <2> HIDE DEF s
  <2> QED
    BY <1>1, <2>1, <2>2 DEF Collected, s
<1>10. t.loaded = None
  BY <1>1, <1>2, <1>3, <1>6 DEF WriterAt
<1> HIDE DEF s, n, m
<1>20. /\ s \in Nat /\ s < wsize /\ n \in Nat /\ n <= wsize /\ wsize \in Nat
       /\ t.current \in Nat /\ base \in Nat /\ t.current = base + s
  BY <1>2, <1>3, <1>6, WordSize
<1> HIDE DEF base
<1>11. /\ len \in 0 .. wsize /\ len <= n /\ s + len <= wsize /\ s \in 0 .. wsize
       /\ (len = n \/ s + len = wsize)
       /\ (s + n >= wsize => s + len = wsize) /\ (s + n < wsize => len = n)
  BY <1>20 DEF Lesser
<1>12. Filled(buf, t.buf, s, len, m) /\ buf \in Word
  <2>1. Plus(0, m * 2 ^ s) = y
    <3>1. 2 ^ s \in Nat
      BY <1>11, Powers
    <3>2. 0 + m * 2 ^ s = m * 2 ^ s
      BY <1>6, <3>1
    <3> QED
      BY <3>2 DEF Plus
  <2> HIDE DEF len, y
  <2>2. \A k \in s .. (s + len - 1) : k \in 0 .. wsize /\ k \in 0 .. (wsize - 1) /\ ~ (k < s)
    BY <1>11, <1>20
  <2>3. \A k \in s .. (s + len - 1) : BitAt(0, k) = 0 /\ BitAt(t.buf, k) = 0
    BY <1>9, <2>2, ZeroWord
  <2>4. m < 2 ^ len \/ s + len = wsize
    BY <1>6, <1>11
  <2>5. Filled(Plus(0, m * 2 ^ s), 0, s, len, m)
    BY <1>6, <1>11, <2>3, <2>4, ZeroWord, PlusFills
  <2>6. Filled(y, 0, s, len, m) /\ y \in Word
    BY <2>1, <2>5 DEF Filled
  <2>7. Filled(Or(t.buf, y), t.buf, s, len, m)
    BY <1>4, <1>11, <2>3, <2>6, OrFills
  <2> QED
    BY <2>7 DEF Filled
<1> HIDE DEF buf, len
<1>13. \A j \in 0 .. (wsize - 1) :
         BitAt(buf, j) = IF j < s + len THEN CodeBit(b, base + j) ELSE 0
  <2> TAKE j \in 0 .. (wsize - 1)
  <2>1. BitAt(buf, j) = IF s <= j /\ j < s + len THEN BitAt(m, j - s) ELSE BitAt(t.buf, j)
    BY <1>12 DEF Filled
  <2>2. CASE s <= j /\ j < s + len
    <3>1. j - s \in 0 .. (n - 1) /\ t.current + (j - s) = base + j
      BY <1>11, <1>20, <2>2
    <3>2. BitAt(m, j - s) = CodeBit(b, t.current + (j - s))
      BY <1>7, <3>1
    <3> QED
      BY <2>1, <2>2, <3>1, <3>2
  <2>3. CASE ~ (s <= j /\ j < s + len)
    <3>1. j < s + len <=> j < s
      BY <1>11, <1>20, <2>3
    <3> QED
      BY <1>9, <2>1, <2>3, <3>1
  <2> QED
    BY <2>2, <2>3
<1>14. u \in ThreadState /\ Stored(b, u) = base /\ Collected(b, u)
  <2>1. CASE s + n >= wsize
    <3>1. u = Halfway(t, buf)
      BY <2>1
    <3>2. /\ u \in ThreadState /\ u.next = t.next /\ u.current = t.current /\ u.step = "second"
          /\ u.buf = buf /\ u.loaded = t.loaded
      BY <1>3, <1>12, <3>1, HalfwayState
    <3>3. Segment(b, u) = s
      BY <3>2 DEF Segment, s
    <3> HIDE DEF u
    <3>4. Stored(b, u) = base
      BY <1>1, <1>3, <1>6, <3>2, <3>3 DEF Stored, base
    <3>5. \A j \in 0 .. (wsize - 1) : j < s + len
      BY <1>11, <1>20, <2>1
    <3>6. Collected(b, u)
      BY <1>10, <1>13, <3>2, <3>3, <3>5 DEF Collected, base
    <3> QED
      BY <3>2, <3>4, <3>6
  <2>2. CASE ~ (s + n >= wsize)
    <3>1. u = Called(t, n, buf)
      BY <2>2
    <3>2. u \in ThreadState
      BY <1>2, <1>3, <1>12, <3>1, CalledState
    <3>3. /\ u.next = t.next + 1 /\ u.current = t.current + n /\ u.step = "first"
          /\ u.buf = buf /\ u.loaded = None
      <4> DEFINE v == Called(t, n, buf)
      <4>1. /\ v.next = t.next + 1 /\ v.current = t.current + n /\ v.step = "first"
            /\ v.buf = buf /\ v.loaded = None
        BY CalledFields
      <4> QED
        BY <3>1, <4>1
    <3> HIDE DEF u
    <3>4. s + n < wsize /\ len = n /\ u.current \in Nat
      BY <1>11, <1>20, <2>2, <3>3
    <3>5. Segment(b, u) = s + n
      <4>1. Segment(b, u) = u.current % wsize
        BY <1>1, <1>2, <3>4, Aligned
      <4>2. (t.current + n) % wsize = s + n
        BY <1>3, <1>6, <3>4, SegmentSum
      <4> QED
        BY <3>3, <4>1, <4>2
    <3>6. u.current - (s + n) = base
      BY <1>20, <3>3
    <3>7. Stored(b, u) = base
      BY <1>1, <1>3, <1>6, <3>3, <3>5, <3>6 DEF Stored
    <3>8. u.step # "second"
      BY <3>3
    <3>9. Collected(b, u)
      <4> HIDE DEF base
      <4> QED
        BY <1>13, <3>3, <3>4, <3>5, <3>6, <3>8 DEF Collected
    <3> QED
      BY <3>2, <3>7, <3>9
  <2> QED
    BY <2>1, <2>2
<1> HIDE DEF u
<1>15. FilledAt(device', device, 0, 0, 0)
  BY <1>1, SameMemory
<1>16. /\ Stored(b, t) + 0 <= job.maxbits /\ Stored(b, u) = Stored(b, t) + 0
       /\ \A j \in 0 .. (0 - 1) : BitAt(0, j) = CodeBit(b, Stored(b, t) + j)
  <2>1. job.maxbits \in Nat
    BY <1>2, JobFacts
  <2> QED
    BY <1>3, <1>8, <1>14, <1>20, <2>1
<1> QED
  BY <1>1, <1>5, <1>14, <1>15, <1>16, Advance

\* A whole word of the block is ahead of a thread that stores one, and it is zero.
LEMMA WordAhead ==
  ASSUME SafeJobs, Control, pc = "encode", Encoding, job.gpu = "metal", ~ atomic_mode, NEW b \in Blocks,
         \/ thread[b].step = "second"
         \/ thread[b].next = Len(Code(b)) + 1 /\ Segment(b, thread[b]) > 0
  PROVE  LET t == thread[b]
             base == t.current - Segment(b, t)
         IN  /\ base + wsize <= job.maxbits /\ Stored(b, t) = base
             /\ t.next <= Len(Code(b)) + 1
             /\ \A j \in 0 .. (wsize - 1) : BitAt(device[write_index(b)], j) = 0
<1> DEFINE t == thread[b]
           s == Segment(b, t)
           base == t.current - s
           p == Bit0(b) + base
           M == job.maxbits
<1>1. /\ job \in Jobs /\ WriterAt(b, t) /\ t \in ThreadState
      /\ t.current \in Nat /\ t.next \in Nat /\ t.current <= M
      /\ s \in 0 .. (wsize - 1) /\ base \in Nat
      /\ p \in Nat /\ p % wsize = 0 /\ p \div wsize = write_index(b)
      /\ t.next # Len(Code(b)) + 2 => Stored(b, t) = base
  BY AtWord
<1>2. Len(Code(b)) \in Nat /\ M \in Nat /\ wsize \in Nat \ {0} /\ Bit0(b) \in Nat
  BY <1>1, CallFacts, JobFacts, WordSize, BlockPlace
<1>3. t.next <= Len(Code(b)) + 1
  <2>1. CASE t.step = "second"
    <3>1. t.next <= Len(Code(b))
      BY <1>1, <2>1 DEF WriterAt
    <3>2. t.next \in Nat /\ Len(Code(b)) \in Nat
      BY <1>1, <1>2
    <3> QED
      BY <3>1, <3>2
  <2>2. CASE t.next = Len(Code(b)) + 1
    BY <1>2, <2>2
  <2> QED
    BY <2>1, <2>2
<1>4. Stored(b, t) = base
  BY <1>1, <1>2, <1>3
<1>5. base + wsize <= M
  <2>1. CASE t.step = "second"
    <3>1. t.next <= Len(Code(b)) /\ s + Code(b)[t.next].n >= wsize
      BY <1>1, <2>1 DEF WriterAt
    <3>2. Code(b)[t.next].n \in Nat /\ t.current + Code(b)[t.next].n <= M
      BY <3>1, WritersCall
    <3> DEFINE n == Code(b)[t.next].n
               x == t.current
    <3>3. n \in Nat /\ x \in Nat /\ x + n <= M /\ s + n >= wsize /\ s \in Nat /\ base = x - s
      BY <1>1, <1>2, <3>1, <3>2
    <3> HIDE DEF n, x, s, M, base
    <3> QED
      BY <1>2, <3>3
  <2>2. CASE t.next = Len(Code(b)) + 1 /\ s > 0
    <3> DEFINE x == t.current
               q == x \div wsize
               v == M \div wsize
    <3>1. s = x % wsize /\ M % wsize = 0
      BY <1>1, Aligned
    <3>2. x \in Nat /\ x <= M
      BY <1>1
    <3> HIDE DEF x, M
    <3>3. q \in Nat /\ x = wsize * q + (x % wsize)
      BY <1>2, <3>2, DivMod
    <3>4. v \in Nat /\ M = wsize * v + (M % wsize)
      BY <1>2, DivMod
    <3> HIDE DEF q, v, s
    <3>5. wsize * q \in Nat /\ wsize * v \in Nat /\ wsize * (q + 1) = wsize * q + wsize
      BY <1>2, <3>3, <3>4
    <3>6. x = wsize * q + s /\ M = wsize * v
      BY <1>2, <3>1, <3>3, <3>4, <3>5
    <3>7. q + 1 <= v
      <4> SUFFICES ASSUME v <= q PROVE FALSE
        BY <3>3, <3>4
      <4>1. wsize * v <= wsize * q
        BY <1>2, <3>3, <3>4
      <4>2. s \in Nat
        BY <1>1, <1>2
      <4> QED
        BY <2>2, <3>2, <3>5, <3>6, <4>1, <4>2
    <3>8. wsize * (q + 1) <= wsize * v
      <4> DEFINE a == q + 1
      <4>1. a \in Nat /\ v \in Nat /\ a <= v /\ wsize \in Nat
        BY <1>2, <3>3, <3>4, <3>7
      <4> HIDE DEF a
      <4>2. wsize * a <= wsize * v
        BY <4>1
      <4> QED
        BY <4>2 DEF a
    <3>9. base = x - s /\ s \in Nat
      BY <1>1, <1>2 DEF x
    <3> HIDE DEF base
    <3> QED
      BY <1>2, <3>5, <3>6, <3>8, <3>9
  <2> QED
    BY <2>1, <2>2
<1>6. \A j \in 0 .. (wsize - 1) : BitAt(device[write_index(b)], j) = 0
  <2>1. Stored(b, thread[b]) <= base /\ 0 + wsize <= wsize /\ (p % wsize) + wsize <= wsize
    BY <1>1, <1>2, <1>4, SMTT(30)
  <2>2. p = Bit0(b) + base /\ base \in Nat /\ wsize \in Nat /\ base + wsize <= job.maxbits
    BY <1>1, <1>2, <1>5
  <2> HIDE DEF p, base
  <2>3. \A k \in (p % wsize) .. ((p % wsize) + wsize - 1) : BitAt(device[p \div wsize], k) = 0
    BY <2>1, <2>2, DeviceZeros
  <2>4. \A j \in 0 .. (wsize - 1) : j \in 0 .. (0 + wsize - 1)
    BY <1>2
  <2> QED
    BY <1>1, <2>3, <2>4
<1> QED
  BY <1>3, <1>4, <1>5, <1>6

\* The word that a thread loads is zero: no other thread has bits in it.
LEMMA MetalLoadEncoding ==
  ASSUME SafeJobs, Control, Encoding, NEW b \in Blocks, MetalLoad(b)
  PROVE  Encoding'
<1> DEFINE t == thread[b]
           w == write_index(b)
           u == [t EXCEPT !.loaded = device[w]]
           base == t.current - Segment(b, t)
<1>1. /\ pc = "encode" /\ job.gpu = "metal" /\ (t.step = "second" \/ FlushDue(b))
      /\ UNCHANGED <<job, device>>
  BY DEF MetalLoad
<1>2. thread \in [Blocks -> ThreadState] /\ device \in [Memory -> Word] /\ job \in Jobs
      /\ WriterAt(b, t) /\ t \in ThreadState
  BY DEF Control, TypeOK, WriterAt
<1>3. thread' = [thread EXCEPT ![b] = u]
  BY <1>2 DEF MetalLoad
<1>4. ~ atomic_mode
  <2>1. CASE t.step = "second"
    <3> HIDE DEF t
    <3> QED
      BY <1>1, <1>2, <2>1, Zenon DEF WriterAt
  <2>2. CASE FlushDue(b)
    BY <2>2, Zenon DEF FlushDue
  <2> QED
    BY <1>1, <2>1, <2>2
<1>15. t.step = "second" \/ (t.next = Len(Code(b)) + 1 /\ Segment(b, t) > 0)
  <2>1. seg_start(b) = Segment(b, t)
    BY DEF seg_start, Segment
  <2>2. FlushDue(b) => t.next = Len(Code(b)) + 1 /\ Segment(b, t) > 0
    BY <2>1 DEF FlushDue
  <2> QED
    BY <1>1, <2>2
<1>5. /\ base + wsize <= job.maxbits /\ Stored(b, t) = base /\ t.next <= Len(Code(b)) + 1
      /\ \A j \in 0 .. (wsize - 1) : BitAt(device[w], j) = 0
  BY <1>1, <1>4, <1>15, WordAhead
<1>6. base \in Nat /\ w \in Memory
  BY <1>1, <1>4, AtWord
<1>7. device[w] = 0
  <2> DEFINE d == device[w]
  <2>1. d \in Word /\ d \in Nat /\ d < 2 ^ wsize /\ 0 \in Word /\ 0 < 2 ^ wsize
    BY <1>2, <1>6, WordIsNat, ZeroWord
  <2>2. \A j \in 0 .. (wsize - 1) : BitAt(d, j) = BitAt(0, j)
    <3>1. \A j \in 0 .. (wsize - 1) : j \in 0 .. wsize
      BY WordSize
    <3> QED
      BY <1>5, <3>1, ZeroWord
  <2> HIDE DEF d
  <2>3. d = 0
    BY <2>1, <2>2, BitsDetermine, WordSize
  <2> QED
    BY <2>3 DEF d
<1>8. /\ u.next = t.next /\ u.current = t.current /\ u.step = t.step
      /\ u.part = t.part /\ u.buf = t.buf /\ u.loaded = 0
  BY <1>2, <1>7 DEF ThreadState
<1>9. u \in ThreadState
  <2>1. u = [next |-> t.next, current |-> t.current, step |-> t.step, part |-> t.part,
             buf |-> t.buf, loaded |-> 0]
    BY <1>2, <1>7 DEF ThreadState
  <2> QED
    BY <1>2, <2>1, ThreadFields, ZeroWord DEF ThreadState
<1> HIDE DEF u
<1>10. Segment(b, u) = Segment(b, t)
  BY <1>8 DEF Segment
<1>11. Stored(b, u) = Stored(b, t)
  BY <1>8, <1>10 DEF Stored
<1>12. Collected(b, u)
  <2>1. Collected(b, t)
    BY <1>1 DEF Encoding
  <2> QED
    BY <1>8, <1>10, <2>1 DEF Collected
<1>13. FilledAt(device', device, 0, 0, 0)
  BY <1>1, SameMemory
<1>14. /\ Stored(b, t) + 0 <= job.maxbits /\ Stored(b, u) = Stored(b, t) + 0
       /\ \A j \in 0 .. (0 - 1) : BitAt(0, j) = CodeBit(b, Stored(b, t) + j)
  <2>1. job.maxbits \in Nat /\ wsize \in Nat
    BY <1>2, JobFacts, WordSize
  <2> HIDE DEF base
  <2> QED
    BY <1>5, <1>6, <1>11, <2>1
<1> QED
  BY <1>1, <1>3, <1>9, <1>12, <1>13, <1>14, Advance

\* The word a thread stores.
LEMMA StoredWord ==
  ASSUME NEW y \in Word, NEW e, e = Or(0, y)
  PROVE  e \in Word /\ \A j \in 0 .. (wsize - 1) : BitAt(e, j) = BitAt(y, j)
<1>1. ASSUME NEW j \in 0 .. (wsize - 1) PROVE BitAt(e, j) = BitAt(y, j)
  <2>1. j \in 0 .. wsize /\ y \in Nat
    BY WordSize, WordIsNat
  <2>2. BitAt(0, j) = 0 /\ BitAt(y, j) \in {0, 1}
    BY <2>1, ZeroWord, BitRange
  <2> QED
    BY <2>2, OrBits
<1> QED
  BY <1>1, OrBits

\* The bits collected are stored, and what is left of the call is collected.
LEMMA MetalStoreEncoding ==
  ASSUME SafeJobs, Control, Encoding, NEW b \in Blocks, MetalStore(b)
  PROVE  Encoding'
<1> DEFINE t == thread[b]
           w == write_index(b)
           c == Code(b)[t.next]
           n == c.n
           s == Segment(b, t)
           base == t.current - s
           p == Bit0(b) + base
           e == Or(t.loaded, t.buf)
           rest == Masked(c) \div 2 ^ (wsize - s)
           u == IF t.step = "first" THEN Called(t, 0, 0) ELSE Called(t, n, rest)
           len == IF t.step = "first" THEN s ELSE wsize
<1>1. pc = "encode" /\ t.loaded # None /\ job' = job /\ device' = [device EXCEPT ![w] = e]
  BY DEF MetalStore
<1>2. /\ job \in Jobs /\ WriterAt(b, t) /\ t \in ThreadState
      /\ thread \in [Blocks -> ThreadState] /\ device \in [Memory -> Word]
  BY DEF Control, TypeOK, WriterAt
<1>3. /\ job.gpu = "metal" /\ ~ atomic_mode /\ t.step \in {"first", "second"}
      /\ t.step = "first" => t.next = Len(Code(b)) + 1 /\ s > 0
      /\ t.step = "second" => t.next <= Len(Code(b)) /\ s + n >= wsize
  BY <1>1, <1>2, ThreadFields DEF WriterAt
<1>4. /\ t.current \in Nat /\ t.next \in Nat /\ t.current <= job.maxbits
      /\ s = t.current % wsize /\ s \in 0 .. (wsize - 1) /\ seg_start(b) = s
      /\ base \in Nat /\ p \in Nat /\ p % wsize = 0 /\ p \div wsize = w /\ w \in Memory
  BY <1>3, AtWord
<1>5. thread' = [thread EXCEPT ![b] = u]
  BY <1>2, <1>4 DEF MetalStore
<1>6. /\ base + wsize <= job.maxbits /\ Stored(b, t) = base /\ t.next <= Len(Code(b)) + 1
      /\ \A j \in 0 .. (wsize - 1) : BitAt(device[w], j) = 0
  BY <1>1, <1>3, WordAhead
<1>7. Collected(b, t)
  BY <1>1 DEF Encoding
<1>8. t.loaded = 0
  BY <1>1, <1>3, <1>7 DEF Collected
<1>9. \A j \in 0 .. (wsize - 1) :
        BitAt(t.buf, j) = IF t.step = "second" \/ j < s THEN CodeBit(b, base + j) ELSE 0
  BY <1>3, <1>6, <1>7 DEF Collected
<1>10. e \in Word /\ \A j \in 0 .. (wsize - 1) : BitAt(e, j) = BitAt(t.buf, j)
  BY <1>2, <1>8, ThreadFields, StoredWord
<1> DEFINE x == t.current
           M == job.maxbits
           l == Len(Code(b))
<1>20. wsize \in Nat /\ wsize > 0 /\ M \in Nat /\ l \in Nat
  BY <1>2, WordSize, JobFacts, CallFacts
<1>21. x \in Nat /\ x <= M /\ s \in 0 .. (wsize - 1) /\ base = x - s /\ base \in Nat /\ base + wsize <= M
  BY <1>4, <1>6
<1> HIDE DEF s, p, e, base, x, M, l
<1>11. wsize \in Nat /\ wsize > 0 /\ s \in Nat /\ s < wsize /\ x = base + s /\ M \in Nat
       /\ l \in Nat /\ x \in Nat /\ base \in Nat /\ x <= M /\ base + wsize <= M
  BY <1>20, <1>21
<1>12. len \in Nat /\ len <= wsize /\ 0 + len <= wsize /\ base + len <= M
  <2>1. CASE t.step = "first"
    BY <1>11, <2>1
  <2>2. CASE t.step # "first"
    BY <1>11, <2>2
  <2> QED
    BY <2>1, <2>2
<1>13. \A j \in 0 .. (len - 1) : BitAt(t.buf, j) = CodeBit(b, base + j)
  <2> TAKE j \in 0 .. (len - 1)
  <2>1. j \in 0 .. (wsize - 1) /\ j < len
    BY <1>11, <1>12
  <2>2. t.step = "second" \/ j < s
    BY <1>3, <2>1
  <2> QED
    BY <1>9, <2>1, <2>2
<1>14. Filled(e, device[w], 0, len, t.buf)
  <2> SUFFICES ASSUME NEW j \in 0 .. (wsize - 1)
               PROVE  BitAt(e, j) = IF 0 <= j /\ j < 0 + len THEN BitAt(t.buf, j - 0) ELSE BitAt(device[w], j)
    BY <1>10 DEF Filled
  <2>1. j - 0 = j /\ 0 <= j
    BY <1>11
  <2>2. CASE j < len
    BY <1>10, <1>12, <2>1, <2>2
  <2>3. CASE ~ (j < len)
    <3>1. t.step = "first"
      BY <1>11, <2>3
    <3>2. ~ (j < s) /\ t.step # "second"
      BY <2>3, <3>1
    <3>3. BitAt(e, j) = 0 /\ BitAt(device[w], j) = 0
      BY <1>6, <1>9, <1>10, <3>2
    <3>4. ~ (j < 0 + len)
      BY <1>12, <2>3
    <3> QED
      BY <3>3, <3>4
  <2> QED
    BY <2>2, <2>3
<1>15. u \in ThreadState /\ Stored(b, u) = base + len /\ Collected(b, u)
  <2>1. CASE t.step = "first"
    <3>1. u = Called(t, 0, 0) /\ len = s
      BY <2>1
    <3>2. u \in ThreadState
      BY <1>2, <3>1, CalledState, ZeroWord
    <3>3. u.next = t.next + 1 /\ u.current = t.current + 0 /\ u.loaded = None
      <4>1. LET v == Called(t, 0, 0)
            IN  v.next = t.next + 1 /\ v.current = t.current + 0 /\ v.loaded = None
        BY CalledFields
      <4> QED
        BY <3>1, <4>1
    <3> HIDE DEF u, len
    <3>4. u.next = l + 2 /\ ~ (u.next <= l + 1) /\ u.current = base + s
      <4>1. t.next = l + 1
        BY <1>3, <2>1 DEF l
      <4>2. u.next = t.next + 1 /\ u.current = x + 0
        BY <3>3 DEF x
      <4> QED
        BY <1>11, <4>1, <4>2
    <3>5. Stored(b, u) = base + len
      BY <1>3, <3>1, <3>4 DEF Stored, l
    <3>6. Collected(b, u)
      BY <3>3, <3>4 DEF Collected, l
    <3> QED
      BY <3>2, <3>5, <3>6
  <2>2. CASE t.step = "second"
    <3> DEFINE d == wsize - s
               k == n - d
    <3>1. u = Called(t, n, rest) /\ len = wsize /\ t.next <= Len(Code(b)) /\ s + n >= wsize
      BY <1>3, <2>2
    <3>2. n \in 0 .. wsize /\ n \in Nat /\ n <= wsize /\ Masked(c) \in Word
      <4>1. t.next \in Calls(b)
        BY <3>1, WritersCall
      <4> HIDE DEF rest, u, len
      <4>2. n \in 0 .. wsize /\ n \in Nat /\ Masked(c) \in Word
        BY <1>2, <4>1, MaskedFacts
      <4> QED
        BY <1>11, <4>2
    <3>3. d \in 0 .. wsize /\ d <= n /\ Lesser(n, d) = d /\ k \in Nat /\ k < wsize /\ d \in Nat
      <4> HIDE DEF n
      <4>1. d \in 0 .. wsize /\ d \in Nat /\ d <= n /\ k \in Nat /\ k < wsize
        BY <1>11, <3>1, <3>2
      <4>2. Lesser(n, d) = d
        BY <3>2, <4>1 DEF Lesser
      <4> QED
        BY <4>1, <4>2
    <3>4. /\ rest \in Nat /\ rest < 2 ^ k /\ k \in 0 .. wsize
          /\ \A j \in 0 .. (k - 1) : BitAt(rest, j) = CodeBit(b, (t.current + d) + j)
      <4> HIDE DEF d
      <4>1. /\ Masked(c) \div 2 ^ d \in Nat /\ n - Lesser(n, d) \in 0 .. wsize
            /\ Masked(c) \div 2 ^ d < 2 ^ (n - Lesser(n, d))
            /\ \A j \in 0 .. (n - Lesser(n, d) - 1) :
                 BitAt(Masked(c) \div 2 ^ d, j) = CodeBit(b, (t.current + Lesser(n, d)) + j)
        BY <3>1, <3>3, RestOfCall
      <4>2. rest = Masked(c) \div 2 ^ d
        BY DEF d
      <4> HIDE DEF rest, n
      <4> QED
        BY <3>3, <4>1, <4>2
    <3>5. rest \in Word
      <4> HIDE DEF d
      <4>1. Masked(c) \div 2 ^ d \in Word
        BY <3>2, <3>3, QuotientIsWord
      <4> QED
        BY <4>1 DEF d
    <3> HIDE DEF rest, n, d, k
    <3>6. u \in ThreadState
      BY <1>2, <3>1, <3>2, <3>5, CalledState
    <3>7. /\ u.next = t.next + 1 /\ u.current = t.current + n /\ u.step = "first"
          /\ u.buf = rest /\ u.loaded = None
      <4>1. LET v == Called(t, n, rest)
            IN  /\ v.next = t.next + 1 /\ v.current = t.current + n /\ v.step = "first"
                /\ v.buf = rest /\ v.loaded = None
        BY CalledFields
      <4> QED
        BY <3>1, <4>1
    <3> HIDE DEF u, len
    <3>14. n \in Nat /\ n <= wsize /\ s + n >= wsize /\ u.current = x + n
      BY <3>1, <3>2, <3>7 DEF x
    <3>8. u.current \in Nat /\ u.next # Len(Code(b)) + 2 /\ u.next <= Len(Code(b)) + 1
      <4>1. t.next \in Nat /\ t.next <= l /\ u.next = t.next + 1
        BY <1>4, <3>1, <3>7 DEF l
      <4>2. u.current \in Nat /\ u.next # l + 2 /\ u.next <= l + 1
        BY <1>11, <3>14, <4>1
      <4> QED
        BY <4>2 DEF l
    <3>9. Segment(b, u) = k
      <4>1. Segment(b, u) = u.current % wsize
        BY <1>2, <1>3, <3>8, Aligned
      <4>2. (t.current + n) % wsize = s + n - wsize
        BY <1>4, <3>1, <3>2, SegmentSum
      <4>3. s + n - wsize = k
        BY <1>11, <3>2 DEF k, d
      <4> QED
        BY <3>7, <4>1, <4>2, <4>3
    <3>10. u.current - k = base + wsize /\ t.current + d = base + wsize
      <4>1. u.current - k = base + wsize /\ x + d = base + wsize
        BY <1>11, <3>14 DEF k, d
      <4> QED
        BY <4>1 DEF x
    <3>11. Stored(b, u) = base + len
      BY <1>3, <3>1, <3>8, <3>9, <3>10 DEF Stored
    <3>12. \A j \in 0 .. (wsize - 1) :
             BitAt(rest, j) = IF j < k THEN CodeBit(b, (base + wsize) + j) ELSE 0
      <4> TAKE j \in 0 .. (wsize - 1)
      <4>1. CASE j < k
        <5>1. j \in 0 .. (k - 1)
          BY <1>11, <3>3, <4>1
        <5> QED
          BY <3>4, <3>10, <4>1, <5>1
      <4>2. CASE ~ (j < k)
        <5>1. j \in k .. wsize
          BY <1>11, <3>3, <4>2
        <5> QED
          BY <3>4, <4>2, <5>1, NoHighBits
      <4> QED
        BY <4>1, <4>2
    <3>13. Collected(b, u)
      BY <3>7, <3>9, <3>10, <3>12 DEF Collected
    <3> QED
      BY <3>6, <3>11, <3>13
  <2> QED
    BY <1>3, <2>1, <2>2
<1> HIDE DEF u, len
<1> USE DEF x, M
<1>16. FilledAt(device', device, p, len, t.buf)
  <2>1. /\ Filled(e, device[p \div wsize], p % wsize, len, t.buf)
        /\ device' = [device EXCEPT ![p \div wsize] = e]
        /\ p \div wsize \in Memory /\ (p % wsize) + len <= wsize
    BY <1>1, <1>4, <1>12, <1>14
  <2> QED
    BY <1>2, <1>4, <1>12, <2>1, Put
<1>17. /\ p = Bit0(b) + Stored(b, t)
       /\ Stored(b, t) + len <= job.maxbits
       /\ Stored(b, u) = Stored(b, t) + len
       /\ \A j \in 0 .. (len - 1) : BitAt(t.buf, j) = CodeBit(b, Stored(b, t) + j)
  <2>1. p = Bit0(b) + base
    BY DEF p
  <2> QED
    BY <1>6, <1>12, <1>13, <1>15, <2>1
<1> QED
  BY <1>1, <1>4, <1>5, <1>12, <1>15, <1>16, <1>17, Advance

-----------------------------------------------------------------------------
\* The launches and the copy.

\* The words cleared, copied and skipped are those of the stream, and every bit of it is in one.
LEMMA StreamSize ==
  ASSUME SafeJobs, job \in Jobs
  PROVE  LET S == zfp_calc_stream_words
         IN  /\ S \in Nat
             /\ calc_device_mem1d = S /\ calc_device_mem2d = S
             /\ job.gpu = "cuda" /\ job.d = 3 => calc_device_mem3d = S
             /\ job.gpu = "cuda" => stream_words = S
             /\ \A q \in Nat : q < blocks * job.maxbits => q \div wsize < S
<1> DEFINE B == blocks * job.maxbits
           S == CeilDiv(B, wsize)
<1>1. B \in Nat /\ wsize \in Nat \ {0} /\ job.d \in 1 .. 3
  BY JobFacts, WordSize
<1>2. S \in Nat /\ B <= wsize * S
  <2> HIDE DEF B
  <2> QED
    BY <1>1, CeilCovers
<1>3. zfp_calc_stream_words = S /\ calc_device_mem1d = S /\ calc_device_mem2d = S
      /\ calc_device_mem3d = B \div wsize
  BY DEF zfp_calc_stream_words, calc_device_mem1d, calc_device_mem2d, calc_device_mem3d
<1>4. ASSUME job.gpu = "cuda", job.d = 3 PROVE B \div wsize = S
  <2> DEFINE v == B \div wsize
  <2>1. B % wsize = 0
    BY <1>4 DEF SafeJobs, blocks
  <2> HIDE DEF B
  <2>2. v \in Nat /\ B = wsize * v + (B % wsize)
    BY <1>1, DivMod
  <2>3. S = (B + wsize - 1) \div wsize
    BY DEF CeilDiv
  <2> HIDE DEF v, S
  <2> DEFINE r == wsize - 1
             y == wsize * v
  <2>4. r \in 0 .. (wsize - 1) /\ y \in Nat
    BY <1>1, <2>2
  <2>5. (wsize * v + r) \div wsize = v
    <3> HIDE DEF r
    <3> QED
      BY <1>1, <2>2, <2>4, DivModUnique
  <2>6. B + wsize - 1 = y + r
    <3>1. B = y + 0
      BY <2>1, <2>2
    <3> HIDE DEF y
    <3> QED
      BY <1>1, <2>4, <3>1
  <2> HIDE DEF r
  <2>7. S = v
    BY <2>3, <2>5, <2>6
  <2> QED
    BY <2>7 DEF v
<1>5. ASSUME NEW q \in Nat, q < B PROVE q \div wsize < S
  <2> DEFINE u == q \div wsize
             r == q % wsize
  <2> HIDE DEF B, S
  <2>1. u \in Nat /\ r \in 0 .. (wsize - 1) /\ q = wsize * u + r
    BY <1>1, DivMod
  <2> HIDE DEF u, r
  <2> SUFFICES ASSUME S <= u PROVE FALSE
    BY <1>2, <2>1 DEF u
  <2>2. wsize * S <= wsize * u /\ wsize * S \in Nat /\ wsize * u \in Nat
    BY <1>1, <1>2, <2>1
  <2> QED
    BY <1>1, <1>2, <1>5, <2>1, <2>2
<1> HIDE DEF S
<1>6. ASSUME job.gpu = "cuda" PROVE stream_words = S
  <2>1. CASE job.d = 1
    BY <1>3, <2>1 DEF stream_words
  <2>2. CASE job.d = 2
    BY <1>3, <2>2 DEF stream_words
  <2>3. CASE job.d = 3
    BY <1>3, <1>4, <1>6, <2>3 DEF stream_words
  <2> QED
    BY <1>1, <2>1, <2>2, <2>3
<1> QED
  BY <1>2, <1>3, <1>4, <1>5, <1>6

\* A thread that has not begun has stored nothing, and collected nothing.
LEMMA FreshThread ==
  ASSUME SafeJobs, job \in Jobs, thread = Fresh, NEW b \in Blocks
  PROVE  Stored(b, thread[b]) = 0 /\ Collected(b, thread[b])
<1> DEFINE t == thread[b]
           l == Len(Code(b))
<1>1. t.next = 1 /\ t.current = 0 /\ t.step = "first" /\ t.part = 0 /\ t.buf = 0 /\ t.loaded = None
  BY DEF Fresh, Blocks
<1>2. l \in Nat /\ wsize \in Nat /\ job.gpu \in {"cuda", "metal"}
  BY CallFacts, WordSize, JobFacts
<1> HIDE DEF t
<1>3. CASE job.gpu = "cuda"
  <2>1. Stored(b, t) = 0 + 0
    BY <1>1, <1>3 DEF Stored
  <2>2. Collected(b, t)
    BY <1>3 DEF Collected
  <2> QED
    BY <2>1, <2>2 DEF t
<1>4. CASE job.gpu = "metal" /\ atomic_mode
  <2>1. Stored(b, t) = 0 + 0
    BY <1>1, <1>4 DEF Stored
  <2>2. Collected(b, t)
    BY <1>4 DEF Collected
  <2> QED
    BY <2>1, <2>2 DEF t
<1>5. CASE job.gpu = "metal" /\ ~ atomic_mode
  <2> DEFINE s == Segment(b, t)
  <2>1. s \in 0 .. (wsize - 1) /\ s <= t.current
    <3>1. t.current \in Nat
      BY <1>1
    <3> QED
      BY <1>5, <3>1, Aligned
  <2>2. s = 0
    <3> HIDE DEF s
    <3> QED
      BY <1>1, <1>2, <2>1
  <2>3. t.next # l + 2
    BY <1>1, <1>2
  <2>4. Stored(b, t) = 0 - s
    BY <1>1, <1>5, <2>3 DEF Stored
  <2>5. Collected(b, t)
    <3>1. ASSUME NEW j \in 0 .. (wsize - 1)
          PROVE  BitAt(t.buf, j) = 0 /\ ~ (t.step = "second" \/ j < s)
      <4>1. j \in 0 .. wsize /\ ~ (j < 0)
        BY <1>2
      <4> QED
        BY <1>1, <2>2, <4>1, ZeroWord
    <3> QED
      BY <1>1, <3>1 DEF Collected
  <2> QED
    BY <2>2, <2>4, <2>5 DEF t
<1> QED
  BY <1>2, <1>3, <1>4, <1>5

\* The words are cleared, and no bit is stored.
LEMMA EncodeLaunchEncoding ==
  ASSUME SafeJobs, Control, EncodeLaunch(zfp_calc_stream_words)
  PROVE  Encoding'
<1> DEFINE S == zfp_calc_stream_words
           done == [b \in Blocks |-> Stored(b, thread'[b])]
<1>1. /\ device' = [w \in Memory |-> IF w < S THEN 0 ELSE device[w]]
      /\ pc = "setup" /\ job' = job /\ thread' = thread
  BY DEF EncodeLaunch
<1>2. job \in Jobs /\ thread = Fresh /\ thread \in [Blocks -> ThreadState]
  BY <1>1 DEF Control, TypeOK, Phases
<1>3. \A b \in Blocks : Stored(b, thread[b]) = 0 /\ Collected(b, thread[b])
  BY <1>2, FreshThread
<1>4. ASSUME NEW b \in Blocks, NEW k \in 0 .. (job.maxbits - 1)
      PROVE  StreamBit(device', Bit0(b) + k) = 0 /\ ~ (k < done[b])
  <2> DEFINE q == Bit0(b) + k
             M == job.maxbits
             B == blocks * job.maxbits
  <2>1. M \in Nat /\ B \in Nat /\ Bit0(b) \in Nat /\ Bit0(b) + M <= B
    BY <1>2, JobFacts, BlockPlace
  <2> HIDE DEF M, B
  <2>2. k \in Nat /\ k <= M /\ q < B
    BY <2>1 DEF M
  <2>3. q \in Nat /\ q \div wsize \in Memory /\ q % wsize \in 0 .. (wsize - 1)
    BY <1>2, <2>2, BitPlace DEF M
  <2> HIDE DEF q
  <2>4. q \div wsize < S
    BY <1>2, <2>2, <2>3, StreamSize DEF B
  <2>5. device'[q \div wsize] = 0
    BY <1>1, <2>3, <2>4
  <2>6. StreamBit(device', q) = 0
    <3>1. q % wsize \in 0 .. wsize
      BY <2>3, WordSize
    <3> QED
      BY <2>5, <3>1, ZeroWord DEF StreamBit
  <2>7. ~ (k < done[b])
    BY <1>1, <1>3, <2>2
  <2> QED
    BY <2>6, <2>7 DEF q
<1>5. Holds(device', done)
  BY <1>4 DEF Holds
<1> QED
  BY <1>1, <1>2, <1>3, <1>5, EncodingKept

-----------------------------------------------------------------------------
\* The stream of the host.

Sizes == [b \in Blocks |-> CodeSize(b)]

\* The host's stream has the codes of all blocks once it has been copied.
Copied ==
  pc \in {"copy", "decode", "done"} =>
    /\ Holds(host, Sizes)
    /\ pc = "copy" => ptr = zfp_calc_stream_words

\* A thread that has written its block has stored its code.
LEMMA WroteCode ==
  ASSUME SafeJobs, Control, NEW b \in Blocks, Wrote(b)
  PROVE  Stored(b, thread[b]) = CodeSize(b)
<1> DEFINE t == thread[b]
           l == Len(Code(b))
           z == CodeSize(b)
<1>1. job \in Jobs /\ WriterAt(b, t) /\ t \in ThreadState
  BY DEF Control, TypeOK, WriterAt
<1>2. t.next > l /\ l \in Nat /\ t.next \in Nat /\ job.gpu \in {"cuda", "metal"} /\ z \in Nat
  <2>1. l \in Nat /\ t.next \in Nat \ {0} /\ z \in 0 .. job.maxbits /\ job.maxbits \in Nat
    BY <1>1, CallFacts, ThreadFields, AtFacts, JobFacts
  <2> QED
    BY <2>1, JobFacts, <1>1 DEF Wrote
<1>3. t.current = z
  BY <1>1, <1>2, AtFacts DEF WriterAt
<1>4. t.step # "second" /\ t.part = 0 /\ t.next <= l + 2
  <2>1. ~ (t.next <= l)
    BY <1>2
  <2> QED
    BY <1>1, <2>1 DEF WriterAt
<1>5. CASE job.gpu = "cuda"
  <2>1. Stored(b, t) = t.current + 0
    BY <1>4, <1>5 DEF Stored
  <2> QED
    BY <1>2, <1>3, <2>1
<1>6. CASE job.gpu = "metal" /\ atomic_mode
  <2>1. Stored(b, t) = t.current + 0
    BY <1>4, <1>6 DEF Stored
  <2> QED
    BY <1>2, <1>3, <2>1
<1>7. CASE job.gpu = "metal" /\ ~ atomic_mode
  <2> DEFINE s == Segment(b, t)
  <2>1. CASE t.next = l + 2
    BY <1>3, <1>7, <2>1 DEF Stored
  <2>2. CASE t.next = l + 1
    <3>1. s \in 0 .. (wsize - 1) /\ s <= t.current
      <4>1. t.current \in Nat
        BY <1>2, <1>3
      <4> QED
        BY <1>1, <1>7, <4>1, Aligned
    <3>2. ~ (Code(b) # <<>> /\ s > 0)
      <4>1. seg_start(b) = s
        BY DEF seg_start, Segment
      <4> QED
        BY <1>7, <2>2, <4>1, Zenon DEF Wrote, FlushDue
    <3>3. Code(b) = <<>> => z = 0
      BY DEF CodeSize
    <3>4. t.next # l + 2
      BY <1>2, <2>2
    <3>5. Stored(b, t) = t.current - s
      BY <1>7, <3>4 DEF Stored
    <3> HIDE DEF s, z, t
    <3>6. s = 0
      BY <1>2, <1>3, <3>1, <3>2, <3>3, WordSize
    <3>7. Stored(b, t) = z
      BY <1>2, <1>3, <3>5, <3>6
    <3> QED
      BY <3>7 DEF t, z
  <2>3. t.next = l + 1 \/ t.next = l + 2
    BY <1>2, <1>4
  <2> QED
    BY <2>1, <2>2, <2>3
<1> QED
  BY <1>2, <1>5, <1>6, <1>7

\* The host's stream after a step, in terms of its new words.
LEMMA CopiedKept ==
  ASSUME job' = job, Holds(host', Sizes), pc' = "copy" => ptr' = zfp_calc_stream_words
  PROVE  Copied'
<1>1. /\ Blocks' = Blocks /\ \A b : CodeSize(b)' = CodeSize(b) /\ Bit0(b)' = Bit0(b)
      /\ blocks' = blocks
  BY JobKept
<1>2. Sizes' = Sizes /\ zfp_calc_stream_words' = zfp_calc_stream_words
  BY <1>1 DEF Sizes, zfp_calc_stream_words, CeilDiv
<1>3. Holds(host, Sizes)'
  BY <1>1, <1>2, HoldsKept DEF Holds, StreamBit
<1> QED
  BY <1>2, <1>3 DEF Copied

\* The words copied are those of the stream.
LEMMA CompressCopied ==
  ASSUME SafeJobs, Control, Encoding, cuda_compress \/ metal_compress
  PROVE  Copied'
<1> DEFINE S == zfp_calc_stream_words
<1>1. job \in Jobs /\ Launched = Blocks
  BY BlocksLaunched
<1>2. pc = "encode" /\ pc' = "copy" /\ job' = job /\ \A b \in Blocks : Wrote(b)
  BY <1>1 DEF cuda_compress, metal_compress
<1>3. ptr' = S /\ \A w \in Allocated : w < S => host'[w] = device[w]
  <2>1. CASE cuda_compress
    <3>1. stream_words = S
      BY <1>1, <2>1, StreamSize DEF cuda_compress
    <3> QED
      BY <2>1, <3>1 DEF cuda_compress
  <2>2. CASE metal_compress
    BY <2>2 DEF metal_compress
  <2> QED
    BY <2>1, <2>2
<1>4. Holds(device, Sizes)
  <2>1. \A b \in Blocks : Stored(b, thread[b]) = CodeSize(b)
    BY <1>2, WroteCode
  <2>2. Holds(device, [b \in Blocks |-> Stored(b, thread[b])])
    BY <1>2 DEF Encoding
  <2> QED
    BY <2>1, <2>2 DEF Sizes
<1>5. ASSUME NEW b \in Blocks, NEW k \in 0 .. (job.maxbits - 1)
      PROVE  StreamBit(host', Bit0(b) + k) = StreamBit(device, Bit0(b) + k)
  <2> DEFINE q == Bit0(b) + k
             M == job.maxbits
             B == blocks * job.maxbits
  <2>1. M \in Nat /\ B \in Nat /\ Bit0(b) \in Nat /\ Bit0(b) + M <= B
    BY <1>1, JobFacts, BlockPlace
  <2> HIDE DEF M, B
  <2>2. k \in Nat /\ k <= M /\ q < B
    BY <2>1 DEF M
  <2>3. q \in Nat /\ q \div wsize \in Allocated
    BY <1>1, <2>2, BitPlace DEF M
  <2> HIDE DEF q
  <2>4. q \div wsize < S
    BY <1>1, <2>2, <2>3, StreamSize DEF B
  <2>5. StreamBit(host', q) = StreamBit(device, q)
    BY <1>3, <2>3, <2>4 DEF StreamBit
  <2> QED
    BY <2>5 DEF q
<1>6. Holds(host', Sizes)
  BY <1>4, <1>5 DEF Holds
<1> QED
  BY <1>2, <1>3, <1>6, CopiedKept

\* A call ends where the code does, or before.
LEMMA CallInCode ==
  ASSUME job \in Jobs, NEW b \in Blocks, NEW i \in Calls(b)
  PROVE  /\ At(b, i) \in Nat /\ Code(b)[i].n \in Nat /\ At(b, i) + Code(b)[i].n <= CodeSize(b)
         /\ CodeSize(b) <= job.maxbits /\ CodeSize(b) \in Nat /\ Code(b)[i].at = At(b, i)
<1> DEFINE l == Len(Code(b))
           z == CodeSize(b)
<1>1. l \in Nat /\ i \in Nat /\ i <= l /\ l >= 1 /\ l \in Calls(b)
  BY CallFacts DEF Calls
<1>2. At(b, i) \in Nat /\ Code(b)[i].n \in Nat /\ Code(b)[i].at = At(b, i)
      /\ At(b, l) \in Nat /\ Code(b)[l].n \in Nat /\ Code(b)[l].at = At(b, l)
  <2>1. \A j \in Calls(b) : Code(b)[j].n \in Nat /\ Code(b)[j].at \in Nat /\ At(b, j) = Code(b)[j].at
    BY MaskedFacts, CallFacts, AtFacts
  <2> QED
    BY <1>1, <2>1
<1>3. z = At(b, l) + Code(b)[l].n
  <2>1. Code(b) # <<>>
    BY <1>1
  <2> QED
    BY <1>2, <2>1 DEF CodeSize
<1>4. z <= job.maxbits /\ z \in Nat
  BY AtFacts, JobFacts
<1> HIDE DEF z, l
<1>5. At(b, i) + Code(b)[i].n <= z
  <2>1. CASE i = l
    BY <1>2, <1>3, <2>1
  <2>2. CASE i < l
    <3>1. At(b, i) + Code(b)[i].n <= At(b, l)
      BY <1>1, <2>2, CallsInOrder
    <3> QED
      BY <1>2, <1>3, <3>1
  <2> QED
    BY <1>1, <2>1, <2>2
<1> QED
  BY <1>2, <1>4, <1>5 DEF z

\* A stream that holds the codes of all blocks is the serial one.
LEMMA CopiedIsSerial == ASSUME SafeJobs, Control, Copied PROVE SerialStream
<1> SUFFICES ASSUME pc = "copy" PROVE SerialStream
  BY DEF SerialStream
<1>1. job \in Jobs /\ Holds(host, Sizes) /\ ptr = CeilDiv(blocks * job.maxbits, wsize)
  BY DEF Control, TypeOK, Copied, zfp_calc_stream_words
<1>2. ASSUME NEW b \in Blocks, NEW i \in 1 .. Len(Code(b)), NEW k \in 0 .. (Code(b)[i].n - 1)
      PROVE  StreamBit(host, Bit0(b) + Code(b)[i].at + k) = BitAt(Code(b)[i].x, k)
  <2> DEFINE a == At(b, i)
             n == Code(b)[i].n
             z == CodeSize(b)
             M == job.maxbits
             j == a + k
  <2>1. i \in Calls(b)
    BY DEF Calls
  <2>2. a \in Nat /\ n \in Nat /\ a + n <= z /\ z <= M /\ z \in Nat /\ Code(b)[i].at = a
    BY <1>1, <2>1, CallInCode
  <2>3. CodeBit(b, j) = BitAt(Code(b)[i].x, k)
    BY <1>1, <2>1, CodeBitOf
  <2>4. Bit0(b) \in Nat /\ M \in Nat
    BY <1>1, BlockPlace, JobFacts
  <2> DEFINE s == Bit0(b)
  <2>5. k \in 0 .. (n - 1) /\ s \in Nat
    BY <2>4
  <2> HIDE DEF a, n, z, M, s
  <2>6. j \in 0 .. (M - 1) /\ j < z /\ s + a + k = s + j
    BY <2>2, <2>4, <2>5
  <2> HIDE DEF j
  <2>7. StreamBit(host, s + j) = CodeBit(b, j)
    BY <1>1, <2>6 DEF Holds, Sizes, z, M, s
  <2> QED
    BY <2>2, <2>3, <2>6, <2>7 DEF s
<1>3. ASSUME NEW b \in Blocks, NEW k \in CodeSize(b) .. (job.maxbits - 1)
      PROVE  StreamBit(host, Bit0(b) + k) = 0
  <2> DEFINE z == CodeSize(b)
             M == job.maxbits
  <2>1. z \in Nat /\ M \in Nat
    BY <1>1, AtFacts, JobFacts
  <2> HIDE DEF z, M
  <2>2. k \in 0 .. (M - 1) /\ ~ (k < z)
    BY <2>1 DEF z, M
  <2> QED
    BY <1>1, <2>2 DEF Holds, Sizes, z, M
<1> QED
  BY <1>1, <1>2, <1>3 DEF SerialStream, Blocks

-----------------------------------------------------------------------------
\* What the decoding threads read.

\* A kernel that decodes sees the words of the blocks.
Delivered == pc = "decode" => \A w \in Wrapped : device[w] = host[w]

\* The bits that a decoding thread finds are those of the code.
LEMMA DeliveredBit ==
  ASSUME Control, Copied, Delivered, pc = "decode", NEW b \in Blocks, NEW k \in 0 .. (job.maxbits - 1)
  PROVE  StreamBit(device, Bit0(b) + k) = IF k < CodeSize(b) THEN CodeBit(b, k) ELSE 0
<1> DEFINE q == Bit0(b) + k
           M == job.maxbits
<1>1. job \in Jobs /\ Holds(host, Sizes)
  BY DEF Control, TypeOK, Copied
<1> DEFINE B == blocks * job.maxbits
<1>2. M \in Nat /\ B \in Nat /\ Bit0(b) \in Nat /\ Bit0(b) + M <= B
  BY <1>1, JobFacts, BlockPlace
<1>3. q \in Nat /\ q < B
  <2> HIDE DEF M, B
  <2>1. k \in 0 .. (M - 1)
    BY DEF M
  <2> QED
    BY <1>2, <2>1
<1>4. q \div wsize \in Wrapped
  <2> HIDE DEF q
  <2> QED
    BY <1>1, <1>3, WrappedWords
<1>5. StreamBit(host, q) = IF k < CodeSize(b) THEN CodeBit(b, k) ELSE 0
  BY <1>1 DEF Holds, Sizes
<1> HIDE DEF q
<1>6. StreamBit(device, q) = StreamBit(host, q)
  BY <1>4 DEF Delivered, StreamBit
<1> QED
  BY <1>5, <1>6 DEF q

\* A float block begins with a bit that says whether it has calls.
LEMMA FlagOfBlock ==
  ASSUME Control, Copied, Delivered, pc = "decode", NEW b \in Blocks, b \notin decoded,
         got[b] = <<>>, job.type = "float"
  PROVE  Flag(b).value = IF Code(b) = <<>> THEN 0 ELSE 1
<1> DEFINE p == Bit0(b)
           M == job.maxbits
           B == blocks * job.maxbits
           z == CodeSize(b)
<1>1. job \in Jobs /\ device \in [Memory -> Word] /\ AtPosition(reader[b], p)
  <2>1. AtPosition(reader[b], Bit0(b) + At(b, Len(got[b]) + 1)) /\ job \in Jobs
        /\ device \in [Memory -> Word]
    BY ReaderAt
  <2>2. Len(got[b]) + 1 = 1 /\ At(b, 1) = 0 /\ Bit0(b) \in Nat
    BY <2>1, AtFacts, BlockPlace
  <2>3. Bit0(b) + At(b, Len(got[b]) + 1) = p
    BY <2>2
  <2> QED
    BY <2>1, <2>3
<1>2. p \in Nat /\ M \in Nat \ {0} /\ B \in Nat /\ p + M <= B /\ z \in Nat
  BY <1>1, JobFacts, BlockPlace, AtFacts
<1>3. p + 1 <= B /\ 0 \in 0 .. (M - 1)
  <2> HIDE DEF p, M, B, z
  <2> QED
    BY <1>2
<1>4. Flag(b).value = StreamBit(device, p + 0)
  <2>1. read_bit(reader[b]).value = StreamBit(device, p)
    BY <1>1, <1>3, ReadBit
  <2>2. p + 0 = p
    BY <1>2
  <2> QED
    BY <2>1, <2>2 DEF Flag
<1>5. StreamBit(device, p + 0) = IF 0 < z THEN CodeBit(b, 0) ELSE 0
  <2> DEFINE k == 0
  <2>1. k \in 0 .. (M - 1)
    BY <1>3
  <2> HIDE DEF k
  <2>2. StreamBit(device, p + k) = IF k < z THEN CodeBit(b, k) ELSE 0
    BY <2>1, DeliveredBit
  <2> QED
    BY <2>2 DEF k
<1>6. CASE Code(b) = <<>>
  <2>1. z = 0
    BY <1>6 DEF CodeSize
  <2> HIDE DEF z
  <2> QED
    BY <1>4, <1>5, <1>6, <2>1
<1>7. CASE Code(b) # <<>>
  <2> DEFINE c == Code(b)[1]
  <2>1. Code(b) \in Seq(Call) /\ Begins(Code(b), job.type)
    BY <1>1, JobFacts
  <2>2. 1 \in Calls(b) /\ 1 \in 1 .. Len(Code(b))
    BY <1>7, <2>1 DEF Calls
  <2>3. c.n > 0 /\ c.x % 2 = 1 /\ c.x \in Nat /\ c.n \in Nat
    <3>1. c.x \in Nat /\ c.n \in Nat
      BY <1>1, <2>2, CallFacts, CallInCode
    <3> QED
      BY <2>1, <2>2, <3>1 DEF Begins
  <2>4. At(b, 1) = 0 /\ At(b, 1) + c.n <= z
    BY <1>1, <2>2, AtFacts, CallInCode
  <2>5. 0 < z /\ 0 \in 0 .. (c.n - 1)
    <3> HIDE DEF c, z
    <3> QED
      BY <1>2, <2>3, <2>4
  <2>6. CodeBit(b, At(b, 1) + 0) = BitAt(c.x, 0)
    <3> DEFINE i == 1
               k == 0
    <3>1. i \in Calls(b) /\ k \in 0 .. (Code(b)[i].n - 1)
      BY <2>2, <2>5
    <3> HIDE DEF i, k
    <3>2. CodeBit(b, At(b, i) + k) = BitAt(Code(b)[i].x, k)
      BY <1>1, <3>1, CodeBitOf
    <3> QED
      BY <3>2 DEF i, k
  <2>7. At(b, 1) + 0 = 0
    BY <2>4
  <2>8. BitAt(c.x, 0) = 1
    <3> DEFINE x == c.x
    <3>1. x \in Nat /\ x % 2 = 1 /\ x \div 1 = x
      BY <2>3
    <3> HIDE DEF x
    <3>2. BitAt(x, 0) = 1
      BY <3>1, Powers DEF BitAt
    <3> QED
      BY <3>2 DEF x
  <2>9. CodeBit(b, 0) = 1
    BY <2>6, <2>7, <2>8
  <2> HIDE DEF z
  <2> QED
    BY <1>4, <1>5, <1>7, <2>5, <2>9
<1> QED
  BY <1>6, <1>7

\* A value of n bits that are those of x.
LEMMA ReadValue ==
  ASSUME NEW x \in Nat, NEW n \in 0 .. wsize, NEW v \in Nat, v < 2 ^ n,
         \A k \in 0 .. (n - 1) : BitAt(v, k) = BitAt(x, k)
  PROVE  v = x % 2 ^ n
<1> DEFINE y == x % 2 ^ n
<1>1. n \in Nat /\ wsize \in Nat /\ n <= wsize
  BY WordSize
<1>2. y \in Nat /\ y < 2 ^ n
  BY PowerDiv
<1>3. ASSUME NEW k \in 0 .. (n - 1) PROVE BitAt(v, k) = BitAt(y, k)
  <2>1. k \in 0 .. (wsize - 1) /\ k < n
    BY <1>1
  <2> QED
    BY <2>1, BitOfRemainder
<1> HIDE DEF y
<1>4. v = y
  BY <1>2, <1>3, BitsDetermine
<1> QED
  BY <1>4 DEF y

\* A call of the decoder reads the value that the call of the coder wrote.
LEMMA CallRead ==
  ASSUME Control, Copied, Delivered, pc = "decode", NEW b \in Blocks, b \notin decoded,
         Len(got[b]) + 1 <= Len(Code(b))
  PROVE  LET c == Code(b)[Len(got[b]) + 1]
         IN  ReadCall(reader[b], c).value = c.x % 2 ^ c.n
<1> DEFINE i == Len(got[b]) + 1
           c == Code(b)[i]
           n == c.n
           a == At(b, i)
           v == ReadCall(reader[b], c).value
           M == job.maxbits
           z == CodeSize(b)
<1>1. job \in Jobs /\ i \in Calls(b)
  BY ReaderAt
<1>2. v \in Nat /\ IsBits(v, Bit0(b) + a, n)
  BY DecodeReads
<1>3. c.x \in Nat /\ n \in 0 .. wsize
  BY <1>1, CallFacts
<1>4. a \in Nat /\ n \in Nat /\ a + n <= z /\ z <= M /\ z \in Nat /\ M \in Nat /\ Bit0(b) \in Nat
  BY <1>1, CallInCode, JobFacts, BlockPlace
<1>5. ASSUME NEW k \in 0 .. (n - 1) PROVE BitAt(v, k) = BitAt(c.x, k)
  <2> DEFINE j == a + k
  <2>1. BitAt(v, k) = StreamBit(device, (Bit0(b) + a) + k)
    BY <1>2 DEF IsBits
  <2>2. CodeBit(b, j) = BitAt(c.x, k)
    BY <1>1, CodeBitOf
  <2> HIDE DEF i, n, a, z, M
  <2>3. j \in 0 .. (M - 1) /\ j < z /\ (Bit0(b) + a) + k = Bit0(b) + j
    BY <1>4
  <2> HIDE DEF j
  <2>4. StreamBit(device, Bit0(b) + j) = CodeBit(b, j)
    BY <2>3, DeliveredBit DEF z, M
  <2> QED
    BY <2>1, <2>2, <2>3, <2>4
<1>6. v < 2 ^ n
  BY <1>2 DEF IsBits
<1> HIDE DEF v, n
<1>7. v = c.x % 2 ^ n
  BY <1>2, <1>3, <1>5, <1>6, ReadValue
<1> QED
  BY <1>7 DEF v, n

-----------------------------------------------------------------------------
\* The invariant.

StreamInv == Control /\ Encoding /\ Copied /\ Delivered /\ ReadsBack

\* What has been read after a step, in terms of the new values.
LEMMA ReadsBackKept ==
  ASSUME job' = job,
         \A b \in Blocks :
           /\ Len(got'[b]) <= Len(Code(b))
           /\ \A i \in 1 .. Len(got'[b]) : got'[b][i] = Code(b)[i].x % 2 ^ Code(b)[i].n
           /\ b \in decoded' => Len(got'[b]) = Len(Code(b))
  PROVE  ReadsBack'
<1>1. blocks' = blocks /\ \A b : Code(b)' = Code(b)
  BY JobKept
<1> QED
  BY <1>1 DEF ReadsBack, Blocks

\* A step that leaves what has been read alone.
LEMMA NothingRead ==
  ASSUME job' = job, got' = got, decoded' = decoded, ReadsBack
  PROVE  ReadsBack'
  BY ReadsBackKept DEF ReadsBack, Blocks

\* Initially nothing is encoded, copied, delivered or read.
LEMMA InitStreamInv == Init => StreamInv
<1> SUFFICES ASSUME Init PROVE StreamInv
  OBVIOUS
<1>1. Control
  BY InitControl
<1>2. Encoding /\ Copied /\ Delivered
  BY DEF Init, Encoding, Copied, Delivered
<1>3. ReadsBack
  <2>1. decoded = {} /\ got = [b \in Blocks |-> <<>>] /\ job \in Jobs
    BY DEF Init, Blocks
  <2>2. ASSUME NEW b \in Blocks
        PROVE  Len(got[b]) = 0 /\ Len(Code(b)) \in Nat
    BY <2>1, CallFacts
  <2>3. ASSUME NEW b \in Blocks, NEW i \in 1 .. Len(got[b]) PROVE FALSE
    BY <2>2
  <2> QED
    BY <2>1, <2>2, <2>3 DEF ReadsBack, Blocks
<1> QED
  BY <1>1, <1>2, <1>3 DEF StreamInv

\* A step that ends in another phase than encoding and decoding, or begins one.
LEMMA HostStreamInv ==
  ASSUME SafeJobs, StreamInv, Host, Control'
  PROVE  Encoding' /\ Copied' /\ Delivered' /\ ReadsBack'
<1>1. job \in Jobs
  BY DEF StreamInv, Control, TypeOK
<1>2. CASE encode1launch \/ encode2launch \/ encode3launch \/ zfp_metal_encode_runtime
  <2>1. EncodeLaunch(zfp_calc_stream_words)
    BY <1>1, <1>2, StreamSize
       DEF encode1launch, encode2launch, encode3launch, zfp_metal_encode_runtime
  <2>2. pc' = "encode" /\ UNCHANGED <<job, got, decoded>>
    BY <2>1 DEF EncodeLaunch
  <2>3. Encoding'
    BY <2>1, EncodeLaunchEncoding DEF StreamInv
  <2> QED
    BY <2>2, <2>3, NothingRead DEF StreamInv, Copied, Delivered
<1>3. CASE cuda_compress \/ metal_compress
  <2>1. pc' = "copy" /\ UNCHANGED <<job, got, decoded>>
    BY <1>3 DEF cuda_compress, metal_compress
  <2>2. Copied'
    BY <1>3, CompressCopied DEF StreamInv
  <2> QED
    BY <2>1, <2>2, NothingRead DEF StreamInv, Encoding, Delivered
<1>4. CASE decode1launch \/ decode2launch \/ decode3launch \/ zfp_metal_decode_runtime
  <2>1. PICK words : DecodeLaunch(words) /\ Wrapped \subseteq words /\ words \subseteq Allocated
    BY <1>1, <1>4, DecodeLaunches
  <2>2. pc = "copy" /\ pc' = "decode" /\ UNCHANGED <<job, host, got, decoded>>
    BY <2>1 DEF DecodeLaunch
  <2>3. Copied'
    BY <2>2, CopiedKept DEF StreamInv, Copied
  <2>4. \A w \in Wrapped : device'[w] = host'[w]
    <3>1. PICK x \in {0, Stale} : device' = [w \in Memory |-> IF w \in words THEN host[w] ELSE x]
      BY <2>1 DEF DecodeLaunch
    <3> QED
      BY <1>1, <2>1, <2>2, <3>1, AllocatedIsMemory
  <2>5. Delivered'
    <3>1. Wrapped' = Wrapped
      BY <2>2, JobKept
    <3> QED
      BY <2>4, <3>1 DEF Delivered
  <2> QED
    BY <2>2, <2>3, <2>5, NothingRead DEF StreamInv, Encoding
<1>5. CASE cuda_decompress
  <2>1. pc = "decode" /\ pc' = "done" /\ UNCHANGED <<job, host, got, decoded>>
    BY <1>5 DEF cuda_decompress
  <2>2. Copied'
    BY <2>1, CopiedKept DEF StreamInv, Copied
  <2> QED
    BY <2>1, <2>2, NothingRead DEF StreamInv, Encoding, Delivered
<1> QED
  BY <1>2, <1>3, <1>4, <1>5 DEF Host

\* A step of a thread that encodes.
LEMMA WriterStreamInv ==
  ASSUME SafeJobs, StreamInv, NEW b \in Blocks,
         \/ WriteBits(b) \/ WriteRest(b) \/ MetalOr(b)
         \/ MetalCollect(b) \/ MetalLoad(b) \/ MetalStore(b)
  PROVE  Encoding' /\ Copied' /\ Delivered' /\ ReadsBack'
<1>1. Control /\ Encoding /\ ReadsBack
  BY DEF StreamInv
<1>2. pc' = "encode" /\ UNCHANGED <<job, got, decoded>>
  BY DEF WriteBits, WriteRest, MetalOr, MetalCollect, MetalLoad, MetalStore
<1>3. Encoding'
  BY <1>1, WriteBitsEncoding, WriteRestEncoding, MetalOrEncoding, MetalCollectEncoding,
     MetalLoadEncoding, MetalStoreEncoding
<1> QED
  BY <1>1, <1>2, <1>3, NothingRead DEF Copied, Delivered

\* A step of a thread that decodes.
LEMMA DecodeCallReads ==
  ASSUME StreamInv, NEW b \in Blocks, DecodeCall(b)
  PROVE  ReadsBack'
<1> DEFINE g == got[b]
           i == Len(g) + 1
           l == Len(Code(b))
           c == Code(b)[i]
           v == ReadCall(reader[b], c).value
<1>1. /\ pc = "decode" /\ b \notin decoded /\ job' = job
      /\ job.type = "float" /\ g = <<>> => Flag(b).value = 1
      /\ got' = [got EXCEPT ![b] =
           Append(g, ReadCall(reader[b], IF i <= l THEN c ELSE [call |-> "bit"]).value)]
      /\ decoded' = IF i >= l THEN decoded \cup {b} ELSE decoded
  BY DEF DecodeCall
<1>2. Control /\ Copied /\ Delivered /\ ReadsBack
  BY DEF StreamInv
<1>3. job \in Jobs /\ g \in Seq(Nat) /\ Len(g) \in Nat /\ l \in Nat /\ got \in [Blocks -> Seq(Nat)]
      /\ (i > l => g = <<>> /\ l = 0)
  <2>1. got \in [Blocks -> Seq(Nat)]
    BY <1>2 DEF Control, TypeOK
  <2> QED
    BY <1>1, <1>2, <2>1, ReaderAt
<1>4. i <= l
  <2> SUFFICES ASSUME ~ (i <= l) PROVE FALSE
    OBVIOUS
  <2>1. g = <<>> /\ l = 0
    BY <1>3
  <2>2. Code(b) \in Seq(Call) /\ Begins(Code(b), job.type) /\ job.type \in {"int", "float"}
    BY <1>3, JobFacts
  <2>3. Code(b) = <<>>
    BY <2>1, <2>2
  <2>4. job.type = "float"
    BY <2>2, <2>3 DEF Begins
  <2>5. Flag(b).value = 0
    BY <1>1, <1>2, <2>1, <2>3, <2>4, FlagOfBlock
  <2> QED
    BY <1>1, <2>1, <2>4, <2>5
<1>5. v = c.x % 2 ^ c.n
  BY <1>1, <1>2, <1>4, CallRead
<1>6. got' = [got EXCEPT ![b] = Append(g, v)]
  BY <1>1, <1>4
<1> DEFINE h == Append(g, v)
<1>7. \A a \in Blocks : got'[a] = IF a = b THEN h ELSE got[a]
  BY <1>3, <1>6
<1>8. /\ Len(h) = i /\ h[i] = v
      /\ \A k \in 1 .. i : (k \in 1 .. Len(g) /\ h[k] = g[k]) \/ k = i
  <2>1. Len(h) = i /\ \A k \in 1 .. i : h[k] = IF k <= Len(g) THEN g[k] ELSE v
    BY <1>3
  <2> QED
    BY <1>3, <2>1
<1> HIDE DEF h, v
<1>9. ASSUME NEW a \in Blocks
      PROVE  /\ Len(got'[a]) <= Len(Code(a))
             /\ \A k \in 1 .. Len(got'[a]) : got'[a][k] = Code(a)[k].x % 2 ^ Code(a)[k].n
             /\ a \in decoded' => Len(got'[a]) = Len(Code(a))
  <2>1. /\ Len(got[a]) <= Len(Code(a))
        /\ \A k \in 1 .. Len(got[a]) : got[a][k] = Code(a)[k].x % 2 ^ Code(a)[k].n
        /\ a \in decoded => Len(got[a]) = Len(Code(a))
    BY <1>2 DEF ReadsBack, Blocks
  <2>2. CASE a # b
    <3>1. got'[a] = got[a] /\ (a \in decoded' => a \in decoded)
      BY <1>1, <1>7, <2>2
    <3> QED
      BY <2>1, <3>1
  <2>3. CASE a = b
    <3>1. got'[a] = h /\ Len(h) = i /\ i <= l
      BY <1>4, <1>7, <1>8, <2>3
    <3>2. ASSUME NEW k \in 1 .. i PROVE h[k] = Code(b)[k].x % 2 ^ Code(b)[k].n
      <4>1. CASE k \in 1 .. Len(g) /\ h[k] = g[k]
        BY <2>1, <2>3, <4>1
      <4>2. CASE k = i
        BY <1>5, <1>8, <4>2
      <4> QED
        BY <1>8, <4>1, <4>2
    <3>3. a \in decoded' => i = l
      BY <1>1, <1>3, <1>4, <2>3
    <3> HIDE DEF i, l
    <3>4. Len(got'[a]) = i /\ got'[a] = h /\ Len(Code(a)) = l
      BY <2>3, <3>1 DEF l
    <3> QED
      BY <2>3, <3>1, <3>2, <3>3, <3>4
  <2> QED
    BY <2>2, <2>3
<1> QED
  BY <1>1, <1>9, ReadsBackKept

\* A block that is skipped has no calls: its flag would be set.
LEMMA SkipBlockReads ==
  ASSUME StreamInv, NEW b \in Blocks, SkipBlock(b)
  PROVE  ReadsBack'
<1>1. /\ pc = "decode" /\ b \notin decoded /\ job.type = "float" /\ got[b] = <<>> /\ Flag(b).value = 0
      /\ decoded' = decoded \cup {b} /\ UNCHANGED <<job, got>>
  BY DEF SkipBlock
<1>2. Control /\ Copied /\ Delivered /\ ReadsBack
  BY DEF StreamInv
<1>3. Flag(b).value = IF Code(b) = <<>> THEN 0 ELSE 1
  BY <1>1, <1>2, FlagOfBlock
<1>4. Code(b) = <<>>
  BY <1>1, <1>3
<1>5. Len(got[b]) = Len(Code(b))
  BY <1>1, <1>4
<1> QED
  BY <1>1, <1>2, <1>5, ReadsBackKept DEF ReadsBack, Blocks

\* A step of a thread that decodes.
LEMMA ReaderStreamInv ==
  ASSUME StreamInv, NEW b \in Blocks, SkipBlock(b) \/ DecodeCall(b)
  PROVE  Encoding' /\ Copied' /\ Delivered' /\ ReadsBack'
<1>1. pc = "decode" /\ UNCHANGED <<job, pc, device, host, ptr>>
  BY DEF SkipBlock, DecodeCall
<1>2. Copied /\ Delivered
  BY DEF StreamInv
<1>3. Copied'
  BY <1>1, <1>2, CopiedKept DEF Copied
<1>4. Delivered'
  <2>1. Wrapped' = Wrapped
    BY <1>1, JobKept
  <2> QED
    BY <1>1, <1>2, <2>1 DEF Delivered
<1>5. ReadsBack'
  BY SkipBlockReads, DecodeCallReads
<1> QED
  BY <1>1, <1>3, <1>4, <1>5 DEF Encoding

\* Nothing happens.
LEMMA StutterStreamInv ==
  ASSUME StreamInv, UNCHANGED vars
  PROVE  Encoding' /\ Copied' /\ Delivered' /\ ReadsBack'
<1>1. UNCHANGED <<job, pc, device, host, ptr, thread, reader, got, decoded, touched>>
  BY DEF vars
<1>2. Control /\ Encoding /\ Copied /\ Delivered /\ ReadsBack
  BY DEF StreamInv
<1>3. Encoding'
  <2>1. CASE pc = "encode"
    <3>1. thread' \in [Blocks -> ThreadState]
      BY <1>1, <1>2 DEF Control, TypeOK
    <3> QED
      BY <1>1, <1>2, <2>1, <3>1, EncodingKept DEF Encoding
  <2>2. CASE pc # "encode"
    BY <1>1, <2>2 DEF Encoding
  <2> QED
    BY <2>1, <2>2
<1>4. Copied'
  <2>1. CASE pc \in {"copy", "decode", "done"}
    BY <1>1, <1>2, <2>1, CopiedKept DEF Copied
  <2>2. CASE pc \notin {"copy", "decode", "done"}
    BY <1>1, <2>2 DEF Copied
  <2> QED
    BY <2>1, <2>2
<1>5. Delivered'
  <2>1. Wrapped' = Wrapped
    BY <1>1, JobKept
  <2> QED
    BY <1>1, <1>2, <2>1 DEF Delivered
<1> QED
  BY <1>1, <1>2, <1>3, <1>4, <1>5, NothingRead

\* The invariant is inductive.
LEMMA NextStreamInv == ASSUME SafeJobs, StreamInv, [Next]_vars PROVE StreamInv'
<1>1. Control'
  BY NextControl DEF StreamInv
<1>2. CASE UNCHANGED vars
  BY <1>1, <1>2, StutterStreamInv DEF StreamInv
<1>3. CASE Finished
  BY <1>1, <1>3, StutterStreamInv DEF Finished, StreamInv
<1>4. CASE Host
  BY <1>1, <1>4, HostStreamInv DEF StreamInv
<1>5. CASE \E b \in 0 .. (blocks - 1) : Thread(b)
  <2>1. PICK b \in Blocks : Thread(b)
    BY <1>5 DEF Blocks
  <2>2. CASE SkipBlock(b) \/ DecodeCall(b)
    BY <1>1, <2>2, ReaderStreamInv DEF StreamInv
  <2>3. CASE \/ WriteBits(b) \/ WriteRest(b) \/ MetalOr(b)
             \/ MetalCollect(b) \/ MetalLoad(b) \/ MetalStore(b)
    BY <1>1, <2>3, WriterStreamInv DEF StreamInv
  <2> QED
    BY <2>1, <2>2, <2>3 DEF Thread
<1> QED
  BY <1>2, <1>3, <1>4, <1>5 DEF Next, Step

\* The stream that the host gets is the one that serial compression writes: every bit of every
\* call is in its place, whatever the order of the additions of threads that share a word, and
\* the stream is positioned after its last word (encode.cuh, BlockWriter; cuda_compress;
\* ZfpBlockWriter1 of the Metal back end).
THEOREM StreamIsSerial == SafeJobs => (Spec => []SerialStream)
<1> SUFFICES ASSUME SafeJobs PROVE Spec => []SerialStream
  OBVIOUS
<1>1. StreamInv => SerialStream
  BY CopiedIsSerial DEF StreamInv
<1>2. StreamInv /\ [Next]_vars => StreamInv'
  BY NextStreamInv
<1> QED
  BY <1>1, <1>2, InitStreamInv, PTL DEF Spec

\* Decoding threads read call by call what the encoding ones wrote, across words and up to the
\* end of the stream, all of it, and skip just the blocks that have no calls (decode.cuh,
\* BlockReader; zfp_decode).
THEOREM StreamReadsBack == SafeJobs => (Spec => []ReadsBack)
<1> SUFFICES ASSUME SafeJobs PROVE Spec => []ReadsBack
  OBVIOUS
<1>1. StreamInv => ReadsBack
  BY DEF StreamInv
<1>2. StreamInv /\ [Next]_vars => StreamInv'
  BY NextStreamInv
<1> QED
  BY <1>1, <1>2, InitStreamInv, PTL DEF Spec
=============================================================================

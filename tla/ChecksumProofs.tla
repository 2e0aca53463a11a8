--------------------------- MODULE ChecksumProofs ---------------------------
(***************************************************************************)
(* Proofs about the checksum of the text watermark, for every width of a   *)
(* byte: it is a word, and two sequences of bytes that differ in one place *)
(* have different checksums, whatever the polynomial, if it has its        *)
(* constant term.                                                          *)
(***************************************************************************)
EXTENDS Vsmark, SequenceLemmas

Word == 0..CrcMask
Width == 4 * ByteBits

-----------------------------------------------------------------------------
(* Powers of two, up to the width of a word. *)

LEMMA PowerType == \A k \in 0..ByteBits : 2 ^ k \in Nat \ {0}
<1> DEFINE Good == {k \in 0..ByteBits : 2 ^ k \in Nat \ {0}}
<1>1. ByteBits \in Nat
  BY FormatAssumption
<1>2. 0 \in Good
  BY <1>1
<1>3. ASSUME NEW k \in (0 + 1)..ByteBits, k - 1 \in Good
      PROVE  k \in Good
  <2> DEFINE p == 2 ^ (k - 1)
             q == 2 ^ k
  <2>1. k \in 1..ByteBits /\ k \in 0..ByteBits
    BY <1>1, <1>3
  <2>2. q = 2 * p /\ p \in Nat \ {0}
    BY <1>3, <2>1, PowerAssumption
  <2> HIDE DEF p, q
  <2>3. q \in Nat \ {0}
    BY <2>2
  <2> QED  BY <2>1, <2>3 DEF q
<1>4. \A k \in 0..ByteBits : k \in Good
  <2> HIDE DEF Good
  <2> QED  BY <1>1, <1>2, <1>3, Induction
<1> QED  BY <1>4

\* A number is twice its half and its lowest bit.
LEMMA Halves ==
  ASSUME NEW x \in Nat
  PROVE  /\ x \div 2 \in Nat /\ x % 2 \in {0, 1} /\ x = 2 * (x \div 2) + (x % 2)
         /\ \A m \in Nat : x < 2 * m => x \div 2 < m
<1>1. x \div 2 \in Nat /\ x % 2 \in {0, 1} /\ x = 2 * (x \div 2) + (x % 2)
  OBVIOUS
<1> DEFINE d == x \div 2
           e == x % 2
<1> HIDE DEF d, e
<1>2. \A m \in Nat : x < 2 * m => d < m
  <2>1. d \in Nat /\ e \in {0, 1} /\ x = 2 * d + e
    BY <1>1 DEF d, e
  <2> QED  BY <2>1
<1> QED  BY <1>1, <1>2 DEF d

\* What is so of <<n, x>>, and with any <<k, y>> of <<k + 1, 2 * y>>, is so of a number
\* with some bits more.
LEMMA Doubling ==
  ASSUME NEW T, NEW n \in Nat, NEW x \in Nat, <<n, x>> \in T, NEW b \in 0..ByteBits,
         \A k, y \in Nat : <<k, y>> \in T => <<k + 1, 2 * y>> \in T
  PROVE  <<n + b, x * 2 ^ b>> \in T
<1> DEFINE Good == {k \in 0..ByteBits : <<n + k, x * 2 ^ k>> \in T}
<1>1. ByteBits \in Nat
  BY FormatAssumption
<1>2. 0 \in Good
  <2>1. n + 0 = n /\ x * 2 ^ 0 = x
    OBVIOUS
  <2> QED  BY <1>1, <2>1
<1>3. ASSUME NEW k \in (0 + 1)..ByteBits, k - 1 \in Good
      PROVE  k \in Good
  <2> DEFINE p == 2 ^ (k - 1)
             q == 2 ^ k
  <2>1. k \in 1..ByteBits /\ k \in 0..ByteBits /\ k - 1 \in 0..ByteBits
    BY <1>1, <1>3
  <2>2. q = 2 * p /\ p \in Nat /\ <<n + (k - 1), x * p>> \in T
    BY <1>3, <2>1, PowerAssumption, PowerType
  <2> HIDE DEF p, q
  <2>3. n + (k - 1) \in Nat /\ x * p \in Nat /\ (n + (k - 1)) + 1 = n + k
    BY <2>1, <2>2
  <2>4. 2 * (x * p) = x * q
    BY <2>2
  <2>5. <<n + k, x * q>> \in T
    BY <2>2, <2>3, <2>4
  <2> QED  BY <2>1, <2>5 DEF q
<1>4. \A k \in 0..ByteBits : k \in Good
  <2> HIDE DEF Good
  <2> QED  BY <1>1, <1>2, <1>3, Induction
<1> QED  BY <1>4

\* The words with their highest bit clear are those below it.
Half == Radix * Radix * Radix * 2 ^ (ByteBits - 1)

LEMMA RadixType ==
  /\ Radix \in Nat \ {0, 1} /\ Byte = 0..(Radix - 1) /\ CrcMask \in Nat
  /\ Half \in Nat \ {0} /\ 2 * Half = CrcMask + 1
  /\ Width \in Nat \ {0} /\ ByteBits \in Nat \ {0}
<1> DEFINE p == 2 ^ (ByteBits - 1)
<1>1. ByteBits \in Nat \ {0} /\ ByteBits \in 1..ByteBits /\ ByteBits - 1 \in 0..ByteBits
  BY FormatAssumption
<1>2. Radix = 2 * p /\ p \in Nat \ {0}
  BY <1>1, PowerAssumption, PowerType DEF Radix
<1> HIDE DEF Radix, p
<1>3. Radix \in Nat \ {0, 1}
  BY <1>2
<1>4. ASSUME NEW r \in Nat \ {0}, NEW q \in Nat \ {0}
      PROVE  r * r * r * q \in Nat \ {0}
  <2>1. r * r \in Nat \ {0}
    OBVIOUS
  <2>2. r * r * r \in Nat \ {0}
    BY <2>1
  <2> QED  BY <2>2
<1>5. Radix * Radix * Radix * p \in Nat \ {0} /\ Radix * Radix * Radix * Radix \in Nat \ {0}
  BY <1>2, <1>3, <1>4
<1>6. 2 * (Radix * Radix * Radix * p) = Radix * Radix * Radix * Radix
  <2> DEFINE c == Radix * Radix * Radix
  <2>1. c \in Nat
    BY <1>3
  <2> HIDE DEF c
  <2>2. 2 * (c * p) = c * Radix
    BY <1>2, <2>1
  <2> QED  BY <2>2 DEF c
<1> QED  BY <1>1, <1>3, <1>5, <1>6 DEF Byte, CrcMask, Half, p, Width

LEMMA WordDoubling ==
  ASSUME NEW T, <<0, 1>> \in T,
         \A k, y \in Nat : <<k, y>> \in T => <<k + 1, 2 * y>> \in T
  PROVE  /\ <<ByteBits, Radix>> \in T
         /\ <<3 * ByteBits, Radix * Radix * Radix>> \in T
         /\ <<Width - 1, Half>> \in T
         /\ <<Width, CrcMask + 1>> \in T
<1> DEFINE B == ByteBits
           R == Radix
           top == B - 1
<1>1. B \in Nat \ {0} /\ R \in Nat /\ B \in 0..B /\ top \in 0..B /\ R = 2 ^ B
  BY RadixType DEF Radix
<1>2. ASSUME NEW n \in Nat, NEW x \in Nat, <<n, x>> \in T
      PROVE  <<n + B, x * R>> \in T /\ <<n + top, x * 2 ^ top>> \in T
  <2>1. <<n + B, x * 2 ^ B>> \in T
    BY <1>1, <1>2, Doubling
  <2>2. <<n + top, x * 2 ^ top>> \in T
    <3> HIDE DEF top
    <3> QED  BY <1>1, <1>2, Doubling
  <2> QED  BY <1>1, <2>1, <2>2
<1> DEFINE p == 2 ^ top
<1>3. \A n, x \in Nat : <<n, x>> \in T => <<n + B, x * R>> \in T /\ <<n + top, x * p>> \in T
  BY <1>2
<1>4. /\ Width = 4 * B /\ CrcMask + 1 = R * R * R * R /\ Half = R * R * R * p
  <2>1. \A c \in Int : (c - 1) + 1 = c
    OBVIOUS
  <2> DEFINE c == R * R * R * R
  <2>2. c \in Int
    BY <1>1
  <2> HIDE DEF c
  <2>3. (c - 1) + 1 = c
    BY <2>1, <2>2
  <2> QED  BY <2>3 DEF c, Width, CrcMask, Half
<1> HIDE DEF B, R, p, top
<1>5. <<B, R>> \in T
  <2>1. <<0 + B, 1 * R>> \in T
    BY <1>3
  <2>2. 0 + B = B /\ 1 * R = R
    BY <1>1
  <2> QED  BY <2>1, <2>2
<1>6. <<B + B, R * R>> \in T
  BY <1>1, <1>3, <1>5
<1>7. <<B + B + B, R * R * R>> \in T
  <2>1. B + B \in Nat /\ R * R \in Nat
    BY <1>1
  <2> QED  BY <1>3, <1>6, <2>1
<1>8. /\ <<B + B + B + B, R * R * R * R>> \in T
      /\ <<B + B + B + top, R * R * R * p>> \in T
  <2>1. B + B + B \in Nat /\ R * R * R \in Nat
    <3>1. R * R \in Nat
      BY <1>1
    <3> QED  BY <1>1, <3>1
  <2> QED  BY <1>3, <1>7, <2>1
<1>9. B + B + B = 3 * B /\ B + B + B + B = 4 * B /\ B + B + B + top = 4 * B - 1
  BY <1>1 DEF top
<1> QED  BY <1>4, <1>5, <1>7, <1>8, <1>9 DEF B, R

-----------------------------------------------------------------------------
(* Exclusive or, as a table for every number of bits. *)

Xors(f) ==
    /\ f \in [0..Width -> [Nat \X Nat -> Nat]]
    /\ \A a, b \in Nat : f[0][<<a, b>>] = 0
    /\ \A k \in 1..Width, a, b \in Nat :
         f[k][<<a, b>>] = ((a + b) % 2) + 2 * f[k - 1][<<a \div 2, b \div 2>>]
    /\ \A a, b \in Nat : Xor(a, b) = f[Width][<<a, b>>]

LEMMA XorTable == \E f : Xors(f)
<1> DEFINE n == Width
           W == Nat \X Nat
           S == [W -> Nat]
           next(k, v) == [w \in W |->
                            IF k = 0 THEN 0
                            ELSE ((w[1] + w[2]) % 2) + 2 * v[<<w[1] \div 2, w[2] \div 2>>]]
           body(h) == [k \in 0..n |-> next(k, h[k - 1])]
           step == [k \in 1..n |-> [v \in S |-> next(k, v)]]
           F == CHOOSE h : h = body(h)
<1>1. n \in Nat
  BY RadixType
<1>2. \A a, b \in Nat : Xor(a, b) = F[n][<<a, b>>]
  BY DEF Xor, Width
<1>3. ASSUME NEW k \in Nat, NEW v \in S
      PROVE  next(k, v) \in S
  OBVIOUS
<1>4. ASSUME NEW v
      PROVE  next(0, v) = [w \in W |-> 0] /\ next(0, v) \in S
  OBVIOUS
<1>5. ASSUME NEW k \in 1..n, NEW v \in S, NEW a \in Nat, NEW b \in Nat
      PROVE  next(k, v)[<<a, b>>] = ((a + b) % 2) + 2 * v[<<a \div 2, b \div 2>>]
  BY <1>1, <1>5
<1> HIDE DEF n, next, S
<1>6. Steps(step, n, S)
  BY <1>1, <1>3 DEF Steps
<1> DEFINE base == [w \in W |-> 0]
<1>7. PICK f : Recursion(f, base, step, n, S)
  <2>1. base \in S
    BY <1>4
  <2> HIDE DEF step, base
  <2> QED  BY <1>1, <1>6, <2>1, FiniteRecursion
<1>8. f = body(f)
  <2>1. f \in [0..n -> S] /\ f[0] = base /\ \A k \in 1..n : f[k] = step[k][f[k - 1]]
    BY <1>7 DEF Recursion
  <2>2. ASSUME NEW k \in 0..n
        PROVE  f[k] = next(k, f[k - 1])
    <3>1. CASE k = 0
      BY <1>4, <2>1, <3>1
    <3>2. CASE k # 0
      <4>1. k \in 1..n /\ k - 1 \in 0..n
        BY <1>1, <3>2
      <4>2. f[k - 1] \in S
        BY <2>1, <4>1
      <4> QED  BY <2>1, <4>1, <4>2
    <3> QED  BY <3>1, <3>2
  <2> QED  BY <2>1, <2>2
<1>9. F = body(F)
  BY <1>8
<1> HIDE DEF F
<1>10. F \in [0..n -> S] /\ \A k \in 0..n : F[k] = next(k, F[k - 1])
  <2>1. \A k \in 0..n : F[k] = next(k, F[k - 1])
    BY <1>9
  <2>2. F[0] \in S
    BY <1>1, <1>4, <2>1
  <2>3. \A k \in 1..n : F[k - 1] \in S => F[k] = step[k][F[k - 1]]
    BY <1>1, <2>1
  <2>4. \A k \in 0..n : F[k] \in S
    <3> HIDE DEF step
    <3> QED  BY <1>1, <1>6, <2>2, <2>3, RecursionType
  <2> QED  BY <1>9, <2>1, <2>4
<1>11. \A a, b \in Nat : F[0][<<a, b>>] = 0
  <2>1. F[0] = next(0, F[0 - 1])
    BY <1>1, <1>10
  <2>2. F[0] = [w \in W |-> 0]
    BY <1>4, <2>1
  <2> QED  BY <2>2
<1>12. ASSUME NEW k \in 1..n, NEW a \in Nat, NEW b \in Nat
       PROVE  F[k][<<a, b>>] = ((a + b) % 2) + 2 * F[k - 1][<<a \div 2, b \div 2>>]
  <2>1. k \in 0..n /\ k - 1 \in 0..n
    BY <1>1, <1>12
  <2>2. F[k - 1] \in S /\ F[k] = next(k, F[k - 1])
    BY <1>10, <2>1
  <2> QED  BY <1>5, <2>2
<1>13. Xors(F)
  BY <1>2, <1>10, <1>11, <1>12 DEF Xors, n, S
<1> QED  BY <1>13

\* The lowest bit of an exclusive or, and the others.
LEMMA XorBits ==
  ASSUME NEW f, Xors(f), NEW k \in 1..Width, NEW a \in Nat, NEW b \in Nat
  PROVE  /\ a \div 2 \in Nat /\ b \div 2 \in Nat /\ k - 1 \in 0..Width
         /\ a = 2 * (a \div 2) + (a % 2) /\ a % 2 \in {0, 1}
         /\ f[k][<<a, b>>] \in Nat /\ f[k - 1][<<a \div 2, b \div 2>>] \in Nat
         /\ f[k][<<a, b>>] = ((a + b) % 2) + 2 * f[k - 1][<<a \div 2, b \div 2>>]
         /\ f[k][<<a, b>>] % 2 = (a + b) % 2
         /\ f[k][<<a, b>>] \div 2 = f[k - 1][<<a \div 2, b \div 2>>]
<1>1. /\ a \div 2 \in Nat /\ b \div 2 \in Nat /\ k - 1 \in 0..Width /\ k \in 0..Width
      /\ a = 2 * (a \div 2) + (a % 2) /\ a % 2 \in {0, 1} /\ (a + b) % 2 \in {0, 1}
  BY RadixType
<1>2. f \in [0..Width -> [Nat \X Nat -> Nat]]
  BY DEF Xors
<1>3. f[k][<<a, b>>] \in Nat /\ f[k - 1][<<a \div 2, b \div 2>>] \in Nat
  BY <1>1, <1>2
<1>4. f[k][<<a, b>>] = ((a + b) % 2) + 2 * f[k - 1][<<a \div 2, b \div 2>>]
  BY DEF Xors
<1>5. ASSUME NEW c \in {0, 1}, NEW d \in Nat
      PROVE  (c + 2 * d) % 2 = c /\ (c + 2 * d) \div 2 = d
  OBVIOUS
<1> QED  BY <1>1, <1>3, <1>4, <1>5

\* On all numbers it is associative and commutative, and each is its own inverse.
LEMMA XorLaws ==
  ASSUME NEW a \in Nat, NEW b \in Nat, NEW c \in Nat
  PROVE  /\ Xor(a, b) \in Nat
         /\ Xor(a, b) = Xor(b, a)
         /\ Xor(Xor(a, b), c) = Xor(a, Xor(b, c))
         /\ Xor(a, a) = 0
<1>1. PICK f : Xors(f)
  BY XorTable
<1> DEFINE X(k, x, y) == f[k][<<x, y>>]
           Good == {k \in 0..Width :
                      \A x, y, z \in Nat : /\ X(k, x, y) \in Nat
                                           /\ X(k, x, y) = X(k, y, x)
                                           /\ X(k, X(k, x, y), z) = X(k, x, X(k, y, z))
                                           /\ X(k, x, x) = 0}
<1>2. Width \in Nat
  BY RadixType
<1>3. 0 \in Good
  <2>1. \A x, y \in Nat : X(0, x, y) = 0
    BY <1>1 DEF Xors
  <2> HIDE DEF X
  <2> QED  BY <1>2, <2>1
<1>4. ASSUME NEW k \in (0 + 1)..Width, k - 1 \in Good
      PROVE  k \in Good
  <2>1. k \in 1..Width /\ k \in 0..Width
    BY <1>2, <1>4
  <2>2. \A x, y \in Nat :
           /\ x \div 2 \in Nat /\ y \div 2 \in Nat /\ x % 2 \in {0, 1}
           /\ x = 2 * (x \div 2) + (x % 2)
           /\ X(k, x, y) \in Nat /\ X(k - 1, x \div 2, y \div 2) \in Nat
           /\ X(k, x, y) = ((x + y) % 2) + 2 * X(k - 1, x \div 2, y \div 2)
           /\ X(k, x, y) % 2 = (x + y) % 2
           /\ X(k, x, y) \div 2 = X(k - 1, x \div 2, y \div 2)
    <3> SUFFICES ASSUME NEW x \in Nat, NEW y \in Nat
                 PROVE  /\ x \div 2 \in Nat /\ y \div 2 \in Nat /\ x % 2 \in {0, 1}
                        /\ x = 2 * (x \div 2) + (x % 2)
                        /\ f[k][<<x, y>>] \in Nat /\ f[k - 1][<<x \div 2, y \div 2>>] \in Nat
                        /\ f[k][<<x, y>>] = ((x + y) % 2) + 2 * f[k - 1][<<x \div 2, y \div 2>>]
                        /\ f[k][<<x, y>>] % 2 = (x + y) % 2
                        /\ f[k][<<x, y>>] \div 2 = f[k - 1][<<x \div 2, y \div 2>>]
      OBVIOUS
    <3> QED  BY <1>1, <2>1, XorBits
  <2>3. ASSUME NEW x \in Nat, NEW y \in Nat, NEW z \in Nat
        PROVE  /\ X(k - 1, x, y) = X(k - 1, y, x)
               /\ X(k - 1, X(k - 1, x, y), z) = X(k - 1, x, X(k - 1, y, z))
               /\ X(k - 1, x, x) = 0
    BY <1>4, <2>3
  <2> HIDE DEF X
  <2>4. ASSUME NEW x \in Nat, NEW y \in Nat, NEW z \in Nat
        PROVE  /\ X(k, x, y) \in Nat
               /\ X(k, x, y) = X(k, y, x)
               /\ X(k, X(k, x, y), z) = X(k, x, X(k, y, z))
               /\ X(k, x, x) = 0
    <3> DEFINE x2 == x \div 2
               y2 == y \div 2
               z2 == z \div 2
               xy == X(k, x, y)
               yz == X(k, y, z)
    <3>1. x2 \in Nat /\ y2 \in Nat /\ z2 \in Nat /\ xy \in Nat /\ yz \in Nat
      BY <2>2
    <3>2. xy % 2 = (x + y) % 2 /\ yz % 2 = (y + z) % 2
      BY <2>2
    <3>3. xy \div 2 = X(k - 1, x2, y2) /\ yz \div 2 = X(k - 1, y2, z2)
      BY <2>2
    <3>4. xy = X(k, y, x)
      <4>1. X(k, y, x) = ((y + x) % 2) + 2 * X(k - 1, y2, x2)
        BY <2>2
      <4>2. xy = ((x + y) % 2) + 2 * X(k - 1, x2, y2)
        BY <2>2
      <4>3. X(k - 1, x2, y2) = X(k - 1, y2, x2) /\ x + y = y + x
        BY <2>3, <3>1
      <4> QED  BY <4>1, <4>2, <4>3
    <3>5. X(k, x, x) = 0
      <4>1. X(k, x, x) = ((x + x) % 2) + 2 * X(k - 1, x2, x2)
        BY <2>2
      <4>2. X(k - 1, x2, x2) = 0 /\ (x + x) % 2 = 0
        BY <2>3, <3>1
      <4> QED  BY <4>1, <4>2
    <3>6. X(k, xy, z) = X(k, x, yz)
      <4> HIDE DEF xy, yz
      <4>1. X(k, xy, z) = ((xy + z) % 2) + 2 * X(k - 1, xy \div 2, z2)
        BY <2>2, <3>1
      <4>2. X(k, x, yz) = ((x + yz) % 2) + 2 * X(k - 1, x2, yz \div 2)
        BY <2>2, <3>1
      <4>3. X(k - 1, xy \div 2, z2) = X(k - 1, x2, yz \div 2)
        BY <2>3, <3>1, <3>3
      <4>4. (xy + z) % 2 = (x + yz) % 2
        BY <3>1, <3>2
      <4> QED  BY <4>1, <4>2, <4>3, <4>4
    <3> QED  BY <3>1, <3>4, <3>5, <3>6
  <2> QED  BY <2>1, <2>4
<1>5. \A k \in 0..Width : k \in Good
  <2> HIDE DEF Good
  <2> QED  BY <1>2, <1>3, <1>4, Induction
<1>6. Width \in Good /\ \A x, y \in Nat : Xor(x, y) = X(Width, x, y)
  BY <1>1, <1>2, <1>5 DEF Xors
<1> HIDE DEF X
<1>7. /\ X(Width, a, b) \in Nat /\ X(Width, b, c) \in Nat
      /\ X(Width, a, b) = X(Width, b, a)
      /\ X(Width, X(Width, a, b), c) = X(Width, a, X(Width, b, c))
      /\ X(Width, a, a) = 0
  BY <1>6
<1> QED  BY <1>6, <1>7

LEMMA XorType ==
  ASSUME NEW a \in Nat, NEW b \in Nat
  PROVE  Xor(a, b) \in Nat
BY XorLaws

\* Numbers of as many bits have an exclusive or of as many.
LEMMA XorBound ==
  ASSUME NEW bound \in {Radix, Half, CrcMask + 1}, NEW a \in Nat, NEW b \in Nat,
         a < bound, b < bound
  PROVE  Xor(a, b) < bound
<1>1. PICK f : Xors(f)
  BY XorTable
<1> DEFINE X(k, x, y) == f[k][<<x, y>>]
           T == {t \in Nat \X Nat :
                   \A k \in 0..Width, x, y \in Nat :
                      x < t[2] /\ y < t[2] => X(k, x, y) < t[2]}
<1>2. Width \in Nat
  BY RadixType
<1>3. \A x, y \in Nat : X(0, x, y) = 0
  BY <1>1 DEF Xors
<1>4. \A k \in 1..Width : k - 1 \in 0..Width /\ X(k, 0, 0) = 2 * X(k - 1, 0, 0)
  <2> SUFFICES ASSUME NEW k \in 1..Width
               PROVE  k - 1 \in 0..Width /\ f[k][<<0, 0>>] = 2 * f[k - 1][<<0, 0>>]
    OBVIOUS
  <2>1. 0 \div 2 = 0 /\ (0 + 0) % 2 = 0
    OBVIOUS
  <2>2. ASSUME NEW z \in Nat
        PROVE  /\ k - 1 \in 0..Width /\ f[k - 1][<<z \div 2, z \div 2>>] \in Nat
               /\ f[k][<<z, z>>] = ((z + z) % 2) + 2 * f[k - 1][<<z \div 2, z \div 2>>]
    BY <1>1, XorBits
  <2>3. ASSUME NEW z \in Nat, z \div 2 = z, (z + z) % 2 = 0
        PROVE  k - 1 \in 0..Width /\ f[k][<<z, z>>] = 2 * f[k - 1][<<z, z>>]
    <3> DEFINE half == f[k - 1][<<z, z>>]
    <3>1. half \in Nat /\ f[k][<<z, z>>] = 0 + 2 * half
      BY <2>2, <2>3
    <3>2. k - 1 \in 0..Width
      BY <1>2
    <3> HIDE DEF half
    <3>3. 0 + 2 * half = 2 * half
      BY <3>1
    <3>4. f[k][<<z, z>>] = 2 * half
      BY <3>1, <3>3
    <3> QED  BY <3>2, <3>4 DEF half
  <2> QED  BY <2>1, <2>3
<1> HIDE DEF X
<1>5. <<0, 1>> \in T
  <2> SUFFICES ASSUME NEW k \in 0..Width
               PROVE  X(k, 0, 0) < 1
    BY DEF T
  <2> DEFINE Good == {j \in 0..Width : X(j, 0, 0) = 0}
  <2>1. 0 \in Good
    BY <1>2, <1>3
  <2>2. ASSUME NEW j \in (0 + 1)..Width, j - 1 \in Good
        PROVE  j \in Good
    <3>1. j \in 1..Width /\ j \in 0..Width
      BY <1>2, <2>2
    <3> QED  BY <1>4, <2>2, <3>1
  <2>3. \A j \in 0..Width : j \in Good
    <3> HIDE DEF Good
    <3> QED  BY <1>2, <2>1, <2>2, Induction
  <2> QED  BY <2>3
<1>6. ASSUME NEW n \in Nat, NEW m \in Nat, <<n, m>> \in T
      PROVE  <<n + 1, 2 * m>> \in T
  <2> SUFFICES ASSUME NEW k \in 0..Width, NEW x \in Nat, NEW y \in Nat, x < 2 * m, y < 2 * m
               PROVE  X(k, x, y) < 2 * m
    BY DEF T
  <2>1. CASE k = 0
    BY <1>3, <2>1
  <2>2. CASE k # 0
    <3> DEFINE x2 == x \div 2
               y2 == y \div 2
               c == X(k - 1, x2, y2)
    <3>1. k \in 1..Width
      BY <1>2, <2>2
    <3>2. /\ x2 \in Nat /\ y2 \in Nat /\ k - 1 \in 0..Width /\ c \in Nat
          /\ (x + y) % 2 \in {0, 1} /\ X(k, x, y) = ((x + y) % 2) + 2 * c
      <4>1. x + y \in Nat /\ (x + y) % 2 \in {0, 1}
        BY Halves
      <4> QED  BY <1>1, <3>1, <4>1, XorBits DEF X
    <3>3. x2 < m /\ y2 < m
      BY Halves
    <3>4. c < m
      BY <1>6, <3>2, <3>3 DEF T
    <3> HIDE DEF c
    <3> QED  BY <3>2, <3>4
  <2> QED  BY <2>1, <2>2
<1>7. <<ByteBits, Radix>> \in T /\ <<Width - 1, Half>> \in T /\ <<Width, CrcMask + 1>> \in T
  <2> HIDE DEF T
  <2> QED  BY <1>5, <1>6, WordDoubling
<1>8. PICK n \in Nat : <<n, bound>> \in T
  <2>1. ByteBits \in Nat /\ Width - 1 \in Nat /\ Width \in Nat
    BY RadixType
  <2> QED  BY <1>7, <2>1
<1>9. X(Width, a, b) < bound /\ Xor(a, b) = X(Width, a, b)
  BY <1>1, <1>2, <1>8 DEF Xors, X
<1> QED  BY <1>9

\* An exclusive or with nothing, at any number of bits there are enough of.
LEMMA XorNothing ==
  ASSUME NEW f, Xors(f)
  PROVE  /\ \A k \in 0..Width : f[k][<<0, 0>>] = 0
         /\ \A k \in (3 * ByteBits)..Width, a \in Nat :
               a < Radix * Radix * Radix => f[k][<<0, a>>] = a
         /\ \A a \in Word : Xor(a, 0) = a
<1> DEFINE X(k, x, y) == f[k][<<x, y>>]
           T == {t \in Nat \X Nat :
                   \A k \in 0..Width, a \in Nat :
                      t[1] <= k /\ a < t[2] => X(k, 0, a) = a}
<1>1. Width \in Nat /\ ByteBits \in Nat /\ Width = 4 * ByteBits
  BY RadixType DEF Width
<1>2. \A k \in 1..Width, a \in Nat :
         k - 1 \in 0..Width /\ X(k, 0, a) = (a % 2) + 2 * X(k - 1, 0, a \div 2)
  <2> SUFFICES ASSUME NEW k \in 1..Width, NEW a \in Nat
               PROVE  /\ k - 1 \in 0..Width
                      /\ f[k][<<0, a>>] = (a % 2) + 2 * f[k - 1][<<0, a \div 2>>]
    OBVIOUS
  <2>1. 0 \div 2 = 0 /\ 0 + a = a
    OBVIOUS
  <2>2. /\ k - 1 \in 0..Width
        /\ f[k][<<0, a>>] = ((0 + a) % 2) + 2 * f[k - 1][<<0 \div 2, a \div 2>>]
    BY XorBits
  <2> QED  BY <2>1, <2>2
<1>3. \A k \in 0..Width : X(k, 0, 0) = 0
  <2> DEFINE Good == {k \in 0..Width : X(k, 0, 0) = 0}
  <2>1. 0 \in Good
    BY <1>1 DEF Xors
  <2> HIDE DEF X
  <2>2. ASSUME NEW k \in (0 + 1)..Width, k - 1 \in Good
        PROVE  k \in Good
    <3>1. k \in 1..Width /\ k \in 0..Width /\ 0 % 2 = 0 /\ 0 \div 2 = 0
      BY <1>1, <2>2
    <3>2. X(k, 0, 0) = (0 % 2) + 2 * X(k - 1, 0, 0 \div 2)
      BY <1>2, <3>1
    <3> QED  BY <2>2, <3>1, <3>2
  <2>3. \A k \in 0..Width : k \in Good
    <3> HIDE DEF Good
    <3> QED  BY <1>1, <2>1, <2>2, Induction
  <2> QED  BY <2>3
<1> HIDE DEF X
<1>4. <<0, 1>> \in T
  BY <1>3
<1>5. ASSUME NEW n \in Nat, NEW m \in Nat, <<n, m>> \in T
      PROVE  <<n + 1, 2 * m>> \in T
  <2> SUFFICES ASSUME NEW k \in 0..Width, NEW a \in Nat, n + 1 <= k, a < 2 * m
               PROVE  X(k, 0, a) = a
    BY DEF T
  <2>1. k \in 1..Width /\ k - 1 \in 0..Width /\ n <= k - 1
    BY <1>1
  <2>2. a \div 2 \in Nat /\ a \div 2 < m /\ a = 2 * (a \div 2) + (a % 2) /\ a % 2 \in {0, 1}
    BY Halves
  <2>3. X(k - 1, 0, a \div 2) = a \div 2
    BY <1>5, <2>1, <2>2
  <2>4. X(k, 0, a) = (a % 2) + 2 * X(k - 1, 0, a \div 2)
    BY <1>2, <2>1
  <2> QED  BY <2>2, <2>3, <2>4
<1>6. <<3 * ByteBits, Radix * Radix * Radix>> \in T /\ <<Width, CrcMask + 1>> \in T
  <2> HIDE DEF T
  <2> QED  BY <1>4, <1>5, WordDoubling
<1>7. \A k \in (3 * ByteBits)..Width, a \in Nat :
         a < Radix * Radix * Radix => X(k, 0, a) = a
  BY <1>1, <1>6
<1>8. ASSUME NEW a \in Word
      PROVE  Xor(a, 0) = a
  <2>1. a \in Nat /\ a < CrcMask + 1
    BY RadixType DEF Word
  <2>2. X(Width, 0, a) = a
    BY <1>1, <1>6, <2>1
  <2>3. Xor(0, a) = X(Width, 0, a)
    BY <2>1 DEF Xors, X
  <2> QED  BY <2>1, <2>2, <2>3, XorLaws
<1> QED  BY <1>3, <1>7, <1>8 DEF X

\* The words with exclusive or are a group in which each is its own inverse.
LEMMA WordXor ==
  ASSUME NEW a \in Word, NEW b \in Word
  PROVE  /\ Xor(a, b) \in Word /\ Xor(a, b) = Xor(b, a) /\ Xor(a, 0) = a
         /\ Xor(a, Xor(a, b)) = b
<1>1. PICK f : Xors(f)
  BY XorTable
<1>2. a \in Nat /\ b \in Nat /\ a < CrcMask + 1 /\ b < CrcMask + 1 /\ CrcMask \in Nat
  BY RadixType DEF Word
<1>3. Xor(a, b) \in Nat /\ Xor(a, b) = Xor(b, a) /\ Xor(a, b) < CrcMask + 1
  BY <1>2, XorBound, XorLaws
<1>4. Xor(a, b) \in Word
  BY <1>2, <1>3 DEF Word
<1>5. Xor(a, 0) = a /\ Xor(b, 0) = b
  BY <1>1, XorNothing
<1>6. Xor(a, Xor(a, b)) = Xor(Xor(a, a), b)
  BY <1>2, XorLaws
<1>7. Xor(a, a) = 0 /\ Xor(0, b) = Xor(b, 0)
  <2>1. 0 \in Nat
    OBVIOUS
  <2> QED  BY <1>2, <2>1, XorLaws
<1> QED  BY <1>3, <1>4, <1>5, <1>6, <1>7

LEMMA XorCancels ==
  ASSUME NEW a \in Word, NEW b \in Word, NEW c \in Word, Xor(a, b) = Xor(a, c)
  PROVE  b = c
BY WordXor

\* The bits of an exclusive or of two words are those of its halves and the lowest.
LEMMA XorHalves ==
  ASSUME NEW a \in Word, NEW b \in Word
  PROVE  Xor(a, b) % 2 = (a + b) % 2 /\ Xor(a, b) \div 2 = Xor(a \div 2, b \div 2)
<1>1. PICK f : Xors(f)
  BY XorTable
<1> DEFINE X(k, x, y) == f[k][<<x, y>>]
           T == {t \in Nat \X Nat :
                   \A k \in 0..(Width - 1), x, y \in Nat :
                      t[1] <= k /\ x < t[2] /\ y < t[2] => X(k + 1, x, y) = X(k, x, y)}
<1>2. Width \in Nat \ {0} /\ Half \in Nat /\ 2 * Half = CrcMask + 1
  BY RadixType
<1>3. <<0, 1>> \in T
  <2>1. \A k \in 0..(Width - 1) : k \in 0..Width /\ k + 1 \in 0..Width
    BY <1>2
  <2>2. \A k \in 0..Width : X(k, 0, 0) = 0
    BY <1>1, XorNothing
  <2> HIDE DEF X
  <2> QED  BY <2>1, <2>2
<1>4. ASSUME NEW n \in Nat, NEW m \in Nat, <<n, m>> \in T
      PROVE  <<n + 1, 2 * m>> \in T
  <2> SUFFICES ASSUME NEW k \in 0..(Width - 1), NEW x \in Nat, NEW y \in Nat,
                      n + 1 <= k, x < 2 * m, y < 2 * m
               PROVE  X(k + 1, x, y) = X(k, x, y)
    BY DEF T
  <2>1. k \in 1..Width /\ k + 1 \in 1..Width /\ k - 1 \in 0..(Width - 1) /\ n <= k - 1
        /\ (k + 1) - 1 = k /\ (k - 1) + 1 = k
    BY <1>2
  <2>2. x \div 2 \in Nat /\ y \div 2 \in Nat /\ x \div 2 < m /\ y \div 2 < m
    BY Halves
  <2>3. X((k - 1) + 1, x \div 2, y \div 2) = X(k - 1, x \div 2, y \div 2)
    <3> HIDE DEF X
    <3> QED  BY <1>4, <2>1, <2>2
  <2>4. ASSUME NEW j \in 1..Width
        PROVE  X(j, x, y) = ((x + y) % 2) + 2 * X(j - 1, x \div 2, y \div 2)
    BY <1>1, XorBits
  <2> HIDE DEF X
  <2>5. /\ X(k + 1, x, y) = ((x + y) % 2) + 2 * X((k + 1) - 1, x \div 2, y \div 2)
        /\ X(k, x, y) = ((x + y) % 2) + 2 * X(k - 1, x \div 2, y \div 2)
    BY <2>1, <2>4
  <2> QED  BY <2>1, <2>3, <2>5
<1>5. <<Width - 1, Half>> \in T
  <2> HIDE DEF T
  <2> QED  BY <1>3, <1>4, WordDoubling
<1>6. a \in Nat /\ b \in Nat /\ a < 2 * Half /\ b < 2 * Half
  BY <1>2, RadixType DEF Word
<1>7. a \div 2 \in Nat /\ b \div 2 \in Nat /\ a \div 2 < Half /\ b \div 2 < Half
  BY <1>2, <1>6, Halves
<1>8. /\ Width \in 1..Width /\ Width - 1 \in 0..(Width - 1) /\ Width - 1 <= Width - 1
      /\ (Width - 1) + 1 = Width
  BY <1>2
<1>9. X((Width - 1) + 1, a \div 2, b \div 2) = X(Width - 1, a \div 2, b \div 2)
  <2> HIDE DEF X
  <2> QED  BY <1>5, <1>7, <1>8
<1>10. /\ X(Width, a, b) % 2 = (a + b) % 2
       /\ X(Width, a, b) \div 2 = X(Width - 1, a \div 2, b \div 2)
  <2>1. ASSUME NEW k \in 1..Width
        PROVE  X(k, a, b) % 2 = (a + b) % 2
    <3>1. (a + b) % 2 \in {0, 1}
      BY <1>6, Halves
    <3>2. /\ X(k, a, b) = ((a + b) % 2) + 2 * X(k - 1, a \div 2, b \div 2)
          /\ X(k - 1, a \div 2, b \div 2) \in Nat
      BY <1>1, <1>6, XorBits
    <3>3. ASSUME NEW c \in {0, 1}, NEW d \in Nat
          PROVE  (c + 2 * d) % 2 = c
      OBVIOUS
    <3> HIDE DEF X
    <3> QED  BY <3>1, <3>2, <3>3
  <2>2. ASSUME NEW k \in 1..Width
        PROVE  X(k, a, b) \div 2 = X(k - 1, a \div 2, b \div 2)
    BY <1>1, <1>6, XorBits
  <2> HIDE DEF X
  <2> QED  BY <1>8, <2>1, <2>2
<1>11. Xor(a, b) = X(Width, a, b) /\ Xor(a \div 2, b \div 2) = X(Width, a \div 2, b \div 2)
  BY <1>1, <1>6, <1>7 DEF Xors
<1> HIDE DEF X
<1> QED  BY <1>8, <1>9, <1>10, <1>11

\* The exclusive or of a byte and of higher bytes is their sum.
LEMMA XorSplit ==
  ASSUME NEW low \in Byte, NEW high \in Nat, high < Radix * Radix * Radix
  PROVE  Xor(low, high * Radix) = low + high * Radix
<1>1. PICK f : Xors(f)
  BY XorTable
<1> DEFINE X(k, x, y) == f[k][<<x, y>>]
           n3 == 3 * ByteBits
           T == {t \in Nat \X Nat :
                   \A x \in Nat :
                      t[1] <= ByteBits /\ x < t[2] =>
                         X(n3 + t[1], x, high * t[2]) = x + high * t[2]}
<1>2. ByteBits \in Nat /\ n3 \in Nat /\ Width = n3 + ByteBits /\ Width \in Nat
  BY RadixType DEF Width
<1>3. <<0, 1>> \in T
  <2>1. n3 \in n3..Width /\ n3 + 0 = n3 /\ high * 1 = high
    BY <1>2
  <2>2. X(n3, 0, high) = high
    BY <1>1, <2>1, XorNothing
  <2> HIDE DEF X, n3
  <2> QED  BY <2>1, <2>2
<1>4. ASSUME NEW n \in Nat, NEW m \in Nat, <<n, m>> \in T
      PROVE  <<n + 1, 2 * m>> \in T
  <2> SUFFICES ASSUME NEW x \in Nat, n + 1 <= ByteBits, x < 2 * m
               PROVE  X(n3 + (n + 1), x, high * (2 * m)) = x + high * (2 * m)
    BY DEF T
  <2> DEFINE k == n3 + (n + 1)
             y == high * (2 * m)
             h == high * m
  <2>1. k \in 1..Width /\ k - 1 = n3 + n
    BY <1>2
  <2>2. h \in Nat /\ y = 2 * h
    OBVIOUS
  <2>3. x \div 2 \in Nat /\ x \div 2 < m /\ x = 2 * (x \div 2) + (x % 2) /\ x % 2 \in {0, 1}
    BY Halves
  <2>4. X(k - 1, x \div 2, h) = (x \div 2) + h
    <3>1. X(n3 + n, x \div 2, high * m) = (x \div 2) + high * m
      <4> HIDE DEF X, n3
      <4> QED  BY <1>2, <1>4, <2>3
    <3> QED  BY <2>1, <3>1
  <2> HIDE DEF h, y
  <2>5. y \in Nat /\ y \div 2 = h /\ (x + y) % 2 = x % 2
    BY <2>2
  <2>6. X(k, x, y) = ((x + y) % 2) + 2 * X(k - 1, x \div 2, y \div 2)
    <3> HIDE DEF k
    <3> QED  BY <1>1, <2>1, <2>5, XorBits
  <2> HIDE DEF X
  <2>7. X(k, x, y) = (x % 2) + 2 * ((x \div 2) + h)
    BY <2>4, <2>5, <2>6
  <2>8. X(k, x, y) = x + y
    BY <2>2, <2>3, <2>7
  <2> QED  BY <2>8 DEF k, y
<1>5. <<ByteBits, Radix>> \in T
  <2> HIDE DEF T
  <2> QED  BY <1>3, <1>4, WordDoubling
<1>6. low \in Nat /\ low < Radix /\ high * Radix \in Nat
  BY RadixType
<1>7. X(n3 + ByteBits, low, high * Radix) = low + high * Radix
  <2> HIDE DEF X, n3
  <2> QED  BY <1>2, <1>5, <1>6
<1>8. Xor(low, high * Radix) = X(Width, low, high * Radix)
  BY <1>1, <1>6 DEF Xors
<1> QED  BY <1>2, <1>7, <1>8

-----------------------------------------------------------------------------
(* Shifts lose nothing: a bit of the polynomial tells which bit went out. *)

LEMMA HalfWords ==
  /\ Byte \subseteq Word /\ Word \subseteq Nat /\ CrcMask \in Word
  /\ Poly \in Word /\ Half <= Poly
  /\ \A x \in Nat : x < Half => x \in Word /\ 2 * x \in Word
  /\ \A x \in Word : x \div 2 \in Word /\ x \div 2 \in Nat /\ x \div 2 < Half
<1>1. /\ CrcMask \in Nat /\ Half \in Nat \ {0} /\ 2 * Half = CrcMask + 1
      /\ Radix \in Nat \ {0} /\ Byte = 0..(Radix - 1)
  BY RadixType
<1>2. Radix <= CrcMask + 1
  <2> DEFINE c == Radix * Radix * Radix
  <2>1. c \in Nat \ {0}
    <3>1. \A r, q \in Nat \ {0} : r * q \in Nat \ {0}
      OBVIOUS
    <3> HIDE DEF Radix
    <3>2. Radix * Radix \in Nat \ {0}
      BY <1>1, <3>1
    <3> QED  BY <1>1, <3>1, <3>2
  <2>2. CrcMask + 1 = c * Radix
    <3>1. \A x \in Int : (x - 1) + 1 = x
      OBVIOUS
    <3> HIDE DEF Radix, c
    <3>2. CrcMask = c * Radix - 1
      BY DEF CrcMask, c
    <3> QED  BY <1>1, <2>1, <3>1, <3>2
  <2>3. \A x, y \in Nat \ {0} : y <= x * y
    OBVIOUS
  <2> HIDE DEF c, Radix
  <2> QED  BY <1>1, <2>1, <2>2, <2>3
<1>3. Poly \in 0..CrcMask /\ 2 * Poly > CrcMask
  BY FormatAssumption
<1> HIDE DEF Half, CrcMask, Radix
<1>4. Half <= Poly
  BY <1>1, <1>3
<1>5. \A x \in Nat : x < Half => x \in Word /\ 2 * x \in Word
  BY <1>1 DEF Word
<1>6. ASSUME NEW x \in Word
      PROVE  x \div 2 \in Word /\ x \div 2 \in Nat /\ x \div 2 < Half
  <2>1. x \in Nat /\ x < 2 * Half
    BY <1>1 DEF Word
  <2>2. x \div 2 \in Nat /\ x \div 2 < Half
    BY <1>1, <2>1, Halves
  <2> QED  BY <1>5, <2>2
<1> QED  BY <1>1, <1>2, <1>3, <1>4, <1>5, <1>6 DEF Word

LEMMA ShiftType ==
  ASSUME NEW c \in Word
  PROVE  Shift(c) \in Word
BY HalfWords, WordXor DEF Shift

LEMMA ShiftKeeps ==
  ASSUME NEW c \in Word, NEW d \in Word, Shift(c) = Shift(d)
  PROVE  c = d
<1> DEFINE c2 == c \div 2
           d2 == d \div 2
<1>1. /\ c2 \in Word /\ c2 \in Nat /\ c2 < Half /\ d2 \in Word /\ d2 \in Nat /\ d2 < Half
      /\ Poly \in Word /\ Half <= Poly /\ c \in Nat /\ d \in Nat /\ Poly \in Nat
  BY HalfWords
<1>2. /\ c % 2 \in {0, 1} /\ c = 2 * c2 + (c % 2)
      /\ d % 2 \in {0, 1} /\ d = 2 * d2 + (d % 2)
  BY <1>1, Halves
<1>3. /\ Shift(c) = IF c % 2 = 1 THEN Xor(Poly, c2) ELSE c2
      /\ Shift(d) = IF d % 2 = 1 THEN Xor(Poly, d2) ELSE d2
  BY DEF Shift
<1> HIDE DEF c2, d2
<1>4. ASSUME NEW x \in Nat, NEW y \in Nat, x < Half, y < Half
      PROVE  Xor(Poly, x) # y
  <2>1. x \in Word /\ y \in Word
    BY <1>4, HalfWords
  <2>2. SUFFICES ASSUME Xor(Poly, x) = y
                 PROVE  FALSE
    OBVIOUS
  <2>3. Poly = Xor(x, y)
    BY <1>1, <2>1, <2>2, WordXor
  <2>4. Half \in Nat /\ Xor(x, y) < Half
    BY <1>4, XorBound, RadixType
  <2> QED  BY <1>1, <2>3, <2>4
<1>5. c % 2 = d % 2
  <2>1. Xor(Poly, c2) # d2 /\ Xor(Poly, d2) # c2
    BY <1>1, <1>4
  <2>2. (c % 2 = 1) <=> (d % 2 = 1)
    BY <1>3, <2>1
  <2> QED  BY <1>2, <2>2
<1>6. c2 = d2
  <2>1. CASE c % 2 = 1
    BY <1>1, <1>3, <1>5, <2>1, XorCancels
  <2>2. CASE c % 2 # 1
    BY <1>3, <1>5, <2>2
  <2> QED  BY <2>1, <2>2
<1> QED  BY <1>2, <1>5, <1>6

\* A bit that is not the lowest goes through a shift as it is.
LEMMA ShiftXor ==
  ASSUME NEW c \in Word, NEW h \in Nat, h < Half
  PROVE  Shift(Xor(c, 2 * h)) = Xor(Shift(c), h)
<1> DEFINE c2 == c \div 2
           w == Xor(c, 2 * h)
<1>1. /\ c2 \in Word /\ Poly \in Word /\ h \in Word /\ 2 * h \in Word /\ w \in Word
      /\ c \in Nat /\ c2 \in Nat /\ Poly \in Nat
  BY HalfWords, WordXor
<1>2. (2 * h) \div 2 = h /\ (c + 2 * h) % 2 = c % 2
  BY <1>1
<1>3. w % 2 = c % 2 /\ w \div 2 = Xor(c2, h)
  BY <1>1, <1>2, XorHalves
<1>4. Shift(c) = IF c % 2 = 1 THEN Xor(Poly, c2) ELSE c2
  BY DEF Shift
<1>5. Shift(w) = IF c % 2 = 1 THEN Xor(Poly, Xor(c2, h)) ELSE Xor(c2, h)
  BY <1>3 DEF Shift
<1>6. Xor(Xor(Poly, c2), h) = Xor(Poly, Xor(c2, h))
  BY <1>1, XorLaws
<1> HIDE DEF c2
<1> QED  BY <1>4, <1>5, <1>6

\* A word shifted as often as a byte has bits, as a table for every number of shifts.
Shifts(f) ==
    /\ f \in [0..ByteBits -> [Word -> Word]]
    /\ \A c \in Word : f[0][c] = c
    /\ \A k \in 1..ByteBits, c \in Word : f[k][c] = Shift(f[k - 1][c])

LEMMA ShiftTable == \E f : Shifts(f)
<1> DEFINE n == ByteBits
           S == [Word -> Word]
           base == [c \in Word |-> c]
           step == [k \in 1..n |-> [v \in S |-> [c \in Word |-> Shift(v[c])]]]
<1>1. n \in Nat /\ base \in S
  BY RadixType
<1>2. Steps(step, n, S)
  <2> SUFFICES ASSUME NEW k \in 1..n, NEW v \in S
               PROVE  step[k][v] \in S
    BY DEF Steps
  <2>1. \A c \in Word : Shift(v[c]) \in Word
    BY ShiftType
  <2>2. step[k][v] = [c \in Word |-> Shift(v[c])]
    OBVIOUS
  <2> QED  BY <2>1, <2>2
<1>3. PICK f : Recursion(f, base, step, n, S)
  <2> HIDE DEF step, base, n, S
  <2> QED  BY <1>1, <1>2, FiniteRecursion
<1>4. f \in [0..n -> S] /\ f[0] = base /\ \A k \in 1..n : f[k] = step[k][f[k - 1]]
  BY <1>3 DEF Recursion
<1>5. ASSUME NEW k \in 1..n, NEW c \in Word
      PROVE  f[k][c] = Shift(f[k - 1][c])
  <2>1. k - 1 \in 0..n
    BY <1>1
  <2>2. f[k - 1] \in S /\ f[k] = step[k][f[k - 1]]
    BY <1>4, <2>1
  <2> QED  BY <2>2
<1>6. Shifts(f)
  BY <1>4, <1>5 DEF Shifts
<1> QED  BY <1>6

LEMMA ShiftsType ==
  ASSUME NEW f, Shifts(f), NEW k \in 0..ByteBits, NEW c \in Word
  PROVE  f[k][c] \in Word
BY DEF Shifts

LEMMA ShiftsKeep ==
  ASSUME NEW f, Shifts(f), NEW c \in Word, NEW d \in Word, f[ByteBits][c] = f[ByteBits][d]
  PROVE  c = d
<1> DEFINE Good == {k \in 0..ByteBits : f[k][c] = f[k][d] => c = d}
<1>1. ByteBits \in Nat
  BY RadixType
<1>2. 0 \in Good
  BY <1>1 DEF Shifts
<1>3. ASSUME NEW k \in (0 + 1)..ByteBits, k - 1 \in Good
      PROVE  k \in Good
  <2>1. k \in 1..ByteBits /\ k \in 0..ByteBits /\ k - 1 \in 0..ByteBits
    BY <1>1
  <2>2. f[k - 1][c] \in Word /\ f[k - 1][d] \in Word
    BY <2>1, ShiftsType
  <2>3. f[k][c] = Shift(f[k - 1][c]) /\ f[k][d] = Shift(f[k - 1][d])
    BY <2>1 DEF Shifts
  <2> QED  BY <1>3, <2>1, <2>2, <2>3, ShiftKeeps
<1>4. \A k \in 0..ByteBits : k \in Good
  <2> HIDE DEF Good
  <2> QED  BY <1>1, <1>2, <1>3, Induction
<1>5. ByteBits \in Good
  BY <1>1, <1>4
<1> QED  BY <1>5

\* The bits above a byte go through all its shifts as they are.
LEMMA ShiftsXor ==
  ASSUME NEW f, Shifts(f), NEW c \in Word, NEW high \in Nat, high * Radix \in Word
  PROVE  f[ByteBits][Xor(c, high * Radix)] = Xor(f[ByteBits][c], high)
<1> DEFINE Good == {k \in 0..ByteBits :
                      \A h \in Nat : h * 2 ^ k \in Word =>
                         f[k][Xor(c, h * 2 ^ k)] = Xor(f[k][c], h)}
<1>1. ByteBits \in Nat
  BY RadixType
<1>2. 0 \in Good
  <2> SUFFICES ASSUME NEW h \in Nat, h * 2 ^ 0 \in Word
               PROVE  f[0][Xor(c, h * 2 ^ 0)] = Xor(f[0][c], h)
    BY <1>1
  <2>1. h * 2 ^ 0 = h
    OBVIOUS
  <2>2. h \in Word /\ Xor(c, h) \in Word
    BY <2>1, WordXor
  <2> QED  BY <2>1, <2>2 DEF Shifts
<1>3. ASSUME NEW k \in (0 + 1)..ByteBits, k - 1 \in Good
      PROVE  k \in Good
  <2>1. k \in 1..ByteBits /\ k \in 0..ByteBits /\ k - 1 \in 0..ByteBits
    BY <1>1
  <2> SUFFICES ASSUME NEW h \in Nat, h * 2 ^ k \in Word
               PROVE  f[k][Xor(c, h * 2 ^ k)] = Xor(f[k][c], h)
    BY <2>1
  <2> DEFINE p == 2 ^ (k - 1)
             q == 2 ^ k
  <2>2. q = 2 * p /\ p \in Nat \ {0}
    BY <2>1, PowerAssumption, PowerType
  <2>3. \A g \in Nat : g * p \in Word => f[k - 1][Xor(c, g * p)] = Xor(f[k - 1][c], g)
    BY <1>3
  <2> HIDE DEF p, q
  <2>4. (2 * h) * p = h * q /\ 2 * h \in Nat
    BY <2>2
  <2>5. h * q \in Word
    BY DEF q
  <2>6. f[k - 1][Xor(c, h * q)] = Xor(f[k - 1][c], 2 * h)
    BY <2>3, <2>4, <2>5
  <2>7. h < Half
    <3>1. h <= h * p /\ h * p \in Nat /\ h * q = 2 * (h * p)
      <4>1. \A x \in Nat, y \in Nat \ {0} : x <= x * y
        OBVIOUS
      <4> QED  BY <2>2, <4>1
    <3>2. h * q <= CrcMask /\ CrcMask \in Nat /\ Half \in Nat /\ 2 * Half = CrcMask + 1
      BY <2>5, RadixType DEF Word
    <3> HIDE DEF Half, CrcMask
    <3> QED  BY <3>1, <3>2
  <2>8. Xor(c, h * q) \in Word /\ f[k - 1][c] \in Word
    BY <2>1, <2>5, ShiftsType, WordXor
  <2>9. /\ f[k][Xor(c, h * q)] = Shift(f[k - 1][Xor(c, h * q)])
        /\ f[k][c] = Shift(f[k - 1][c])
    BY <2>1, <2>8 DEF Shifts
  <2>10. Shift(Xor(f[k - 1][c], 2 * h)) = Xor(Shift(f[k - 1][c]), h)
    BY <2>7, <2>8, ShiftXor
  <2>11. f[k][Xor(c, h * q)] = Xor(f[k][c], h)
    BY <2>6, <2>9, <2>10
  <2> QED  BY <2>11 DEF q
<1>4. \A k \in 0..ByteBits : k \in Good
  <2> HIDE DEF Good
  <2> QED  BY <1>1, <1>2, <1>3, Induction
<1>5. ByteBits \in Good
  <2> HIDE DEF Good
  <2> QED  BY <1>1, <1>4
<1> QED  BY <1>5 DEF Radix

-----------------------------------------------------------------------------
(* A step of the checksum, and all of its steps. *)

\* Quotient and remainder.
LEMMA Digits ==
  ASSUME NEW r \in Nat \ {0}, NEW m \in Nat
  PROVE  /\ m \div r \in Nat /\ m % r \in 0..(r - 1) /\ m = (m \div r) * r + (m % r)
         /\ \A a \in Nat, b \in 0..(r - 1) : m = a * r + b => m \div r = a /\ m % r = b
<1> DEFINE q == m \div r
           c == m % r
<1>1. q \in Nat /\ c \in 0..(r - 1) /\ m = q * r + c
  OBVIOUS
<1> HIDE DEF q, c
<1>2. ASSUME NEW a \in Nat, NEW b \in 0..(r - 1), m = a * r + b
      PROVE  q = a /\ c = b
  <2>1. ASSUME NEW x \in Nat, NEW y \in Nat, x < y
        PROVE  x * r + r <= y * r
    <3>1. (x + 1) * r <= y * r
      BY <2>1
    <3> QED  BY <3>1
  <2>2. a * r \in Nat /\ q * r \in Nat
    BY <1>1
  <2>3. ~ (a < q) /\ ~ (q < a)
    BY <1>1, <1>2, <2>1, <2>2
  <2>4. a = q
    BY <1>1, <2>3
  <2> QED  BY <1>1, <1>2, <2>2, <2>4
<1> QED  BY <1>1, <1>2 DEF q, c

\* The table holds what the shifts of a byte come to.
LEMMA TableIsShifts ==
  ASSUME NEW f, Shifts(f), NEW i \in Byte
  PROVE  CrcTable[i] = f[ByteBits][i]
<1> DEFINE n == ByteBits
           body(h) == [j \in 0..n |-> IF j = 0 THEN i ELSE Shift(h[j - 1])]
           F == CHOOSE h : h = body(h)
           g == [j \in 0..n |-> f[j][i]]
<1>1. n \in Nat /\ i \in Word
  BY HalfWords, RadixType
<1>2. CrcTable[i] = F[n]
  BY DEF CrcTable
<1>3. g = body(g)
  <2>1. ASSUME NEW j \in 0..n
        PROVE  g[j] = IF j = 0 THEN i ELSE Shift(g[j - 1])
    <3>1. CASE j = 0
      BY <1>1, <3>1 DEF Shifts
    <3>2. CASE j # 0
      <4>1. j \in 1..n /\ j - 1 \in 0..n
        BY <1>1, <3>2
      <4>2. f[j][i] = Shift(f[j - 1][i])
        BY <1>1, <4>1 DEF Shifts
      <4> QED  BY <3>2, <4>1, <4>2
    <3> QED  BY <3>1, <3>2
  <2> HIDE DEF n
  <2>2. body(g) = [j \in 0..n |-> g[j]]
    BY <2>1
  <2> QED  BY <2>2
<1>4. F = body(F)
  BY <1>3
<1> HIDE DEF F
<1>5. \A j \in 0..n : F[j] = IF j = 0 THEN i ELSE Shift(F[j - 1])
  BY <1>4
<1> DEFINE Good == {j \in 0..n : F[j] = f[j][i]}
<1>6. 0 \in Good
  BY <1>1, <1>5 DEF Shifts
<1>7. ASSUME NEW j \in (0 + 1)..n, j - 1 \in Good
      PROVE  j \in Good
  <2>1. j \in 1..n /\ j \in 0..n /\ j # 0
    BY <1>1, <1>7
  <2>2. F[j] = Shift(F[j - 1]) /\ f[j][i] = Shift(f[j - 1][i])
    BY <1>1, <1>5, <2>1 DEF Shifts
  <2> QED  BY <1>7, <2>1, <2>2
<1>8. \A j \in 0..n : j \in Good
  <2> HIDE DEF Good
  <2> QED  BY <1>1, <1>6, <1>7, Induction
<1> QED  BY <1>1, <1>2, <1>8

\* A step shifts the whole word, with the byte in it, as often as a byte has bits.
LEMMA FeedIsShifts ==
  ASSUME NEW f, Shifts(f), NEW crc \in Word, NEW byte \in Byte
  PROVE  Xor(crc, byte) \in Word /\ Feed(crc, byte) = f[ByteBits][Xor(crc, byte)]
<1> DEFINE r == Radix
           r3 == Radix * Radix * Radix
           low == crc % r
           high == crc \div r
           mix == Xor(low, byte)
<1>1. /\ r \in Nat \ {0} /\ Byte = 0..(r - 1) /\ crc \in Nat /\ byte \in Nat /\ byte < r
      /\ byte \in Word /\ CrcMask \in Nat /\ ByteBits \in 0..ByteBits
  BY HalfWords, RadixType
<1>2. r3 \in Nat /\ CrcMask + 1 = r3 * r
  <2>1. r3 \in Nat
    <3>1. \A x \in Nat : x * x * x \in Nat
      OBVIOUS
    <3> QED  BY <1>1, <3>1
  <2>2. \A x \in Int : (x - 1) + 1 = x
    OBVIOUS
  <2>3. CrcMask = r3 * r - 1
    BY DEF CrcMask
  <2> HIDE DEF r3, r
  <2> QED  BY <1>1, <2>1, <2>2, <2>3
<1> HIDE DEF r3
<1>3. high \in Nat /\ low \in Byte /\ crc = high * r + low
  <2> HIDE DEF r
  <2> QED  BY <1>1, Digits
<1> HIDE DEF low, high
<1>4. high < r3
  <2>1. high * r < r3 * r /\ high * r \in Nat
    <3>1. high * r \in Nat /\ crc < CrcMask + 1
      BY <1>1, <1>3 DEF Word
    <3> QED  BY <1>1, <1>2, <1>3, <3>1
  <2>2. ASSUME high >= r3
        PROVE  high * r >= r3 * r
    BY <1>1, <1>2, <1>3, <2>2
  <2> HIDE DEF r
  <2> QED  BY <1>1, <1>2, <1>3, <2>1, <2>2
<1>5. low \in Nat /\ low < r /\ low \in Word
  BY <1>1, <1>3, HalfWords
<1>6. mix \in Nat /\ mix < r
  BY <1>1, <1>5, XorBound, XorLaws DEF r
<1> HIDE DEF mix
<1>7. mix \in 0..(r - 1) /\ mix \in Byte /\ mix \in Word
  <2>1. mix \in 0..(r - 1)
    <3> HIDE DEF r
    <3> QED  BY <1>1, <1>6
  <2> QED  BY <1>1, <2>1, HalfWords
<1>8. high * r \in Nat /\ high * r \in Word
  <2>1. high * r \in Nat /\ high * r <= crc
    BY <1>1, <1>3
  <2> QED  BY <1>1, <2>1 DEF Word
<1>9. crc = Xor(low, high * r)
  <2>1. Xor(low, high * r) = low + high * r
    BY <1>3, <1>4, XorSplit DEF r3
  <2> HIDE DEF r
  <2> QED  BY <1>3, <1>5, <1>8, <2>1
<1>10. Xor(crc, byte) = Xor(mix, high * r)
  <2>1. Xor(Xor(low, high * r), byte) = Xor(low, Xor(high * r, byte))
    BY <1>1, <1>5, <1>8, XorLaws
  <2>2. Xor(high * r, byte) = Xor(byte, high * r)
    BY <1>1, <1>8, XorLaws
  <2>3. Xor(mix, high * r) = Xor(low, Xor(byte, high * r))
    BY <1>1, <1>5, <1>8, XorLaws DEF mix
  <2> QED  BY <1>9, <2>1, <2>2, <2>3
<1>11. Xor(mix, high * r) = high * r + mix
  <2>1. Xor(mix, high * r) = mix + high * r
    BY <1>3, <1>4, <1>7, XorSplit DEF r3
  <2> HIDE DEF r
  <2> QED  BY <1>6, <1>8, <2>1
<1>12. Xor(crc, byte) % Radix = mix
  <2>1. Xor(crc, byte) \in Nat /\ Xor(crc, byte) = high * r + mix
    BY <1>1, <1>10, <1>11, XorLaws
  <2> DEFINE w == Xor(crc, byte)
  <2> HIDE DEF r, w
  <2>2. ASSUME NEW q \in Nat \ {0}, NEW m \in Nat, NEW a \in Nat, NEW b \in 0..(q - 1),
               m = a * q + b
        PROVE  m % q = b
    BY <2>2, Digits
  <2>3. w \in Nat /\ w = high * r + mix
    BY <2>1 DEF w
  <2>4. w % r = mix
    BY <1>1, <1>3, <1>7, <2>2, <2>3
  <2> QED  BY <2>4 DEF r, w
<1>13. CrcTable[mix] = f[ByteBits][mix]
  BY <1>7, TableIsShifts
<1>14. f[ByteBits][Xor(mix, high * r)] = Xor(f[ByteBits][mix], high)
  BY <1>3, <1>7, <1>8, ShiftsXor DEF r
<1>15. Feed(crc, byte) = Xor(CrcTable[mix], high)
  BY <1>12 DEF Feed, high
<1>16. Xor(crc, byte) \in Word
  BY <1>1, WordXor
<1> QED  BY <1>10, <1>13, <1>14, <1>15, <1>16

\* A step loses neither what it starts from nor the byte.
LEMMA FeedKeeps ==
  ASSUME NEW crc \in Word, NEW byte \in Byte
  PROVE  /\ Feed(crc, byte) \in Word
         /\ \A other \in Word : Feed(other, byte) = Feed(crc, byte) => other = crc
         /\ \A other \in Byte : Feed(crc, other) = Feed(crc, byte) => other = byte
<1>1. PICK f : Shifts(f)
  BY ShiftTable
<1>2. byte \in Word /\ ByteBits \in 0..ByteBits
  BY HalfWords, RadixType
<1>3. Xor(crc, byte) \in Word /\ Feed(crc, byte) = f[ByteBits][Xor(crc, byte)]
  BY <1>1, FeedIsShifts
<1>4. Feed(crc, byte) \in Word
  BY <1>1, <1>2, <1>3, ShiftsType
<1>5. ASSUME NEW other \in Word, Feed(other, byte) = Feed(crc, byte)
      PROVE  other = crc
  <2>1. Xor(other, byte) \in Word /\ Feed(other, byte) = f[ByteBits][Xor(other, byte)]
    BY <1>1, FeedIsShifts
  <2>2. Xor(other, byte) = Xor(crc, byte)
    BY <1>1, <1>3, <1>5, <2>1, ShiftsKeep
  <2>3. Xor(byte, other) = Xor(byte, crc)
    BY <1>2, <2>2, WordXor
  <2> QED  BY <1>2, <2>3, XorCancels
<1>6. ASSUME NEW other \in Byte, Feed(crc, other) = Feed(crc, byte)
      PROVE  other = byte
  <2>1. Xor(crc, other) \in Word /\ Feed(crc, other) = f[ByteBits][Xor(crc, other)]
    BY <1>1, FeedIsShifts
  <2>2. Xor(crc, other) = Xor(crc, byte)
    BY <1>1, <1>3, <1>6, <2>1, ShiftsKeep
  <2>3. other \in Word
    BY HalfWords
  <2> QED  BY <1>2, <2>2, <2>3, XorCancels
<1> QED  BY <1>4, <1>5, <1>6

\* The words a checksum goes through.
CrcSteps(f, bytes) ==
    /\ f[0] = CrcMask
    /\ \A k \in 0..Len(bytes) : f[k] \in Word
    /\ \A k \in 1..Len(bytes) : f[k] = Feed(f[k - 1], bytes[k])
    /\ Crc(bytes) = Xor(f[Len(bytes)], CrcMask)

LEMMA CrcTaken ==
  ASSUME NEW bytes \in Seq(Byte)
  PROVE  \E f : CrcSteps(f, bytes)
<1> DEFINE n == Len(bytes)
           body(h) == [k \in 0..n |-> IF k = 0 THEN CrcMask ELSE Feed(h[k - 1], bytes[k])]
           step == [k \in 1..n |-> [c \in Word |-> Feed(c, bytes[k])]]
           F == CHOOSE h : h = body(h)
<1>1. n \in Nat /\ CrcMask \in Word /\ \A k \in 1..n : bytes[k] \in Byte
  <2>1. \A k \in 1..n : bytes[k] \in Byte
    OBVIOUS
  <2> QED  BY <2>1, HalfWords
<1>2. Crc(bytes) = Xor(F[n], CrcMask)
  BY DEF Crc
<1> HIDE DEF n
<1>3. Steps(step, n, Word)
  BY <1>1, FeedKeeps DEF Steps
<1>4. PICK f : Recursion(f, CrcMask, step, n, Word)
  <2> HIDE DEF step
  <2> QED  BY <1>1, <1>3, FiniteRecursion
<1>5. f = body(f)
  <2>1. f \in [0..n -> Word] /\ f[0] = CrcMask /\ \A k \in 1..n : f[k] = step[k][f[k - 1]]
    BY <1>4 DEF Recursion
  <2>2. ASSUME NEW k \in 0..n, k # 0
        PROVE  f[k] = Feed(f[k - 1], bytes[k])
    <3>1. k \in 1..n /\ k - 1 \in 0..n
      BY <1>1, <2>2
    <3>2. f[k - 1] \in Word
      BY <2>1, <3>1
    <3> QED  BY <2>1, <3>1, <3>2
  <2> QED  BY <2>1, <2>2
<1>6. F = body(F)
  BY <1>5
<1> HIDE DEF F
<1>7. \A k \in 0..n : F[k] = IF k = 0 THEN CrcMask ELSE Feed(F[k - 1], bytes[k])
  BY <1>6
<1>8. F[0] = CrcMask /\ \A k \in 1..n : F[k] = Feed(F[k - 1], bytes[k])
  BY <1>1, <1>7
<1>9. \A k \in 0..n : F[k] \in Word
  <2>1. F[0] \in Word
    BY <1>1, <1>8
  <2>2. \A k \in 1..n : F[k - 1] \in Word => F[k] = step[k][F[k - 1]]
    BY <1>8
  <2> HIDE DEF step
  <2> QED  BY <1>1, <1>3, <2>1, <2>2, RecursionType
<1> QED  BY <1>2, <1>8, <1>9 DEF CrcSteps, n

LEMMA CrcType ==
  ASSUME NEW bytes \in Seq(Byte)
  PROVE  Crc(bytes) \in Word /\ Crc(bytes) \in Nat
<1>1. PICK f : CrcSteps(f, bytes)
  BY CrcTaken
<1>2. Len(bytes) \in 0..Len(bytes)
  OBVIOUS
<1>3. f[Len(bytes)] \in Word /\ Crc(bytes) = Xor(f[Len(bytes)], CrcMask)
  BY <1>1, <1>2 DEF CrcSteps
<1>4. CrcMask \in Word /\ Word \subseteq Nat
  BY HalfWords
<1>5. Xor(f[Len(bytes)], CrcMask) \in Word
  BY <1>3, <1>4, WordXor
<1> QED  BY <1>3, <1>4, <1>5

\* Payloads of one length that differ in exactly one byte have different checksums: crc32 of
\* codec.ts never misses a single damaged byte.
THEOREM CrcSeesOne ==
  ASSUME NEW s \in Seq(Byte), NEW t \in Seq(Byte), Len(s) = Len(t),
         NEW j \in 1..Len(s), s[j] # t[j], \A i \in 1..Len(s) : i # j => s[i] = t[i]
  PROVE  Crc(s) # Crc(t)
<1>1. PICK f : CrcSteps(f, s)
  BY CrcTaken
<1>2. PICK g : CrcSteps(g, t)
  BY CrcTaken
<1>0. ASSUME NEW c \in Word, NEW d \in Word, NEW x \in Byte, NEW y \in Byte
      PROVE  (c # d => Feed(c, x) # Feed(d, x)) /\ (x # y => Feed(c, x) # Feed(c, y))
  BY FeedKeeps
<1> DEFINE n == Len(s)
           Good == {k \in 0..n : IF k < j THEN f[k] = g[k] ELSE f[k] # g[k]}
<1>3. n \in Nat /\ Len(t) = n /\ j \in 1..n
  OBVIOUS
<1>4. ASSUME NEW k \in 1..n
      PROVE  /\ s[k] \in Byte /\ t[k] \in Byte
             /\ f[k - 1] \in Word /\ g[k - 1] \in Word
             /\ f[k] = Feed(f[k - 1], s[k]) /\ g[k] = Feed(g[k - 1], t[k])
             /\ k # j => s[k] = t[k]
  <2>1. k - 1 \in 0..n
    BY <1>3
  <2> QED  BY <1>1, <1>2, <1>3, <2>1 DEF CrcSteps
<1> HIDE DEF n
<1>5. 0 \in Good
  BY <1>1, <1>2, <1>3 DEF CrcSteps
<1>6. ASSUME NEW k \in (0 + 1)..n, k - 1 \in Good
      PROVE  k \in Good
  <2>1. k \in 1..n /\ k \in 0..n
    BY <1>3
  <2>2. CASE k < j
    <3>1. k - 1 < j /\ k # j
      BY <1>3, <2>1, <2>2
    <3>2. f[k - 1] = g[k - 1] /\ s[k] = t[k]
      BY <1>4, <1>6, <2>1, <3>1
    <3> QED  BY <1>4, <2>1, <2>2, <3>2
  <2>3. CASE k = j
    <3>1. k - 1 < j /\ ~ (k < j)
      BY <1>3, <2>1, <2>3
    <3>2. f[k - 1] = g[k - 1] /\ s[k] # t[k]
      BY <1>6, <2>3, <3>1
    <3>3. Feed(f[k - 1], s[k]) # Feed(f[k - 1], t[k])
      BY <1>0, <1>4, <2>1, <3>2
    <3>4. f[k] # g[k]
      BY <1>4, <2>1, <3>2, <3>3
    <3> QED  BY <2>1, <3>1, <3>4
  <2>4. CASE k > j
    <3>1. ~ (k - 1 < j) /\ ~ (k < j) /\ k # j
      BY <1>3, <2>1, <2>4
    <3>2. f[k - 1] # g[k - 1] /\ s[k] = t[k]
      BY <1>4, <1>6, <2>1, <3>1
    <3>3. Feed(f[k - 1], s[k]) # Feed(g[k - 1], s[k])
      BY <1>0, <1>4, <2>1, <3>2
    <3>4. f[k] # g[k]
      BY <1>4, <2>1, <3>2, <3>3
    <3> QED  BY <2>1, <3>1, <3>4
  <2> QED  BY <1>3, <2>1, <2>2, <2>3, <2>4
<1>7. \A k \in 0..n : k \in Good
  <2> HIDE DEF Good
  <2> QED  BY <1>3, <1>5, <1>6, Induction
<1>8. f[n] # g[n] /\ f[n] \in Word /\ g[n] \in Word
  <2>1. n \in 0..n /\ ~ (n < j)
    BY <1>3
  <2> QED  BY <1>1, <1>2, <1>3, <1>7, <2>1 DEF CrcSteps, n
<1>9. Crc(s) = Xor(f[n], CrcMask) /\ Crc(t) = Xor(g[n], CrcMask)
  BY <1>1, <1>2, <1>3 DEF CrcSteps, n
<1>10. CrcMask \in Word
  BY HalfWords
<1>11. Crc(s) = Xor(CrcMask, f[n]) /\ Crc(t) = Xor(CrcMask, g[n])
  BY <1>8, <1>9, <1>10, WordXor
<1> QED  BY <1>8, <1>10, <1>11, XorCancels

\* Words with the same four bytes are the same.
LEMMA Uint32Keeps ==
  ASSUME NEW m \in Word, NEW n \in Word, Uint32(m) = Uint32(n)
  PROVE  m = n
<1> DEFINE r == Radix
           r2 == r * r
           d1(w) == w \div r
           d2(w) == w \div r2
           d3(w) == d2(w) \div r
<1>1. r \in Nat \ {0} /\ r2 \in Nat \ {0} /\ CrcMask = r * r * r * r - 1 /\ CrcMask \in Nat
  <2>1. \A x \in Nat \ {0} : x * x \in Nat \ {0}
    OBVIOUS
  <2>2. r \in Nat \ {0}
    BY RadixType
  <2> HIDE DEF r
  <2>3. r2 \in Nat \ {0}
    BY <2>1, <2>2
  <2> QED  BY <2>2, <2>3, RadixType DEF CrcMask, r
<1>2. ASSUME NEW w \in Word
      PROVE  Uint32(w) = <<d3(w) % r, d2(w) % r, d1(w) % r, w % r>>
  <2>1. Uint32(w) = <<d3(w) % r, d2(w) % r>> \o <<d1(w) % r, w % r>>
    BY DEF Uint32, Uint16
  <2>2. ASSUME NEW a, NEW b, NEW c, NEW d
        PROVE  <<a, b>> \o <<c, d>> = <<a, b, c, d>>
    <3> DEFINE S == {a, b, c, d}
               u == <<a, b>> \o <<c, d>>
    <3>1. <<a, b>> \in Seq(S) /\ <<c, d>> \in Seq(S) /\ Len(<<a, b>>) = 2 /\ Len(<<c, d>>) = 2
      OBVIOUS
    <3>2. u \in Seq(S) /\ Len(u) = 4
      BY <3>1
    <3>3. u[1] = a /\ u[2] = b /\ u[3] = c /\ u[4] = d
      BY <3>1
    <3> HIDE DEF S, u
    <3>4. u = <<a, b, c, d>>
      BY <3>2, <3>3
    <3> QED  BY <3>4 DEF u
  <2> HIDE DEF d1, d2, d3, r
  <2> QED  BY <2>1, <2>2
<1> HIDE DEF r
<1>3. ASSUME NEW w \in Word
      PROVE  /\ d1(w) \in Nat /\ d2(w) \in Nat /\ d3(w) \in Nat
             /\ w = d1(w) * r + (w % r)
             /\ d1(w) = d2(w) * r + (d1(w) % r)
             /\ d2(w) = d3(w) * r + (d2(w) % r)
             /\ d3(w) % r = d3(w)
  <2> DEFINE a == w \div r
             b == a \div r
             c == b \div r
             x == w % r
             y == a % r
             z == b % r
  <2>1. w \in Nat /\ w < r * r * r * r
    BY <1>1 DEF Word
  <2> HIDE DEF r2
  <2>2. a \in Nat /\ x \in 0..(r - 1) /\ w = a * r + x
    BY <1>1, <2>1, Digits
  <2> HIDE DEF a, x
  <2>3. b \in Nat /\ y \in 0..(r - 1) /\ a = b * r + y
    BY <1>1, <2>2, Digits
  <2> HIDE DEF b, y
  <2>4. c \in Nat /\ z \in 0..(r - 1) /\ b = c * r + z
    BY <1>1, <2>3, Digits
  <2> HIDE DEF c, z
  <2>5. w \div r2 = b
    <3> DEFINE e == y * r + x
    <3>1. e \in 0..(r2 - 1)
      <4>1. y * r <= (r - 1) * r /\ y * r \in Nat
        BY <1>1, <2>3
      <4>2. (r - 1) * r = r * r - r
        BY <1>1
      <4> QED  BY <1>1, <2>2, <4>1, <4>2 DEF r2
    <3>2. w = b * r2 + e
      <4>1. (b * r + y) * r = b * (r * r) + y * r
        BY <1>1, <2>3
      <4> QED  BY <1>1, <2>2, <2>3, <4>1 DEF r2
    <3> HIDE DEF e
    <3> QED  BY <1>1, <2>1, <2>3, <3>1, <3>2, Digits
  <2>6. c < r
    <3>1. SUFFICES ASSUME c >= r
                   PROVE  FALSE
      BY <1>1, <2>4
    <3>2. ASSUME NEW p \in Nat, NEW q \in Nat, NEW u \in Nat, NEW v \in 0..(r - 1),
                 p = q * r + v, q >= u
          PROVE  p >= u * r
      <4>1. q * r >= u * r /\ q * r \in Nat /\ u * r \in Nat
        BY <1>1, <3>2
      <4> QED  BY <3>2, <4>1
    <3>3. b >= r * r
      BY <1>1, <2>3, <2>4, <3>1, <3>2
    <3>4. a >= r * r * r /\ r * r \in Nat
      BY <1>1, <2>2, <2>3, <3>2, <3>3
    <3>5. r * r * r \in Nat
      BY <1>1, <3>4
    <3>6. w >= r * r * r * r
      BY <1>1, <2>1, <2>2, <3>2, <3>4, <3>5
    <3> QED  BY <1>1, <2>1, <3>6
  <2>7. c % r = c
    <3>1. c = 0 * r + c /\ c \in 0..(r - 1)
      BY <1>1, <2>4, <2>6
    <3> QED  BY <1>1, <2>4, <3>1, Digits
  <2> QED  BY <2>2, <2>3, <2>4, <2>5, <2>7 DEF a, b, c, x, y, z
<1> HIDE DEF d1, d2, d3
<1>4. /\ d3(m) % r = d3(n) % r /\ d2(m) % r = d2(n) % r
      /\ d1(m) % r = d1(n) % r /\ m % r = n % r
  BY <1>2
<1>5. d3(m) = d3(n)
  BY <1>3, <1>4
<1>6. d2(m) = d2(n)
  BY <1>3, <1>4, <1>5
<1>7. d1(m) = d1(n)
  BY <1>3, <1>4, <1>6
<1> QED  BY <1>3, <1>4, <1>7
=============================================================================

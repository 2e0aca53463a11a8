---------------------------- MODULE VsmarkProofs ----------------------------
(***************************************************************************)
(* Proofs about the text watermark, for every width of a byte, every       *)
(* placement of the selectors, every polynomial with a constant term and  *)
(* every text.                                                             *)
(***************************************************************************)
EXTENDS ChecksumProofs

-----------------------------------------------------------------------------
(* Bytes of a number, and selectors of a byte. *)

LEMMA Uint16Type ==
  ASSUME NEW n \in Nat
  PROVE  Uint16(n) \in Seq(Byte) /\ Len(Uint16(n)) = 2
<1>1. ASSUME NEW r \in Nat \ {0}, NEW x \in Nat
      PROVE  x % r \in 0..(r - 1) /\ x \div r \in Nat
  BY <1>1
<1>2. n \div Radix \in Nat /\ (n \div Radix) % Radix \in Byte /\ n % Radix \in Byte
  BY <1>1, RadixType
<1> QED  BY <1>2 DEF Uint16

LEMMA Uint32Type ==
  ASSUME NEW n \in Nat
  PROVE  Uint32(n) \in Seq(Byte) /\ Len(Uint32(n)) = 4
<1>1. ASSUME NEW r \in Nat \ {0}
      PROVE  r * r \in Nat \ {0} /\ n \div (r * r) \in Nat
  BY <1>1
<1>2. n \div (Radix * Radix) \in Nat
  BY <1>1, RadixType
<1>3. Uint16(n \div (Radix * Radix)) \in Seq(Byte) /\ Len(Uint16(n \div (Radix * Radix))) = 2
  BY <1>2, Uint16Type
<1>4. Uint16(n) \in Seq(Byte) /\ Len(Uint16(n)) = 2
  BY Uint16Type
<1>5. Uint32(n) = Uint16(n \div (Radix * Radix)) \o Uint16(n)
  BY DEF Uint32
<1> DEFINE high == Uint16(n \div (Radix * Radix))
           low == Uint16(n)
<1> HIDE DEF high, low
<1>6. high \in Seq(Byte) /\ Len(high) = 2 /\ low \in Seq(Byte) /\ Len(low) = 2
  BY <1>3, <1>4 DEF high, low
<1>7. high \o low \in Seq(Byte) /\ Len(high \o low) = 4
  BY <1>6, Joined
<1> QED  BY <1>5, <1>7 DEF high, low

\* What Uint16 writes is what PayloadLength reads.
LEMMA LengthRoundTrip ==
  ASSUME NEW n \in 0..MaxPayload
  PROVE  /\ Uint16(n)[1] * Radix + Uint16(n)[2] = n
         /\ \A a, b \in Byte : a * Radix + b = n => Uint16(n) = <<a, b>>
<1>1. ASSUME NEW r \in Nat \ {0, 1}, NEW m \in 0..(r * r - 1)
      PROVE  /\ ((m \div r) % r) * r + (m % r) = m
             /\ \A a, b \in 0..(r - 1) :
                  a * r + b = m => (m \div r) % r = a /\ m % r = b
  <2> DEFINE q == m \div r
  <2>1. q \in Nat /\ m % r \in 0..(r - 1) /\ m = q * r + (m % r)
    BY <1>1
  <2> HIDE DEF q
  <2>2. q < r
    <3> SUFFICES ASSUME q >= r
                 PROVE  FALSE
      BY <1>1, <2>1
    <3>1. q * r >= r * r
      BY <1>1, <2>1
    <3> QED  BY <1>1, <2>1, <3>1
  <2>3. q % r = q
    BY <1>1, <2>1, <2>2
  <2>4. ASSUME NEW a \in 0..(r - 1), NEW b \in 0..(r - 1), a * r + b = m
        PROVE  q = a /\ m % r = b
    <3> DEFINE c == m % r
    <3>1. c \in 0..(r - 1) /\ a * r + b = q * r + c
      BY <2>1, <2>4
    <3> HIDE DEF c
    <3>2. \A x, y \in Nat : x < y => x * r + r <= y * r
      <4> SUFFICES ASSUME NEW x \in Nat, NEW y \in Nat, x < y
                   PROVE  x * r + r <= y * r
        OBVIOUS
      <4>1. (x + 1) * r <= y * r
        BY <1>1
      <4> QED  BY <1>1, <4>1
    <3>3. a * r \in Nat /\ q * r \in Nat /\ a \in Nat /\ b \in 0..(r - 1) /\ r \in Nat
      BY <1>1, <2>1, <2>4
    <3>4. ~ (a < q) /\ ~ (q < a)
      BY <2>1, <3>1, <3>2, <3>3
    <3>5. a = q
      BY <2>1, <3>3, <3>4
    <3> QED  BY <3>1, <3>3, <3>5 DEF c
  <2> QED  BY <2>1, <2>3, <2>4 DEF q
<1>2. Radix \in Nat \ {0, 1} /\ n \in 0..(Radix * Radix - 1) /\ Byte = 0..(Radix - 1)
  BY RadixType DEF MaxPayload
<1>3. Uint16(n)[1] = (n \div Radix) % Radix /\ Uint16(n)[2] = n % Radix
  BY DEF Uint16
<1> HIDE DEF Radix
<1>4. ((n \div Radix) % Radix) * Radix + (n % Radix) = n
  BY <1>1, <1>2
<1>5. ASSUME NEW a \in Byte, NEW b \in Byte, a * Radix + b = n
      PROVE  Uint16(n) = <<a, b>>
  <2>1. (n \div Radix) % Radix = a /\ n % Radix = b
    BY <1>1, <1>2, <1>5
  <2> QED  BY <2>1 DEF Uint16
<1> QED  BY <1>3, <1>4, <1>5

LEMMA SelectorRoundTrip ==
  ASSUME NEW byte \in Byte
  PROVE  /\ ByteToSelector(byte) \in Nat
         /\ SelectorToByte(ByteToSelector(byte)) = byte
  BY FormatAssumption, RadixType DEF ByteToSelector, SelectorToByte

LEMMA SelectorType ==
  ASSUME NEW cp \in Nat
  PROVE  SelectorToByte(cp) \in Byte \cup {NoByte} /\ NoByte \notin Byte
  BY FormatAssumption, RadixType DEF SelectorToByte, NoByte

-----------------------------------------------------------------------------
(* Blocks *)

\* What the checksum is a checksum of.
BlockHead(m) == Magic \o <<Version>> \o Uint16(Len(m)) \o m

LEMMA MagicType == Magic \in Seq(Byte) /\ Len(Magic) = 4 /\ Version \in Byte
<1>1. Magic \in UNION {[1..n -> Byte] : n \in Nat}
  BY FormatAssumption
<1>2. Magic \in Seq(Byte)
  BY <1>1, SeqDef
<1>3. Len(Magic) = 4
  BY <1>2, FormatAssumption, LenProperties
<1> QED  BY <1>2, <1>3, FormatAssumption

LEMMA BlockHeadShape ==
  ASSUME NEW m \in Seq(Byte)
  PROVE  /\ BlockHead(m) \in Seq(Byte) /\ Len(BlockHead(m)) = 7 + Len(m)
         /\ \A k \in 1..4 : BlockHead(m)[k] = Magic[k]
         /\ BlockHead(m)[5] = Version
         /\ BlockHead(m)[6] = Uint16(Len(m))[1] /\ BlockHead(m)[7] = Uint16(Len(m))[2]
         /\ \A k \in 1..Len(m) : BlockHead(m)[7 + k] = m[k]
<1> DEFINE one == <<Version>>
           two == Uint16(Len(m))
           five == Magic \o one
           seven == five \o two
<1>1. one \in Seq(Byte) /\ Len(one) = 1 /\ one[1] = Version
  BY MagicType
<1>2. two \in Seq(Byte) /\ Len(two) = 2
  BY Uint16Type
<1>3. BlockHead(m) = seven \o m
  BY DEF BlockHead
<1> HIDE DEF one, two, five, seven
<1>4. /\ five \in Seq(Byte) /\ Len(five) = 5
      /\ \A k \in 1..4 : five[k] = Magic[k]
      /\ five[5] = Version
  <2>1. five = Magic \o one
    BY DEF five
  <2>2. /\ five \in Seq(Byte) /\ Len(five) = 4 + 1
        /\ \A k \in 1..4 : five[k] = Magic[k]
        /\ \A k \in 1..1 : five[4 + k] = one[k]
    <3>0. Magic \in Seq(Byte) /\ one \in Seq(Byte)
      BY <1>1, MagicType
    <3>1. /\ Magic \o one \in Seq(Byte) /\ Len(Magic \o one) = Len(Magic) + Len(one)
          /\ \A k \in 1..Len(Magic) : (Magic \o one)[k] = Magic[k]
          /\ \A k \in 1..Len(one) : (Magic \o one)[Len(Magic) + k] = one[k]
      BY <3>0, Joined
    <3> QED  BY <1>1, <2>1, <3>1, MagicType
  <2>3. five[4 + 1] = one[1]
    BY <2>2
  <2> QED  BY <1>1, <2>2, <2>3
<1>5. /\ seven \in Seq(Byte) /\ Len(seven) = 7
      /\ \A k \in 1..5 : seven[k] = five[k]
      /\ seven[6] = two[1] /\ seven[7] = two[2]
  <2>1. seven = five \o two
    BY DEF seven
  <2>2. /\ seven \in Seq(Byte) /\ Len(seven) = 5 + 2
        /\ \A k \in 1..5 : seven[k] = five[k]
        /\ \A k \in 1..2 : seven[5 + k] = two[k]
    <3>0. five \in Seq(Byte) /\ two \in Seq(Byte)
      BY <1>2, <1>4
    <3>1. /\ five \o two \in Seq(Byte) /\ Len(five \o two) = Len(five) + Len(two)
          /\ \A k \in 1..Len(five) : (five \o two)[k] = five[k]
          /\ \A k \in 1..Len(two) : (five \o two)[Len(five) + k] = two[k]
      BY <3>0, Joined
    <3> QED  BY <1>2, <1>4, <2>1, <3>1
  <2>3. seven[5 + 1] = two[1] /\ seven[5 + 2] = two[2]
    BY <2>2
  <2> QED  BY <2>2, <2>3
<1>6. /\ seven \o m \in Seq(Byte) /\ Len(seven \o m) = 7 + Len(m)
      /\ \A k \in 1..7 : (seven \o m)[k] = seven[k]
      /\ \A k \in 1..Len(m) : (seven \o m)[7 + k] = m[k]
  <2>0. seven \in Seq(Byte) /\ m \in Seq(Byte)
    BY <1>5
  <2>1. /\ seven \o m \in Seq(Byte) /\ Len(seven \o m) = Len(seven) + Len(m)
        /\ \A k \in 1..Len(seven) : (seven \o m)[k] = seven[k]
        /\ \A k \in 1..Len(m) : (seven \o m)[Len(seven) + k] = m[k]
    BY <2>0, Joined
  <2> QED  BY <1>5, <2>1
<1> QED  BY <1>3, <1>4, <1>5, <1>6 DEF two

LEMMA BlockShape ==
  ASSUME NEW m \in Seq(Byte)
  PROVE  /\ Block(m) \in Seq(Byte) /\ Len(Block(m)) = 11 + Len(m)
         /\ \A k \in 1..(7 + Len(m)) : Block(m)[k] = BlockHead(m)[k]
         /\ \A k \in 1..4 : Block(m)[7 + Len(m) + k] = Uint32(Crc(BlockHead(m)))[k]
<1> DEFINE head == BlockHead(m)
           check == Uint32(Crc(head))
<1>1. head \in Seq(Byte) /\ Len(head) = 7 + Len(m)
  BY BlockHeadShape
<1>2. Block(m) = head \o check
  BY DEF Block, BlockHead
<1> HIDE DEF head
<1>3. check \in Seq(Byte) /\ Len(check) = 4
  BY <1>1, CrcType, Uint32Type
<1> HIDE DEF check
<1>4. Len(m) \in Nat
  OBVIOUS
<1>5. /\ head \o check \in Seq(Byte) /\ Len(head \o check) = 11 + Len(m)
      /\ \A k \in 1..(7 + Len(m)) : (head \o check)[k] = head[k]
      /\ \A k \in 1..4 : (head \o check)[7 + Len(m) + k] = check[k]
  <2> DEFINE n == Len(m)
             h == 7 + n
  <2>1. n \in Nat /\ Len(head) = h
    BY <1>1
  <2> HIDE DEF h
  <2>2. /\ head \o check \in Seq(Byte) /\ Len(head \o check) = h + 4
        /\ \A k \in 1..h : (head \o check)[k] = head[k]
        /\ \A k \in 1..4 : (head \o check)[h + k] = check[k]
    <3>0. head \in Seq(Byte) /\ check \in Seq(Byte)
      BY <1>1, <1>3
    <3>1. /\ head \o check \in Seq(Byte) /\ Len(head \o check) = Len(head) + Len(check)
          /\ \A k \in 1..Len(head) : (head \o check)[k] = head[k]
          /\ \A k \in 1..Len(check) : (head \o check)[Len(head) + k] = check[k]
      BY <3>0, Joined
    <3> QED  BY <1>3, <2>1, <3>1
  <2> QED  BY <2>1, <2>2 DEF h
<1> QED  BY <1>2, <1>5 DEF head, check

\* The block of m stands in the bytes from start on.
Sits(bytes, start, m) ==
    /\ start + 10 + Len(m) <= Len(bytes)
    /\ \A k \in 1..(11 + Len(m)) : bytes[start + k - 1] = Block(m)[k]

\* The four parts of a block in the bytes.
LEMMA SitsInParts ==
  ASSUME NEW bytes \in Seq(Byte), NEW start \in Nat \ {0}, NEW m \in Seq(Byte),
         start + 10 + Len(m) <= Len(bytes)
  PROVE  Sits(bytes, start, m) <=>
           /\ SubSeq(bytes, start, start + 3) = Magic
           /\ bytes[start + 4] = Version
           /\ bytes[start + 5] = Uint16(Len(m))[1] /\ bytes[start + 6] = Uint16(Len(m))[2]
           /\ SubSeq(bytes, start + 7, start + 6 + Len(m)) = m
           /\ SubSeq(bytes, start + 7 + Len(m), start + 10 + Len(m)) =
                Uint32(Crc(BlockHead(m)))
<1> DEFINE n == Len(m)
           block == Block(m)
           head == BlockHead(m)
           check == Uint32(Crc(head))
           length == Uint16(n)
<1>1. n \in Nat /\ Len(bytes) \in Nat /\ start + 10 + n <= Len(bytes)
  OBVIOUS
<1>2. /\ \A k \in 1..(7 + n) : block[k] = head[k]
      /\ \A k \in 1..4 : block[7 + n + k] = check[k]
  BY BlockShape
<1>3. /\ head \in Seq(Byte) /\ \A k \in 1..4 : head[k] = Magic[k]
      /\ head[5] = Version /\ head[6] = length[1] /\ head[7] = length[2]
      /\ \A k \in 1..n : head[7 + k] = m[k]
  BY BlockHeadShape
<1>4. check \in Seq(Byte) /\ Len(check) = 4
  BY <1>3, CrcType, Uint32Type
<1> DEFINE at == [k \in 1..(11 + n) |-> bytes[start + k - 1]]
<1>5. SubSeq(bytes, start, start + 3) = Magic <=> \A k \in 1..4 : at[k] = Magic[k]
  <2>1. SubSeq(bytes, start, start + 3) = Magic <=>
          \A k \in 1..4 : bytes[start + k - 1] = Magic[k]
    BY <1>1, MagicType, PartIs
  <2>2. \A k \in 1..4 : at[k] = bytes[start + k - 1]
    BY <1>1
  <2> HIDE DEF at
  <2> QED  BY <2>1, <2>2
<1>6. SubSeq(bytes, start + 7, start + 6 + n) = m <=> \A k \in 1..n : at[7 + k] = m[k]
  <2> DEFINE i == start + 7
             j == start + 6 + n
  <2>1. i \in Nat \ {0} /\ j \in Int /\ j = i + n - 1 /\ j <= Len(bytes)
    BY <1>1
  <2>2. ASSUME NEW k \in 1..n
        PROVE  at[7 + k] = bytes[i + k - 1]
    <3>1. 7 + k \in 1..(11 + n) /\ start + (7 + k) - 1 = i + k - 1
      BY <1>1
    <3> QED  BY <3>1
  <2> HIDE DEF i, j, at
  <2>3. SubSeq(bytes, i, j) = m <=> \A k \in 1..n : bytes[i + k - 1] = m[k]
    BY <1>1, <2>1, PartIs
  <2> QED  BY <2>2, <2>3 DEF i, j
<1>7. SubSeq(bytes, start + 7 + n, start + 10 + n) = check <=>
        \A k \in 1..4 : at[7 + n + k] = check[k]
  <2> DEFINE i == start + 7 + n
             j == start + 10 + n
  <2>1. i \in Nat \ {0} /\ j \in Int /\ j = i + 4 - 1 /\ j <= Len(bytes)
    BY <1>1
  <2>2. ASSUME NEW k \in 1..4
        PROVE  at[7 + n + k] = bytes[i + k - 1]
    <3>1. 7 + n + k \in 1..(11 + n) /\ start + (7 + n + k) - 1 = i + k - 1
      BY <1>1
    <3> QED  BY <3>1
  <2> HIDE DEF i, j, at, check
  <2>3. SubSeq(bytes, i, j) = check <=> \A k \in 1..4 : bytes[i + k - 1] = check[k]
    BY <1>4, <2>1, PartIs
  <2> QED  BY <2>2, <2>3 DEF i, j
<1>8. Sits(bytes, start, m) <=> \A k \in 1..(11 + n) : at[k] = block[k]
  <2>1. \A k \in 1..(11 + n) : at[k] = bytes[start + k - 1]
    OBVIOUS
  <2> HIDE DEF at, block
  <2> QED  BY <1>1, <2>1 DEF Sits, block
<1>9. bytes[start + 4] = at[5] /\ bytes[start + 5] = at[6] /\ bytes[start + 6] = at[7]
  <2>1. 5 \in 1..(11 + n) /\ 6 \in 1..(11 + n) /\ 7 \in 1..(11 + n)
    BY <1>1
  <2>2. at[5] = bytes[start + 5 - 1] /\ at[6] = bytes[start + 6 - 1]
          /\ at[7] = bytes[start + 7 - 1]
    BY <2>1
  <2>3. start + 5 - 1 = start + 4 /\ start + 6 - 1 = start + 5 /\ start + 7 - 1 = start + 6
    OBVIOUS
  <2> HIDE DEF at
  <2> QED  BY <2>2, <2>3
<1>10. n \in Nat
  BY <1>1
<1> HIDE DEF block, head, check, length, n, at
<1>11. (\A k \in 1..(11 + n) : at[k] = block[k]) <=>
        /\ \A k \in 1..4 : at[k] = Magic[k]
        /\ at[5] = Version /\ at[6] = length[1] /\ at[7] = length[2]
        /\ \A k \in 1..n : at[7 + k] = m[k]
        /\ \A k \in 1..4 : at[7 + n + k] = check[k]
  <2>1. /\ \A k \in 1..4 : block[k] = Magic[k]
        /\ block[5] = Version /\ block[6] = length[1] /\ block[7] = length[2]
        /\ \A k \in 1..n : block[7 + k] = m[k]
    <3>1. /\ \A k \in 1..7 : k \in 1..(7 + n)
          /\ \A k \in 1..n : 7 + k \in 1..(7 + n)
      BY <1>10
    <3>2. \A k \in 1..7 : block[k] = head[k]
      BY <1>2, <3>1
    <3>3. \A k \in 1..n : block[7 + k] = head[7 + k]
      BY <1>2, <3>1
    <3>4. \A k \in 1..4 : block[k] = Magic[k]
      BY <1>3, <3>2
    <3>5. block[5] = head[5] /\ block[6] = head[6] /\ block[7] = head[7]
      BY <3>2
    <3> QED  BY <1>3, <3>3, <3>4, <3>5
  <2>2. /\ \A k \in 1..4 : k \in 1..(11 + n)
        /\ 5 \in 1..(11 + n) /\ 6 \in 1..(11 + n) /\ 7 \in 1..(11 + n)
        /\ \A k \in 1..n : 7 + k \in 1..(11 + n)
        /\ \A k \in 1..4 : 7 + n + k \in 1..(11 + n)
    BY <1>10
  <2>3. ASSUME NEW k \in 1..(11 + n)
        PROVE  \/ k \in 1..4 \/ k = 5 \/ k = 6 \/ k = 7
               \/ \E j \in 1..n : k = 7 + j
               \/ \E j \in 1..4 : k = 7 + n + j
    <3>1. CASE k \in 1..7
      BY <3>1
    <3>2. CASE k \in 8..(7 + n)
      <4>1. k - 7 \in 1..n /\ k = 7 + (k - 7)
        BY <1>10, <3>2
      <4> QED  BY <4>1
    <3>3. CASE k \in (8 + n)..(11 + n)
      <4>1. k - (7 + n) \in 1..4 /\ k = 7 + n + (k - (7 + n))
        BY <1>10, <3>3
      <4> QED  BY <4>1
    <3> QED  BY <1>10, <3>1, <3>2, <3>3
  <2>4. ASSUME \A k \in 1..(11 + n) : at[k] = block[k]
        PROVE  /\ \A k \in 1..4 : at[k] = Magic[k]
               /\ at[5] = Version /\ at[6] = length[1] /\ at[7] = length[2]
               /\ \A k \in 1..n : at[7 + k] = m[k]
               /\ \A k \in 1..4 : at[7 + n + k] = check[k]
    BY <1>2, <2>1, <2>2, <2>4
  <2>5. ASSUME /\ \A k \in 1..4 : at[k] = Magic[k]
               /\ at[5] = Version /\ at[6] = length[1] /\ at[7] = length[2]
               /\ \A k \in 1..n : at[7 + k] = m[k]
               /\ \A k \in 1..4 : at[7 + n + k] = check[k]
        PROVE  \A k \in 1..(11 + n) : at[k] = block[k]
    <3> SUFFICES ASSUME NEW k \in 1..(11 + n)
                 PROVE  at[k] = block[k]
      OBVIOUS
    <3>1. CASE k \in 1..4 \/ k = 5 \/ k = 6 \/ k = 7
      BY <2>1, <2>5, <3>1
    <3>2. CASE \E j \in 1..n : k = 7 + j
      BY <2>1, <2>5, <3>2
    <3>3. CASE \E j \in 1..4 : k = 7 + n + j
      BY <1>2, <2>5, <3>3
    <3> QED  BY <2>3, <3>1, <3>2, <3>3
  <2> QED  BY <2>4, <2>5
<1> QED  BY <1>5, <1>6, <1>7, <1>8, <1>9, <1>11 DEF block, head, check, length, n

LEMMA PayloadLengthType ==
  ASSUME NEW bytes \in Seq(Byte), NEW start \in Starts(bytes)
  PROVE  /\ bytes[start + 5] \in Byte /\ bytes[start + 6] \in Byte
         /\ PayloadLength(bytes, start) \in 0..MaxPayload
         /\ start \in Nat \ {0} /\ start + 10 <= Len(bytes)
<1>1. start \in Nat \ {0} /\ start + 10 <= Len(bytes) /\ Len(bytes) \in Nat
  BY DEF Starts, MinimumLength
<1>2. bytes[start + 5] \in Byte /\ bytes[start + 6] \in Byte
  <2>1. start + 5 \in 1..Len(bytes) /\ start + 6 \in 1..Len(bytes)
    BY <1>1
  <2> QED  BY <2>1, ElementOfSeq
<1>3. ASSUME NEW r \in Nat \ {0, 1}, NEW a \in 0..(r - 1), NEW b \in 0..(r - 1)
      PROVE  a * r + b \in 0..(r * r - 1)
  <2>1. a * r <= (r - 1) * r /\ (r - 1) * r = r * r - r
    BY <1>3
  <2>2. a * r \in Nat /\ r * r \in Nat
    BY <1>3
  <2> QED  BY <1>3, <2>1, <2>2
<1>4. PayloadLength(bytes, start) \in 0..MaxPayload
  <2> HIDE DEF Radix
  <2> QED  BY <1>2, <1>3, RadixType DEF PayloadLength, MaxPayload
<1> QED  BY <1>1, <1>2, <1>4

\* What encode has written, decode accepts, and reads what was written.
LEMMA SitsAccepted ==
  ASSUME NEW bytes \in Seq(Byte), NEW start \in Nat \ {0}, NEW m \in Seq(Byte),
         Len(m) <= MaxPayload, Sits(bytes, start, m)
  PROVE  start \in Starts(bytes) /\ Accepts(bytes, start) /\ Payload(bytes, start) = m
<1> DEFINE n == Len(m)
           head == BlockHead(m)
<1>1. n \in Nat /\ Len(bytes) \in Nat /\ start + 10 + n <= Len(bytes)
  BY DEF Sits
<1>2. start \in Starts(bytes)
  BY <1>1 DEF Starts, MinimumLength
<1>3. /\ SubSeq(bytes, start, start + 3) = Magic
      /\ bytes[start + 4] = Version
      /\ bytes[start + 5] = Uint16(n)[1] /\ bytes[start + 6] = Uint16(n)[2]
      /\ SubSeq(bytes, start + 7, start + 6 + n) = m
      /\ SubSeq(bytes, start + 7 + n, start + 10 + n) = Uint32(Crc(head))
  BY <1>1, SitsInParts
<1>4. PayloadLength(bytes, start) = n
  BY <1>1, <1>3, LengthRoundTrip DEF PayloadLength
<1>5. SubSeq(bytes, start, start + 6 + n) = head
  <2> DEFINE j == start + 6 + n
             block == Block(m)
  <2>1. head \in Seq(Byte) /\ Len(head) = 7 + n
    BY BlockHeadShape
  <2>2. \A k \in 1..(7 + n) : block[k] = head[k]
    BY BlockShape
  <2>3. \A k \in 1..(11 + n) : bytes[start + k - 1] = block[k]
    BY DEF Sits
  <2> HIDE DEF head, block
  <2>4. \A k \in 1..(7 + n) : bytes[start + k - 1] = head[k]
    BY <1>1, <2>2, <2>3
  <2>5. j \in Int /\ j = start + (7 + n) - 1 /\ j <= Len(bytes)
    BY <1>1
  <2> HIDE DEF j
  <2>6. j = start + Len(head) - 1
    BY <2>1, <2>5
  <2>7. SubSeq(bytes, start, j) = head <=>
          \A k \in 1..Len(head) : bytes[start + k - 1] = head[k]
    <3>1. head \in Seq(Byte) /\ j \in Int /\ j = start + Len(head) - 1 /\ j <= Len(bytes)
      BY <2>1, <2>5, <2>6
    <3> QED  BY <3>1, PartIs
  <2> QED  BY <2>1, <2>4, <2>7 DEF j
<1>6. Accepts(bytes, start)
  <2> DEFINE end == start + 7 + n
  <2>1. /\ end + 4 <= Len(bytes) + 1 /\ end - 1 = start + 6 + n /\ end + 3 = start + 10 + n
    BY <1>1
  <2>2. SubSeq(bytes, end, end + 3) = Uint32(Crc(SubSeq(bytes, start, end - 1)))
    BY <1>3, <1>5, <2>1
  <2> QED  BY <1>3, <1>4, <2>1, <2>2 DEF Accepts
<1> QED  BY <1>2, <1>3, <1>4, <1>6 DEF Payload

\* What decode accepts, encode might have written.
LEMMA AcceptedSits ==
  ASSUME NEW bytes \in Seq(Byte), NEW start \in Starts(bytes), Accepts(bytes, start)
  PROVE  /\ Payload(bytes, start) \in Seq(Byte)
         /\ Len(Payload(bytes, start)) <= MaxPayload
         /\ Sits(bytes, start, Payload(bytes, start))
<1> DEFINE n == PayloadLength(bytes, start)
           m == Payload(bytes, start)
<1>1. /\ bytes[start + 5] \in Byte /\ bytes[start + 6] \in Byte
      /\ n \in 0..MaxPayload /\ n \in Nat /\ Len(bytes) \in Nat
      /\ start \in Nat \ {0} /\ start + 10 <= Len(bytes)
  BY PayloadLengthType, RadixType
<1>2. /\ SubSeq(bytes, start, start + 3) = Magic
      /\ bytes[start + 4] = Version
      /\ start + 7 + n + 4 <= Len(bytes) + 1
      /\ SubSeq(bytes, start + 7 + n, start + 7 + n + 3) =
           Uint32(Crc(SubSeq(bytes, start, (start + 7 + n) - 1)))
  BY DEF Accepts
<1>3. Uint16(n) = <<bytes[start + 5], bytes[start + 6]>>
  <2>1. bytes[start + 5] * Radix + bytes[start + 6] = n
    BY DEF PayloadLength
  <2> HIDE DEF n
  <2> QED  BY <1>1, <2>1, LengthRoundTrip
<1>4. m = SubSeq(bytes, start + 7, start + 6 + n)
  BY DEF Payload
<1> HIDE DEF n
<1>5. m \in Seq(Byte) /\ Len(m) = n
  <2> DEFINE i == start + 7
             j == start + 6 + n
  <2>1. i \in Int /\ j \in Int /\ j - i + 1 = n /\ i..j \subseteq 1..Len(bytes)
    BY <1>1, <1>2
  <2>2. \A x \in i..j : bytes[x] \in Byte
    BY <2>1, ElementOfSeq
  <2> HIDE DEF i, j
  <2>3. SubSeq(bytes, i, j) \in Seq(Byte)
          /\ Len(SubSeq(bytes, i, j)) = IF i <= j THEN j - i + 1 ELSE 0
    BY <2>1, <2>2, SubSeqProperties
  <2> QED  BY <1>1, <1>4, <2>1, <2>3 DEF i, j
<1> HIDE DEF m
<1>6. SubSeq(bytes, start, start + 6 + n) = BlockHead(m)
  <2> DEFINE head == BlockHead(m)
             length == Uint16(n)
             j == start + 6 + n
             at == [k \in 1..(7 + n) |-> bytes[start + k - 1]]
  <2>1. /\ head \in Seq(Byte) /\ Len(head) = 7 + n
        /\ \A k \in 1..4 : head[k] = Magic[k]
        /\ head[5] = Version /\ head[6] = length[1] /\ head[7] = length[2]
        /\ \A k \in 1..n : head[7 + k] = m[k]
    BY <1>5, BlockHeadShape
  <2>2. length[1] = bytes[start + 5] /\ length[2] = bytes[start + 6]
    BY <1>3
  <2> HIDE DEF head, length
  <2>3. \A k \in 1..4 : bytes[start + k - 1] = Magic[k]
    <3>1. SubSeq(bytes, start, start + 3) = Magic <=>
            \A k \in 1..4 : bytes[start + k - 1] = Magic[k]
      BY <1>1, MagicType, PartIs
    <3> QED  BY <1>2, <3>1
  <2>4. ASSUME NEW k \in 1..n
        PROVE  at[7 + k] = m[k]
    <3>1. 7 + k \in 1..(7 + n) /\ start + (7 + k) - 1 = (start + 7) + k - 1
      BY <1>1
    <3>2. SubSeq(bytes, start + 7, start + 6 + n)[k] = bytes[(start + 7) + k - 1]
      <4> DEFINE i == start + 7
      <4>1. i \in Int /\ j \in Int /\ k \in 1..(j - i + 1) /\ i..j \subseteq 1..Len(bytes)
        BY <1>1, <1>2
      <4>2. \A x \in i..j : bytes[x] \in Byte
        BY <4>1, ElementOfSeq
      <4> HIDE DEF i, j
      <4>3. SubSeq(bytes, i, j)[k] = bytes[i + k - 1]
        BY <4>1, <4>2, SubSeqProperties
      <4> QED  BY <4>3 DEF i, j
    <3> QED  BY <1>4, <3>1, <3>2
  <2>5. at[5] = Version /\ at[6] = length[1] /\ at[7] = length[2]
    <3>1. 5 \in 1..(7 + n) /\ 6 \in 1..(7 + n) /\ 7 \in 1..(7 + n)
      BY <1>1
    <3>2. at[5] = bytes[start + 5 - 1] /\ at[6] = bytes[start + 6 - 1]
            /\ at[7] = bytes[start + 7 - 1]
      BY <3>1
    <3>3. start + 5 - 1 = start + 4 /\ start + 6 - 1 = start + 5 /\ start + 7 - 1 = start + 6
      BY <1>1
    <3> HIDE DEF at
    <3> QED  BY <1>2, <2>2, <3>2, <3>3
  <2>6. \A k \in 1..4 : at[k] = Magic[k]
    <3>1. \A k \in 1..4 : k \in 1..(7 + n)
      BY <1>1
    <3>2. \A k \in 1..4 : at[k] = bytes[start + k - 1]
      BY <3>1
    <3> HIDE DEF at
    <3> QED  BY <2>3, <3>2
  <2>7. ASSUME NEW k \in 1..(7 + n)
        PROVE  at[k] = head[k]
    <3> HIDE DEF at
    <3>1. CASE k \in 1..7
      BY <2>1, <2>5, <2>6, <3>1
    <3>2. CASE k \in 8..(7 + n)
      <4>1. k - 7 \in 1..n /\ k = 7 + (k - 7)
        BY <1>1, <3>2
      <4> QED  BY <2>1, <2>4, <4>1
    <3> QED  BY <1>1, <3>1, <3>2
  <2>8. \A k \in 1..Len(head) : bytes[start + k - 1] = head[k]
    <3>1. \A k \in 1..(7 + n) : at[k] = bytes[start + k - 1]
      OBVIOUS
    <3> HIDE DEF at
    <3> QED  BY <2>1, <2>7, <3>1
  <2>9. j \in Int /\ j = start + Len(head) - 1 /\ j <= Len(bytes)
    BY <1>1, <1>2, <2>1
  <2> HIDE DEF j, at
  <2>10. SubSeq(bytes, start, j) = head
    <3>1. head \in Seq(Byte) /\ start \in Nat \ {0}
      BY <1>1, <2>1
    <3>2. SubSeq(bytes, start, j) = head <=>
            \A k \in 1..Len(head) : bytes[start + k - 1] = head[k]
      BY <2>9, <3>1, PartIs
    <3> QED  BY <2>8, <3>2
  <2> QED  BY <2>10 DEF j, head
<1>7. /\ start + 10 + n <= Len(bytes)
      /\ start + 7 + n + 3 = start + 10 + n /\ (start + 7 + n) - 1 = start + 6 + n
  BY <1>1, <1>2
<1>8. SubSeq(bytes, start + 7 + n, start + 10 + n) = Uint32(Crc(BlockHead(m)))
  BY <1>2, <1>6, <1>7
<1>9. bytes[start + 5] = Uint16(n)[1] /\ bytes[start + 6] = Uint16(n)[2]
  BY <1>3
<1>10. Sits(bytes, start, m)
  <2>1. start + 10 + Len(m) <= Len(bytes) /\ start \in Nat \ {0} /\ m \in Seq(Byte)
    BY <1>1, <1>5, <1>7
  <2>2. Sits(bytes, start, m) <=>
           /\ SubSeq(bytes, start, start + 3) = Magic
           /\ bytes[start + 4] = Version
           /\ bytes[start + 5] = Uint16(Len(m))[1] /\ bytes[start + 6] = Uint16(Len(m))[2]
           /\ SubSeq(bytes, start + 7, start + 6 + Len(m)) = m
           /\ SubSeq(bytes, start + 7 + Len(m), start + 10 + Len(m)) =
                Uint32(Crc(BlockHead(m)))
    BY <2>1, SitsInParts
  <2> QED  BY <1>2, <1>4, <1>5, <1>8, <1>9, <2>2
<1> QED  BY <1>1, <1>5, <1>10 DEF m

LEMMA PrefixSits ==
  ASSUME NEW bytes \in Seq(Byte), NEW start \in 1..Len(bytes), NEW m \in Seq(Byte)
  PROVE  IsPrefix(Block(m), SubSeq(bytes, start, Len(bytes))) <=> Sits(bytes, start, m)
<1> DEFINE block == Block(m)
           n == Len(m)
           size == Len(bytes)
           rest == SubSeq(bytes, start, size)
<1>1. /\ block \in Seq(Byte) /\ Len(block) = 11 + n
      /\ n \in Nat /\ size \in Nat /\ start \in Nat \ {0} /\ start <= size
  <2>1. block \in Seq(Byte) /\ Len(block) = 11 + n
    BY BlockShape
  <2>2. n \in Nat /\ size \in Nat /\ start \in Nat \ {0} /\ start <= size
    OBVIOUS
  <2> QED  BY <2>1, <2>2
<1>2. /\ rest \in Seq(Byte) /\ Len(rest) = size - start + 1
      /\ \A k \in 1..(size - start + 1) : rest[k] = bytes[start + k - 1]
  <2>1. \A x \in start..size : bytes[x] \in Byte
    BY ElementOfSeq
  <2> HIDE DEF size
  <2> QED  BY <1>1, <2>1, SubSeqProperties
<1>3. Sits(bytes, start, m) <=>
        /\ start + 10 + n <= size
        /\ \A k \in 1..(11 + n) : bytes[start + k - 1] = block[k]
  BY DEF Sits
<1>4. IsPrefix(block, rest) <=>
        /\ Len(block) <= Len(rest)
        /\ SubSeq(block, 1, Len(block)) = SubSeq(rest, 1, Len(block))
  BY DEF IsPrefix
<1> HIDE DEF block, n, size, rest
<1>5. SubSeq(block, 1, 11 + n) = block
  <2>1. 11 + n = 1 + Len(block) - 1 /\ 11 + n \in Int /\ 11 + n <= Len(block)
    BY <1>1
  <2>2. \A k \in 1..Len(block) : block[1 + k - 1] = block[k]
    OBVIOUS
  <2> QED  BY <1>1, <2>1, <2>2, PartIs
<1>6. ASSUME 11 + n <= Len(rest)
      PROVE  SubSeq(rest, 1, 11 + n) = block <=>
               \A k \in 1..(11 + n) : bytes[start + k - 1] = block[k]
  <2>1. 11 + n = 1 + Len(block) - 1 /\ 11 + n \in Int
    BY <1>1
  <2>2. SubSeq(rest, 1, 11 + n) = block <=> \A k \in 1..Len(block) : rest[1 + k - 1] = block[k]
    BY <1>1, <1>2, <1>6, <2>1, PartIs
  <2>3. \A k \in 1..(11 + n) : rest[1 + k - 1] = bytes[start + k - 1]
    BY <1>1, <1>2, <1>6
  <2> QED  BY <1>1, <2>2, <2>3
<1>7. start + 10 + n <= size <=> 11 + n <= Len(rest)
  BY <1>1, <1>2
<1>8. IsPrefix(block, rest) <=>
        11 + n <= Len(rest) /\ SubSeq(rest, 1, 11 + n) = block
  BY <1>1, <1>4, <1>5
<1>9. IsPrefix(block, rest) <=> Sits(bytes, start, m)
  <2>1. CASE 11 + n <= Len(rest)
    BY <1>3, <1>6, <1>7, <1>8, <2>1
  <2>2. CASE ~ (11 + n <= Len(rest))
    BY <1>3, <1>7, <1>8, <2>2
  <2> QED  BY <2>1, <2>2
<1> QED  BY <1>9 DEF block, rest, size

LEMMA WrittenSits ==
  ASSUME NEW bytes \in Seq(Byte), NEW start \in 1..(Len(bytes) - 10), NEW m
  PROVE  m \in WrittenAt(bytes, start) <=>
            m \in Seq(Byte) /\ Len(m) <= MaxPayload /\ Sits(bytes, start, m)
<1> DEFINE room == Len(bytes) - start - 10
           Part(n) == SubSeq(bytes, start + 7, start + 6 + n)
<1>1. /\ Len(bytes) \in Nat /\ start \in Nat \ {0} /\ start \in 1..Len(bytes)
      /\ start + 10 <= Len(bytes)
  OBVIOUS
<1>2. m \in WrittenAt(bytes, start) <=>
        /\ \E n \in 0..room : m = Part(n)
        /\ Len(m) <= MaxPayload
        /\ IsPrefix(Block(m), SubSeq(bytes, start, Len(bytes)))
  BY DEF WrittenAt
<1>3. ASSUME NEW n \in 0..room
      PROVE  Part(n) \in Seq(Byte)
  <2> DEFINE i == start + 7
             j == start + 6 + n
  <2>1. i \in Int /\ j \in Int /\ i..j \subseteq 1..Len(bytes)
    BY <1>1
  <2>2. \A x \in i..j : bytes[x] \in Byte
    BY <2>1, ElementOfSeq
  <2> HIDE DEF i, j
  <2>3. SubSeq(bytes, i, j) \in Seq(Byte)
    BY <2>1, <2>2, SubSeqProperties
  <2> QED  BY <2>3 DEF i, j
<1>4. ASSUME m \in Seq(Byte), Sits(bytes, start, m)
      PROVE  \E n \in 0..room : m = Part(n)
  <2>1. start + 10 + Len(m) <= Len(bytes) /\ Len(m) \in Nat
    BY <1>4 DEF Sits
  <2>2. SubSeq(bytes, start + 7, start + 6 + Len(m)) = m
    BY <1>1, <1>4, <2>1, SitsInParts
  <2>3. Len(m) \in 0..room
    BY <1>1, <2>1
  <2> QED  BY <2>2, <2>3
<1> HIDE DEF room, Part
<1>5. ASSUME m \in Seq(Byte)
      PROVE  IsPrefix(Block(m), SubSeq(bytes, start, Len(bytes))) <=> Sits(bytes, start, m)
  BY <1>1, <1>5, PrefixSits
<1> QED  BY <1>2, <1>3, <1>4, <1>5

\* decode reads the first of the blocks that encode might have written.
ReadsTheFirst(bytes) ==
    LET starts == {s \in 1..(Len(bytes) - 10) :
                     SubSeq(bytes, s, s + 3) = Magic /\ WrittenAt(bytes, s) # {}}
    IN IF starts = {} THEN Scan(bytes) = NoMessage
       ELSE \E s \in starts : /\ \A other \in starts : s <= other
                              /\ \E m \in WrittenAt(bytes, s) : Scan(bytes) = TextOf(m)

LEMMA ScanReadsTheFirst ==
  ASSUME NEW bytes \in Seq(Byte)
  PROVE  ReadsTheFirst(bytes)
<1> DEFINE starts == {s \in 1..(Len(bytes) - 10) :
                        SubSeq(bytes, s, s + 3) = Magic /\ WrittenAt(bytes, s) # {}}
<1> DEFINE found == {s \in Starts(bytes) : Accepts(bytes, s)}
<1>1. Starts(bytes) = 1..(Len(bytes) - 10) /\ Starts(bytes) \subseteq Nat \ {0}
  <2>1. Len(bytes) - MinimumLength + 1 = Len(bytes) - 10
    BY DEF MinimumLength
  <2> QED  BY <2>1 DEF Starts
<1>2. ASSUME NEW s \in Starts(bytes), Accepts(bytes, s)
      PROVE  /\ SubSeq(bytes, s, s + 3) = Magic
             /\ Payload(bytes, s) \in WrittenAt(bytes, s)
  <2>1. SubSeq(bytes, s, s + 3) = Magic
    BY <1>2 DEF Accepts
  <2> QED  BY <1>1, <1>2, <2>1, AcceptedSits, WrittenSits
<1>3. ASSUME NEW s \in Starts(bytes), NEW m \in WrittenAt(bytes, s)
      PROVE  Accepts(bytes, s)
  <2>1. m \in Seq(Byte) /\ Len(m) <= MaxPayload /\ Sits(bytes, s, m)
    BY <1>1, WrittenSits
  <2> QED  BY <1>1, <2>1, SitsAccepted
<1>4. found = starts
  BY <1>1, <1>2, <1>3
<1>5. Scan(bytes) = IF found = {} THEN NoMessage ELSE TextOf(Payload(bytes, Min(found)))
  BY DEF Scan
<1>6. ASSUME found # {}
      PROVE  Min(found) \in found /\ \A s \in found : Min(found) <= s
  BY <1>1, <1>6, MinIsLeast
<1>7. \A s \in found : Payload(bytes, s) \in WrittenAt(bytes, s)
  BY <1>2
<1> HIDE DEF found, starts
<1>8. IF starts = {} THEN Scan(bytes) = NoMessage
      ELSE \E s \in starts : /\ \A other \in starts : s <= other
                             /\ \E m \in WrittenAt(bytes, s) : Scan(bytes) = TextOf(m)
  BY <1>4, <1>5, <1>6, <1>7
<1> QED  BY <1>8 DEF ReadsTheFirst, starts

-----------------------------------------------------------------------------
(* What is hidden in a text and what is visible. *)

HiddenPiece ==
    [cp \in Nat |-> IF SelectorToByte(cp) = NoByte THEN <<>> ELSE <<SelectorToByte(cp)>>]
VisiblePiece == [cp \in Nat |-> IF SelectorToByte(cp) = NoByte THEN <<cp>> ELSE <<>>]

\* Characters that hide nothing.
Plain == {cp \in Nat : SelectorToByte(cp) = NoByte}

LEMMA HiddenPieceType == Maps(HiddenPiece, Nat, Seq(Byte))
<1>1. ASSUME NEW cp \in Nat
      PROVE  HiddenPiece[cp] \in Seq(Byte)
  <2>1. CASE SelectorToByte(cp) = NoByte
    <3>1. HiddenPiece[cp] = <<>>
      BY <2>1 DEF HiddenPiece
    <3> QED  BY <3>1, EmptySeq
  <2>2. CASE SelectorToByte(cp) # NoByte
    <3> DEFINE byte == SelectorToByte(cp)
    <3>1. byte \in Byte /\ HiddenPiece[cp] = <<byte>>
      BY <2>2, SelectorType DEF HiddenPiece
    <3> HIDE DEF byte
    <3>2. <<byte>> \in Seq(Byte)
      BY <3>1
    <3> QED  BY <3>1, <3>2
  <2> QED  BY <2>1, <2>2
<1> DEFINE T == Seq(Byte)
<1> HIDE DEF T
<1>2. \A cp \in Nat : HiddenPiece[cp] \in T
  BY <1>1 DEF T
<1>3. HiddenPiece \in [Nat -> T]
  BY <1>2 DEF HiddenPiece
<1> QED  BY <1>3 DEF Maps, T

LEMMA VisiblePieceType == Maps(VisiblePiece, Nat, Seq(Plain))
<1>1. ASSUME NEW cp \in Nat
      PROVE  VisiblePiece[cp] \in Seq(Plain)
  <2>1. CASE SelectorToByte(cp) # NoByte
    <3>1. VisiblePiece[cp] = <<>>
      BY <2>1 DEF VisiblePiece
    <3> QED  BY <3>1, EmptySeq
  <2>2. CASE SelectorToByte(cp) = NoByte
    <3>1. VisiblePiece[cp] = <<cp>> /\ cp \in Plain
      BY <2>2 DEF VisiblePiece, Plain
    <3>2. <<cp>> \in Seq(Plain)
      BY <3>1
    <3> QED  BY <3>1, <3>2
  <2> QED  BY <2>1, <2>2
<1> DEFINE T == Seq(Plain)
<1> HIDE DEF T
<1>2. \A cp \in Nat : VisiblePiece[cp] \in T
  BY <1>1 DEF T
<1>3. VisiblePiece \in [Nat -> T]
  BY <1>2 DEF VisiblePiece
<1> QED  BY <1>3 DEF Maps, T

LEMMA HiddenInPieces ==
  ASSUME NEW t \in Seq(Nat)
  PROVE  Hidden(t) = FlattenSeq(Pieces(HiddenPiece, t))
<1>1. \A k \in DOMAIN t : t[k] \in Nat
  OBVIOUS
<1>2. Pieces(HiddenPiece, t) =
        [k \in DOMAIN t |->
          IF SelectorToByte(t[k]) = NoByte THEN <<>> ELSE <<SelectorToByte(t[k])>>]
  BY <1>1 DEF Pieces, HiddenPiece
<1> QED  BY <1>2 DEF Hidden

LEMMA VisibleInPieces ==
  ASSUME NEW t \in Seq(Nat)
  PROVE  Visible(t) = FlattenSeq(Pieces(VisiblePiece, t))
<1>1. \A k \in DOMAIN t : t[k] \in Nat
  OBVIOUS
<1>2. Pieces(VisiblePiece, t) =
        [k \in DOMAIN t |-> IF SelectorToByte(t[k]) = NoByte THEN <<t[k]>> ELSE <<>>]
  BY <1>1 DEF Pieces, VisiblePiece
<1> QED  BY <1>2 DEF Visible

LEMMA HiddenType ==
  ASSUME NEW t \in Seq(Nat)
  PROVE  Hidden(t) \in Seq(Byte)
<1> DEFINE T == Seq(Byte)
           pieces == Pieces(HiddenPiece, t)
<1>1. Monoid(T) /\ Maps(HiddenPiece, Nat, T)
  BY SequencesMonoid, HiddenPieceType
<1> HIDE DEF T
<1>2. pieces \in Seq(T)
  BY <1>1, PiecesType
<1> HIDE DEF pieces
<1>3. FlattenSeq(pieces) \in T
  BY <1>1, <1>2, FlattenType
<1> QED  BY <1>3, HiddenInPieces DEF T, pieces

LEMMA VisibleType ==
  ASSUME NEW t \in Seq(Nat)
  PROVE  Visible(t) \in Seq(Plain)
<1> DEFINE T == Seq(Plain)
           pieces == Pieces(VisiblePiece, t)
<1>1. Monoid(T) /\ Maps(VisiblePiece, Nat, T)
  BY SequencesMonoid, VisiblePieceType
<1> HIDE DEF T
<1>2. pieces \in Seq(T)
  BY <1>1, PiecesType
<1> HIDE DEF pieces
<1>3. FlattenSeq(pieces) \in T
  BY <1>1, <1>2, FlattenType
<1> QED  BY <1>3, VisibleInPieces DEF T, pieces

LEMMA HiddenConcat ==
  ASSUME NEW s \in Seq(Nat), NEW t \in Seq(Nat)
  PROVE  Hidden(s \o t) = Hidden(s) \o Hidden(t)
<1> DEFINE T == Seq(Byte)
           a == Pieces(HiddenPiece, s)
           b == Pieces(HiddenPiece, t)
<1>1. Monoid(T) /\ Maps(HiddenPiece, Nat, T)
  BY SequencesMonoid, HiddenPieceType
<1> HIDE DEF T
<1>2. a \in Seq(T) /\ b \in Seq(T)
  <2>1. a \in Seq(T)
    BY <1>1, PiecesType
  <2>2. b \in Seq(T)
    BY <1>1, PiecesType
  <2> QED  BY <2>1, <2>2
<1>3. Pieces(HiddenPiece, s \o t) = a \o b
  BY <1>1, PiecesConcat
<1> HIDE DEF a, b
<1>4. FlattenSeq(a \o b) = FlattenSeq(a) \o FlattenSeq(b)
  BY <1>1, <1>2, FlattenConcat
<1>5. s \o t \in Seq(Nat)
  OBVIOUS
<1> QED  BY <1>3, <1>4, <1>5, HiddenInPieces DEF a, b

LEMMA VisibleConcat ==
  ASSUME NEW s \in Seq(Nat), NEW t \in Seq(Nat)
  PROVE  Visible(s \o t) = Visible(s) \o Visible(t)
<1> DEFINE T == Seq(Plain)
           a == Pieces(VisiblePiece, s)
           b == Pieces(VisiblePiece, t)
<1>1. Monoid(T) /\ Maps(VisiblePiece, Nat, T)
  BY SequencesMonoid, VisiblePieceType
<1> HIDE DEF T
<1>2. a \in Seq(T) /\ b \in Seq(T)
  <2>1. a \in Seq(T)
    BY <1>1, PiecesType
  <2>2. b \in Seq(T)
    BY <1>1, PiecesType
  <2> QED  BY <2>1, <2>2
<1>3. Pieces(VisiblePiece, s \o t) = a \o b
  BY <1>1, PiecesConcat
<1> HIDE DEF a, b
<1>4. FlattenSeq(a \o b) = FlattenSeq(a) \o FlattenSeq(b)
  BY <1>1, <1>2, FlattenConcat
<1>5. s \o t \in Seq(Nat)
  OBVIOUS
<1> QED  BY <1>3, <1>4, <1>5, VisibleInPieces DEF a, b

\* One character.
LEMMA OneCharacter ==
  ASSUME NEW cp \in Nat
  PROVE  /\ <<cp>> \in Seq(Nat)
         /\ Hidden(<<cp>>) = IF SelectorToByte(cp) = NoByte THEN <<>> ELSE <<SelectorToByte(cp)>>
         /\ Visible(<<cp>>) = IF SelectorToByte(cp) = NoByte THEN <<cp>> ELSE <<>>
<1>1. <<cp>> \in Seq(Nat)
  OBVIOUS
<1> DEFINE h == HiddenPiece[cp]
           v == VisiblePiece[cp]
<1>2. Hidden(<<cp>>) = FlattenSeq(<<h>>) /\ Visible(<<cp>>) = FlattenSeq(<<v>>)
  <2>1. Pieces(HiddenPiece, <<cp>>) = <<h>>
    BY PiecesOne, HiddenPieceType
  <2>2. Pieces(VisiblePiece, <<cp>>) = <<v>>
    BY PiecesOne, VisiblePieceType
  <2> HIDE DEF h, v
  <2> QED  BY <1>1, <2>1, <2>2, HiddenInPieces, VisibleInPieces
<1>3. h \in Seq(Byte) /\ v \in Seq(Plain)
  BY HiddenPieceType, VisiblePieceType DEF Maps
<1>4. Monoid(Seq(Byte)) /\ Monoid(Seq(Plain))
  BY SequencesMonoid
<1> HIDE DEF h, v
<1>5. FlattenSeq(<<h>>) = h
  BY <1>3, <1>4, FlattenOne
<1>6. FlattenSeq(<<v>>) = v
  BY <1>3, <1>4, FlattenOne
<1> QED  BY <1>1, <1>2, <1>5, <1>6 DEF h, v, HiddenPiece, VisiblePiece

\* Nothing is hidden in what is visible, and all of it is visible.
LEMMA PlainText ==
  ASSUME NEW t \in Seq(Plain)
  PROVE  t \in Seq(Nat) /\ Hidden(t) = <<>> /\ Visible(t) = t
<1>1. t \in Seq(Nat) /\ DOMAIN t = 1..Len(t) /\ Len(t) \in Nat
  BY DEF Plain
<1>2. \A k \in DOMAIN t : t[k] \in Plain /\ SelectorToByte(t[k]) = NoByte
  BY DEF Plain
<1>3. Hidden(t) = <<>>
  <2> DEFINE pieces == [k \in DOMAIN t |-> <<>>]
  <2>1. Hidden(t) = FlattenSeq(pieces)
    <3>1. pieces = [k \in DOMAIN t |->
            IF SelectorToByte(t[k]) = NoByte THEN <<>> ELSE <<SelectorToByte(t[k])>>]
      BY <1>2
    <3> QED  BY <3>1 DEF Hidden
  <2>2. pieces \in Seq({<<>>})
    <3>1. pieces \in [1..Len(t) -> {<<>>}]
      BY <1>1
    <3>2. pieces \in UNION {[1..n -> {<<>>}] : n \in Nat}
      BY <1>1, <3>1
    <3> QED  BY <3>2, SeqDef
  <2> HIDE DEF pieces
  <2> QED  BY <2>1, <2>2, FlattenEmpties
<1>4. Visible(t) = t
  <2>1. Pieces([e \in Plain |-> <<e>>], t) =
          [k \in DOMAIN t |-> IF SelectorToByte(t[k]) = NoByte THEN <<t[k]>> ELSE <<>>]
    BY <1>2 DEF Pieces
  <2> QED  BY <2>1, FlattenSingles DEF Visible
<1> QED  BY <1>1, <1>3, <1>4

\* A character and a selector behind it.
LEMMA MarkedCharacter ==
  ASSUME NEW cp \in Plain, NEW byte \in Byte
  PROVE  /\ <<cp, ByteToSelector(byte)>> \in Seq(Nat)
         /\ Hidden(<<cp, ByteToSelector(byte)>>) = <<byte>>
         /\ Visible(<<cp, ByteToSelector(byte)>>) = <<cp>>
<1> DEFINE sel == ByteToSelector(byte)
<1>1. /\ sel \in Nat /\ SelectorToByte(sel) = byte /\ byte # NoByte
      /\ cp \in Nat /\ SelectorToByte(cp) = NoByte
  BY SelectorRoundTrip, SelectorType DEF Plain
<1> HIDE DEF sel
<1>2. /\ <<cp>> \in Seq(Nat) /\ Hidden(<<cp>>) = <<>> /\ Visible(<<cp>>) = <<cp>>
      /\ <<sel>> \in Seq(Nat) /\ Hidden(<<sel>>) = <<byte>> /\ Visible(<<sel>>) = <<>>
  BY <1>1, OneCharacter
<1>3. <<cp, sel>> = <<cp>> \o <<sel>> /\ <<cp, sel>> \in Seq(Nat)
  BY <1>1
<1>4. Hidden(<<cp>> \o <<sel>>) = <<>> \o <<byte>>
  BY <1>2, HiddenConcat
<1>5. Visible(<<cp>> \o <<sel>>) = <<cp>> \o <<>>
  BY <1>2, VisibleConcat
<1>6. <<>> \o <<byte>> = <<byte>> /\ <<cp>> \o <<>> = <<cp>>
  OBVIOUS
<1> QED  BY <1>3, <1>4, <1>5, <1>6 DEF sel

\* What is hidden in a text made of parts is what is hidden in the parts, and so is
\* what is visible.
LEMMA HiddenInParts ==
  ASSUME NEW parts \in Seq(Seq(Nat))
  PROVE  /\ FlattenSeq(parts) \in Seq(Nat)
         /\ Hidden(FlattenSeq(parts)) = FlattenSeq([k \in DOMAIN parts |-> Hidden(parts[k])])
         /\ Visible(FlattenSeq(parts)) = FlattenSeq([k \in DOMAIN parts |-> Visible(parts[k])])
<1> DEFINE U == Seq(Nat)
           T == Seq(Byte)
           P == Seq(Plain)
           h == [s \in U |-> Hidden(s)]
           v == [s \in U |-> Visible(s)]
<1>1. Monoid(U) /\ Monoid(T) /\ Monoid(P)
  BY SequencesMonoid
<1>2. \A s \in U : h[s] = Hidden(s) /\ v[s] = Visible(s)
  OBVIOUS
<1>3. Maps(h, U, T) /\ Maps(v, U, P)
  <2>1. \A s \in U : Hidden(s) \in T /\ Visible(s) \in P
    BY HiddenType, VisibleType
  <2> HIDE DEF U, T, P
  <2> QED  BY <2>1 DEF Maps
<1>4. <<>> \in U /\ \A x, y \in U : x \o y \in U
  BY <1>1 DEF Monoid
<1>5. h[<<>>] = <<>> /\ v[<<>>] = <<>>
  <2>1. <<>> \in Seq(Plain)
    BY EmptySeq
  <2>2. Hidden(<<>>) = <<>> /\ Visible(<<>>) = <<>>
    BY <2>1, PlainText
  <2> QED  BY <1>2, <1>4, <2>2
<1>6. \A x, y \in U : h[x \o y] = h[x] \o h[y] /\ v[x \o y] = v[x] \o v[y]
  <2>1. \A x, y \in U : /\ Hidden(x \o y) = Hidden(x) \o Hidden(y)
                        /\ Visible(x \o y) = Visible(x) \o Visible(y)
    BY HiddenConcat, VisibleConcat
  <2> HIDE DEF h, v, U
  <2> SUFFICES ASSUME NEW x \in U, NEW y \in U
               PROVE  h[x \o y] = h[x] \o h[y] /\ v[x \o y] = v[x] \o v[y]
    OBVIOUS
  <2>2. x \o y \in U
    BY <1>4
  <2>3. h[x \o y] = Hidden(x \o y) /\ v[x \o y] = Visible(x \o y)
    BY <1>2, <2>2
  <2>4. h[x] = Hidden(x) /\ h[y] = Hidden(y) /\ v[x] = Visible(x) /\ v[y] = Visible(y)
    BY <1>2
  <2> QED  BY <2>1, <2>3, <2>4
<1>7. Respects(h, U) /\ Respects(v, U)
  <2> HIDE DEF h, v, U
  <2> QED  BY <1>5, <1>6 DEF Respects
<1>8. /\ DOMAIN parts = 1..Len(parts) /\ \A k \in DOMAIN parts : parts[k] \in U
      /\ parts \in Seq(U)
  OBVIOUS
<1>9. /\ Pieces(h, parts) = [k \in DOMAIN parts |-> Hidden(parts[k])]
      /\ Pieces(v, parts) = [k \in DOMAIN parts |-> Visible(parts[k])]
  <2> HIDE DEF h, v, U
  <2> QED  BY <1>2, <1>8 DEF Pieces
<1> HIDE DEF h, v, U, T, P
<1>10. FlattenSeq(parts) \in U
  BY <1>1, <1>8, FlattenType
<1>11. h[FlattenSeq(parts)] = FlattenSeq(Pieces(h, parts))
  BY <1>1, <1>3, <1>8, <1>7, FlattenPieces
<1>12. v[FlattenSeq(parts)] = FlattenSeq(Pieces(v, parts))
  BY <1>1, <1>3, <1>8, <1>7, FlattenPieces
<1> QED  BY <1>2, <1>9, <1>10, <1>11, <1>12 DEF U

LEMMA EncodeHides ==
  ASSUME NEW m \in Seq(Byte), NEW t \in Seq(Nat), Len(Visible(t)) >= Len(Block(m))
  PROVE  /\ Encode(m, t) \in Seq(Nat)
         /\ Hidden(Encode(m, t)) = Block(m)
         /\ Visible(Encode(m, t)) = Visible(t)
<1> DEFINE clean == Visible(t)
           block == Block(m)
           size == Len(clean)
           used == Len(block)
           parts == [k \in DOMAIN clean |->
                       IF k <= used THEN <<clean[k], ByteToSelector(block[k])>>
                       ELSE <<clean[k]>>]
<1>1. /\ clean \in Seq(Plain) /\ DOMAIN clean = 1..size /\ size \in Nat
      /\ block \in Seq(Byte) /\ DOMAIN block = 1..used /\ used \in Nat
      /\ used <= size
  <2>1. clean \in Seq(Plain) /\ block \in Seq(Byte) /\ size >= used
    BY VisibleType, BlockShape
  <2> HIDE DEF clean, block
  <2>2. DOMAIN clean = 1..size /\ size \in Nat /\ DOMAIN block = 1..used /\ used \in Nat
    BY <2>1
  <2> QED  BY <2>1, <2>2
<1>2. Encode(m, t) = FlattenSeq(parts)
  <2>1. ~ (size < used)
    BY <1>1
  <2> QED  BY <2>1 DEF Encode
<1> HIDE DEF clean, block, size, used
<1>3. /\ \A k \in 1..size : clean[k] \in Plain
      /\ \A k \in 1..used : block[k] \in Byte
  BY <1>1, ElementOfSeq
<1>4. ASSUME NEW k \in 1..size
      PROVE  /\ parts[k] \in Seq(Nat)
             /\ Hidden(parts[k]) = IF k <= used THEN <<block[k]>> ELSE <<>>
             /\ Visible(parts[k]) = <<clean[k]>>
  <2>1. CASE k <= used
    <3>1. k \in 1..used /\ parts[k] = <<clean[k], ByteToSelector(block[k])>>
      BY <1>1, <2>1
    <3> DEFINE pair == <<clean[k], ByteToSelector(block[k])>>
    <3>2. /\ pair \in Seq(Nat) /\ Hidden(pair) = <<block[k]>>
          /\ Visible(pair) = <<clean[k]>>
      BY <1>3, <3>1, MarkedCharacter
    <3> HIDE DEF pair, parts
    <3>3. parts[k] = pair
      BY <3>1 DEF pair
    <3> QED  BY <2>1, <3>2, <3>3
  <2>2. CASE ~ (k <= used)
    <3>1. parts[k] = <<clean[k]>> /\ clean[k] \in Nat /\ SelectorToByte(clean[k]) = NoByte
      BY <1>1, <1>3, <2>2 DEF Plain
    <3> DEFINE one == <<clean[k]>>
    <3>2. one \in Seq(Nat) /\ Hidden(one) = <<>> /\ Visible(one) = <<clean[k]>>
      BY <3>1, OneCharacter
    <3> HIDE DEF one, parts
    <3>3. parts[k] = one
      BY <3>1 DEF one
    <3> QED  BY <2>2, <3>2, <3>3
  <2> QED  BY <2>1, <2>2
<1>5. DOMAIN parts = 1..size
  BY <1>1
<1>6. parts \in Seq(Seq(Nat))
  <2> DEFINE U == Seq(Nat)
  <2>1. \A k \in 1..size : parts[k] \in U
    BY <1>4
  <2>2. parts = [k \in 1..size |-> parts[k]]
    BY <1>1
  <2> HIDE DEF U, parts
  <2>3. parts \in [1..size -> U]
    BY <2>1, <2>2
  <2>4. parts \in UNION {[1..n -> U] : n \in Nat}
    BY <1>1, <2>3
  <2>5. parts \in Seq(U)
    BY <2>4, SeqDef
  <2> QED  BY <2>5 DEF U
<1> HIDE DEF parts
<1> DEFINE hidden == [k \in 1..size |-> IF k <= used THEN <<block[k]>> ELSE <<>>]
           visible == [k \in 1..size |-> <<clean[k]>>]
<1>7. /\ Encode(m, t) \in Seq(Nat)
      /\ Hidden(Encode(m, t)) = FlattenSeq([k \in DOMAIN parts |-> Hidden(parts[k])])
      /\ Visible(Encode(m, t)) = FlattenSeq([k \in DOMAIN parts |-> Visible(parts[k])])
  BY <1>2, <1>6, HiddenInParts
<1>8. /\ [k \in DOMAIN parts |-> Hidden(parts[k])] = hidden
      /\ [k \in DOMAIN parts |-> Visible(parts[k])] = visible
  BY <1>4, <1>5
<1>9. FlattenSeq(visible) = clean
  <2>1. visible = Pieces([e \in Plain |-> <<e>>], clean)
    BY <1>1, <1>3 DEF Pieces
  <2> QED  BY <1>1, <2>1, FlattenSingles
<1>10. FlattenSeq(hidden) = block
  <2> DEFINE T == Seq(Byte)
             f == [e \in Byte |-> <<e>>]
             first == Pieces(f, block)
             rest == [k \in 1..(size - used) |-> <<>>]
  <2>1. Monoid(T) /\ <<>> \in T
    BY SequencesMonoid DEF Monoid
  <2>2. FlattenSeq(first) = block
    BY <1>1, FlattenSingles
  <2>3. first \in Seq(T) /\ Len(first) = used /\ \A k \in 1..used : first[k] = <<block[k]>>
    <3>1. Maps(f, Byte, T) /\ \A e \in Byte : f[e] = <<e>>
      BY DEF Maps
    <3>2. Len(block) = used
      BY DEF used
    <3> HIDE DEF f, T
    <3>3. /\ first \in Seq(T) /\ Len(first) = Len(block)
          /\ \A k \in 1..Len(block) : first[k] = f[block[k]]
      BY <1>1, <3>1, PiecesType
    <3> QED  BY <1>3, <3>1, <3>2, <3>3
  <2>4. size - used \in Nat
    BY <1>1
  <2>5. /\ rest \in [1..(size - used) -> {<<>>}]
        /\ rest \in [1..(size - used) -> T]
    BY <2>1
  <2> HIDE DEF T, first
  <2>6. FlattenSeq(rest) = <<>>
    <3>1. rest \in UNION {[1..n -> {<<>>}] : n \in Nat}
      BY <2>4, <2>5
    <3>2. rest \in Seq({<<>>})
      BY <3>1, SeqDef
    <3> QED  BY <3>2, FlattenEmpties
  <2>7. rest \in Seq(T) /\ Len(rest) = size - used
    <3>1. rest \in UNION {[1..n -> T] : n \in Nat}
      BY <2>4, <2>5
    <3>2. rest \in Seq(T)
      BY <3>1, SeqDef
    <3> QED  BY <2>4, <2>5, <3>2, LenProperties
  <2>8. \A k \in 1..(size - used) : rest[k] = <<>>
    OBVIOUS
  <2> HIDE DEF rest
  <2>9. hidden = first \o rest
    <3>0. first \in Seq(T) /\ rest \in Seq(T)
      BY <2>3, <2>7
    <3>1. /\ first \o rest \in Seq(T) /\ Len(first \o rest) = Len(first) + Len(rest)
          /\ \A k \in 1..Len(first) : (first \o rest)[k] = first[k]
          /\ \A k \in 1..Len(rest) : (first \o rest)[Len(first) + k] = rest[k]
      BY <3>0, Joined
    <3>2. Len(first \o rest) = size
      BY <1>1, <2>3, <2>7, <3>1
    <3>3. hidden \in Seq(T) /\ Len(hidden) = size
      <4>1. \A k \in 1..used : <<block[k]>> \in T
        BY <2>3, ElementOfSeq
      <4>2. hidden \in [1..size -> T]
        BY <1>1, <2>1, <4>1
      <4>3. hidden \in UNION {[1..n -> T] : n \in Nat}
        BY <1>1, <4>2
      <4>4. hidden \in Seq(T)
        BY <4>3, SeqDef
      <4> QED  BY <1>1, <4>2, <4>4, LenProperties
    <3>4. ASSUME NEW k \in 1..size
          PROVE  hidden[k] = (first \o rest)[k]
      <4>1. CASE k <= used
        <5>1. k \in 1..used /\ hidden[k] = <<block[k]>>
          BY <1>1, <4>1
        <5> QED  BY <2>3, <3>1, <5>1
      <4>2. CASE ~ (k <= used)
        <5> DEFINE j == k - used
        <5>1. j \in 1..(size - used) /\ k = used + j /\ hidden[k] = <<>>
          BY <1>1, <4>2
        <5> HIDE DEF j
        <5> QED  BY <2>3, <2>7, <2>8, <3>1, <5>1
      <4> QED  BY <4>1, <4>2
    <3> HIDE DEF hidden
    <3> QED  BY <3>1, <3>2, <3>3, <3>4, SeqEqual
  <2>10. FlattenSeq(first \o rest) = FlattenSeq(first) \o FlattenSeq(rest)
    BY <2>1, <2>3, <2>7, FlattenConcat
  <2>11. block \o <<>> = block
    BY <1>1, ConcatEmptySeq
  <2> QED  BY <2>2, <2>6, <2>9, <2>10, <2>11
<1> QED  BY <1>7, <1>8, <1>9, <1>10 DEF clean, block

-----------------------------------------------------------------------------
(* The inductive invariant: what is hidden begins with the block of the    *)
(* mark as long as nothing was hidden before it, and nothing is hidden     *)
(* where no mark fits.                                                     *)

\* The same bytes but for the one at p.
OneOff(bytes, block, p) ==
    /\ Len(bytes) = Len(block) /\ p \in 1..Len(block)
    /\ bytes[p] # block[p]
    /\ \A k \in 1..Len(block) : k # p => bytes[k] = block[k]

Inv ==
    /\ text \in Seq(Nat) /\ edits \in Nat
    /\ state = "unmarked" => Hidden(text) = <<>>
    /\ state \in {"whole", "followed", "damaged"} =>
         message \in Seq(Byte) /\ Len(message) <= MaxPayload
    /\ state \in {"whole", "followed"} => Sits(Hidden(text), 1, message)
    /\ state = "whole" => Hidden(text) = Block(message)
    /\ state = "damaged" =>
         \E p \in Nat \ {6, 7} : OneOff(Hidden(text), Block(message), p)

\* A text around one of its characters.
LEMMA Around ==
  ASSUME NEW t \in Seq(Nat), NEW i \in 1..Len(t)
  PROVE  /\ SubSeq(t, 1, i - 1) \in Seq(Nat) /\ Len(SubSeq(t, 1, i - 1)) = i - 1
         /\ \A k \in 1..(i - 1) : SubSeq(t, 1, i - 1)[k] = t[k]
         /\ SubSeq(t, i + 1, Len(t)) \in Seq(Nat)
         /\ Len(SubSeq(t, i + 1, Len(t))) = Len(t) - i
         /\ \A k \in 1..(Len(t) - i) : SubSeq(t, i + 1, Len(t))[k] = t[i + k]
         /\ SubSeq(t, 1, i) = SubSeq(t, 1, i - 1) \o <<t[i]>>
         /\ t = (SubSeq(t, 1, i - 1) \o <<t[i]>>) \o SubSeq(t, i + 1, Len(t))
<1> DEFINE n == Len(t)
           top == i - 1
           next == i + 1
           a == SubSeq(t, 1, top)
           b == SubSeq(t, 1, i)
           c == SubSeq(t, next, n)
           one == <<t[i]>>
<1>1. n \in Nat /\ i \in 1..n /\ \A k \in 1..n : t[k] \in Nat
  OBVIOUS
<1>2. top \in 0..n /\ next \in 1..(n + 1) /\ top + 1 = i /\ i + 1 = next
  BY <1>1
<1> HIDE DEF n, top, next
<1>3. ASSUME NEW x \in Nat \ {0}, NEW y \in 0..n, x <= y + 1
      PROVE  /\ SubSeq(t, x, y) \in Seq(Nat) /\ Len(SubSeq(t, x, y)) = y - x + 1
             /\ \A k \in 1..(y - x + 1) : SubSeq(t, x, y)[k] = t[x + k - 1]
  <2>1. \A k \in x..y : t[k] \in Nat
    BY <1>1
  <2>2. /\ SubSeq(t, x, y) \in Seq(Nat)
        /\ Len(SubSeq(t, x, y)) = IF x <= y THEN y - x + 1 ELSE 0
        /\ \A k \in 1..(y - x + 1) : SubSeq(t, x, y)[k] = t[x + k - 1]
    BY <2>1, SubSeqProperties
  <2> QED  BY <1>1, <1>3, <2>2
<1>4. /\ a \in Seq(Nat) /\ Len(a) = top /\ \A k \in 1..top : a[k] = t[k]
      /\ b \in Seq(Nat) /\ Len(b) = i /\ \A k \in 1..i : b[k] = t[k]
  <2>1. 1 \in Nat \ {0} /\ i \in 0..n /\ \A x \in Int : x - 1 + 1 = x /\ 1 + x - 1 = x
    BY <1>1
  <2> QED  BY <1>1, <1>2, <1>3, <2>1
<1>5. c \in Seq(Nat) /\ Len(c) = n - i /\ \A k \in 1..(n - i) : c[k] = t[i + k]
  <2>1. n - next + 1 = n - i /\ \A k \in Int : next + k - 1 = i + k
    BY <1>1, <1>2
  <2>2. n \in 0..n /\ next \in Nat \ {0} /\ next <= n + 1
    BY <1>1, <1>2
  <2>3. /\ c \in Seq(Nat) /\ Len(c) = n - next + 1
        /\ \A k \in 1..(n - next + 1) : c[k] = t[next + k - 1]
    BY <1>3, <2>2
  <2> HIDE DEF c
  <2>4. ASSUME NEW k \in 1..(n - i)
        PROVE  c[k] = t[i + k]
    <3>1. k \in 1..(n - next + 1) /\ next + k - 1 = i + k
      BY <2>1
    <3> QED  BY <2>3, <3>1
  <2> QED  BY <2>1, <2>3, <2>4
<1>6. one \in Seq(Nat) /\ Len(one) = 1 /\ one[1] = t[i]
  BY <1>1
<1> HIDE DEF a, b, c, one
<1>7. /\ a \o one \in Seq(Nat) /\ Len(a \o one) = top + 1
      /\ \A k \in 1..top : (a \o one)[k] = a[k]
      /\ (a \o one)[top + 1] = one[1]
  <2>1. /\ a \o one \in Seq(Nat) /\ Len(a \o one) = Len(a) + Len(one)
        /\ \A k \in 1..Len(a) : (a \o one)[k] = a[k]
        /\ \A k \in 1..Len(one) : (a \o one)[Len(a) + k] = one[k]
    <3>1. a \in Seq(Nat) /\ one \in Seq(Nat)
      BY <1>4, <1>6
    <3> QED  BY <3>1, Joined
  <2> QED  BY <1>4, <1>6, <2>1
<1>8. b = a \o one
  <2>1. ASSUME NEW k \in 1..i
        PROVE  b[k] = (a \o one)[k]
    <3>1. CASE k = i
      BY <1>2, <1>4, <1>6, <1>7, <3>1
    <3>2. CASE k # i
      <4>1. k \in 1..top
        BY <1>1, <1>2, <3>2
      <4> QED  BY <1>4, <1>7, <4>1
    <3> QED  BY <3>1, <3>2
  <2>2. Len(b) = Len(a \o one)
    BY <1>2, <1>4, <1>7
  <2> QED  BY <1>4, <1>7, <2>1, <2>2, SeqEqual
<1>9. t = b \o c
  <2>1. t = SubSeq(t, 1, next - 1) \o SubSeq(t, next, Len(t))
    BY <1>2, SplitAt DEF n
  <2>2. next - 1 = i
    BY <1>1, <1>2
  <2> QED  BY <2>1, <2>2 DEF b, c, n
<1> QED  BY <1>4, <1>5, <1>8, <1>9 DEF a, b, c, one, n, top, next

\* Visible characters come and go without a trace in what is hidden.
LEMMA Inserted ==
  ASSUME NEW t \in Seq(Nat), NEW i \in DOMAIN t, NEW letter \in Letters
  PROVE  InsertAt(t, i, letter) \in Seq(Nat) /\ Hidden(InsertAt(t, i, letter)) = Hidden(t)
<1> DEFINE a == SubSeq(t, 1, i - 1)
           b == SubSeq(t, i, Len(t))
           one == <<letter>>
<1>1. i \in 1..(Len(t) + 1)
  OBVIOUS
<1>2. a \in Seq(Nat) /\ b \in Seq(Nat) /\ t = a \o b
  BY <1>1, SplitAt
<1>3. one \in Seq(Nat) /\ Hidden(one) = <<>>
  BY TextAssumption, OneCharacter
<1>4. InsertAt(t, i, letter) = (a \o one) \o b
  BY DEF InsertAt
<1> HIDE DEF a, b, one
<1>5. a \o one \in Seq(Nat) /\ (a \o one) \o b \in Seq(Nat)
  BY <1>2, <1>3
<1>6. /\ Hidden((a \o one) \o b) = Hidden(a \o one) \o Hidden(b)
      /\ Hidden(a \o one) = Hidden(a) \o <<>>
      /\ Hidden(a \o b) = Hidden(a) \o Hidden(b)
  <2>1. Hidden((a \o one) \o b) = Hidden(a \o one) \o Hidden(b)
    BY <1>2, <1>5, HiddenConcat
  <2>2. Hidden(a \o one) = Hidden(a) \o Hidden(one)
    BY <1>2, <1>3, HiddenConcat
  <2>3. Hidden(a \o b) = Hidden(a) \o Hidden(b)
    BY <1>2, HiddenConcat
  <2> QED  BY <1>3, <2>1, <2>2, <2>3
<1>7. Hidden(a) \o <<>> = Hidden(a)
  BY <1>2, HiddenType, ConcatEmptySeq
<1> QED  BY <1>2, <1>4, <1>5, <1>6, <1>7

LEMMA Removed ==
  ASSUME NEW t \in Seq(Nat), NEW i \in DOMAIN t, SelectorToByte(t[i]) = NoByte
  PROVE  RemoveAt(t, i) \in Seq(Nat) /\ Hidden(RemoveAt(t, i)) = Hidden(t)
<1> DEFINE a == SubSeq(t, 1, i - 1)
           c == SubSeq(t, i + 1, Len(t))
           one == <<t[i]>>
<1>1. t[i] \in Nat
  OBVIOUS
<1>2. a \in Seq(Nat) /\ c \in Seq(Nat) /\ t = (a \o one) \o c
  <2>1. i \in 1..Len(t)
    OBVIOUS
  <2> QED  BY <2>1, Around
<1>3. one \in Seq(Nat) /\ Hidden(one) = <<>>
  BY <1>1, OneCharacter
<1>4. RemoveAt(t, i) = a \o c
  BY DEF RemoveAt
<1> HIDE DEF a, c, one
<1>5. a \o c \in Seq(Nat) /\ a \o one \in Seq(Nat)
  BY <1>2, <1>3
<1>6. Hidden(a \o c) = Hidden(a) \o Hidden(c)
  BY <1>2, HiddenConcat
<1>7. Hidden(t) = Hidden(a \o one) \o Hidden(c)
  BY <1>2, <1>5, HiddenConcat
<1>8. Hidden(a \o one) = Hidden(a) \o <<>>
  BY <1>2, <1>3, HiddenConcat
<1>9. Hidden(a) \o <<>> = Hidden(a)
  BY <1>2, HiddenType, ConcatEmptySeq
<1> QED  BY <1>4, <1>5, <1>6, <1>7, <1>8, <1>9

\* One hidden byte for another changes that byte only, and which one it is can be told
\* from what is hidden up to there.
LEMMA Replaced ==
  ASSUME NEW t \in Seq(Nat), NEW i \in DOMAIN t, NEW byte \in Byte,
         SelectorToByte(t[i]) \notin {NoByte, byte}
  PROVE  /\ [t EXCEPT ![i] = ByteToSelector(byte)] \in Seq(Nat)
         /\ OneOff(Hidden([t EXCEPT ![i] = ByteToSelector(byte)]), Hidden(t),
                   Len(Hidden(SubSeq(t, 1, i))))
<1> DEFINE sel == ByteToSelector(byte)
           u == [t EXCEPT ![i] = sel]
           n == Len(t)
           a == SubSeq(t, 1, i - 1)
           c == SubSeq(t, i + 1, n)
           old == SelectorToByte(t[i])
           ha == Hidden(a)
           hc == Hidden(c)
<1>1. /\ sel \in Nat /\ SelectorToByte(sel) = byte /\ byte # NoByte /\ n \in Nat
      /\ i \in 1..n /\ t[i] \in Nat /\ old \in Byte /\ old # byte /\ old # NoByte
  <2>1. i \in 1..n /\ t[i] \in Nat /\ n \in Nat
    OBVIOUS
  <2> QED  BY <2>1, SelectorRoundTrip, SelectorType
<1>2. u \in Seq(Nat) /\ Len(u) = n /\ u[i] = sel /\ \A k \in 1..n : k # i => u[k] = t[k]
  <2>1. u \in Seq(Nat) /\ Len(u) = n
    BY <1>1, ExceptSeq
  <2> QED  BY <1>1, <2>1
<1>3. /\ a \in Seq(Nat) /\ c \in Seq(Nat) /\ t = (a \o <<t[i]>>) \o c
      /\ SubSeq(t, 1, i) = a \o <<t[i]>>
  BY <1>1, Around
<1>4. u = (a \o <<sel>>) \o c
  <2> DEFINE d == SubSeq(u, 1, i - 1)
             e == SubSeq(u, i + 1, n)
  <2>1. /\ a \in Seq(Nat) /\ Len(a) = i - 1 /\ \A k \in 1..(i - 1) : a[k] = t[k]
        /\ c \in Seq(Nat) /\ Len(c) = n - i /\ \A k \in 1..(n - i) : c[k] = t[i + k]
    BY <1>1, Around
  <2> HIDE DEF u, sel
  <2>2. /\ d \in Seq(Nat) /\ Len(d) = i - 1 /\ \A k \in 1..(i - 1) : d[k] = u[k]
        /\ e \in Seq(Nat) /\ Len(e) = n - i /\ \A k \in 1..(n - i) : e[k] = u[i + k]
        /\ u = (d \o <<u[i]>>) \o e
    <3>1. i \in 1..Len(u) /\ u \in Seq(Nat) /\ Len(u) = n
      BY <1>1, <1>2
    <3> HIDE DEF n
    <3> QED  BY <3>1, Around
  <2> HIDE DEF a, c, d, e, n
  <2>3. d = a
    <3>1. \A k \in 1..(i - 1) : k \in 1..n /\ k # i
      BY <1>1
    <3>2. \A k \in 1..(i - 1) : d[k] = a[k]
      BY <1>2, <2>1, <2>2, <3>1
    <3> QED  BY <2>1, <2>2, <3>2, SeqEqual
  <2>4. e = c
    <3>1. \A k \in 1..(n - i) : i + k \in 1..n /\ i + k # i
      BY <1>1
    <3>2. \A k \in 1..(n - i) : e[k] = c[k]
      BY <1>2, <2>1, <2>2, <3>1
    <3> QED  BY <2>1, <2>2, <3>2, SeqEqual
  <2> QED  BY <1>2, <2>2, <2>3, <2>4
<1> HIDE DEF u, n, a, c, sel, old
<1>5. ASSUME NEW cp \in Nat, NEW b \in Byte, SelectorToByte(cp) = b, b # NoByte
      PROVE  /\ a \o <<cp>> \in Seq(Nat) /\ Hidden(a \o <<cp>>) = ha \o <<b>>
             /\ Hidden((a \o <<cp>>) \o c) = (ha \o <<b>>) \o hc
  <2>1. <<cp>> \in Seq(Nat) /\ Hidden(<<cp>>) = <<b>>
    BY <1>5, OneCharacter
  <2> DEFINE one == <<cp>>
  <2> HIDE DEF one
  <2>2. a \o one \in Seq(Nat)
    BY <1>3, <2>1 DEF one
  <2>3. Hidden(a \o one) = Hidden(a) \o Hidden(one)
    BY <1>3, <2>1, HiddenConcat DEF one
  <2>4. Hidden((a \o one) \o c) = Hidden(a \o one) \o Hidden(c)
    BY <1>3, <2>2, HiddenConcat
  <2> QED  BY <2>1, <2>2, <2>3, <2>4 DEF one
<1>6. /\ Hidden(t) = (ha \o <<old>>) \o hc /\ Hidden(u) = (ha \o <<byte>>) \o hc
      /\ Hidden(SubSeq(t, 1, i)) = ha \o <<old>>
  <2>1. /\ Hidden(a \o <<t[i]>>) = ha \o <<old>>
        /\ Hidden((a \o <<t[i]>>) \o c) = (ha \o <<old>>) \o hc
    BY <1>1, <1>5 DEF old
  <2>2. Hidden((a \o <<sel>>) \o c) = (ha \o <<byte>>) \o hc
    BY <1>1, <1>5
  <2> QED  BY <1>3, <1>4, <2>1, <2>2
<1>7. ha \in Seq(Byte) /\ hc \in Seq(Byte)
  BY <1>3, HiddenType
<1> HIDE DEF ha, hc
<1>8. ASSUME NEW b \in Byte
      PROVE  LET all == (ha \o <<b>>) \o hc
                 p == Len(ha) + 1
             IN /\ Len(ha \o <<b>>) = p /\ Len(all) = p + Len(hc)
                /\ \A k \in 1..Len(ha) : all[k] = ha[k]
                /\ all[p] = b
                /\ \A k \in 1..Len(hc) : all[p + k] = hc[k]
  <2> DEFINE one == <<b>>
             first == ha \o one
             all == first \o hc
  <2>1. one \in Seq(Byte) /\ Len(one) = 1 /\ one[1] = b
    OBVIOUS
  <2> HIDE DEF one
  <2>2. /\ first \in Seq(Byte) /\ Len(first) = Len(ha) + 1
        /\ \A k \in 1..Len(ha) : first[k] = ha[k]
        /\ \A k \in 1..1 : first[Len(ha) + k] = one[k]
    <3>1. ha \in Seq(Byte) /\ one \in Seq(Byte)
      BY <1>7, <2>1
    <3>2. /\ first \in Seq(Byte) /\ Len(first) = Len(ha) + Len(one)
          /\ \A k \in 1..Len(ha) : first[k] = ha[k]
          /\ \A k \in 1..Len(one) : first[Len(ha) + k] = one[k]
      BY <3>1, Joined
    <3> QED  BY <2>1, <3>2
  <2> HIDE DEF first
  <2>3. /\ Len(all) = Len(first) + Len(hc)
        /\ \A k \in 1..Len(first) : all[k] = first[k]
        /\ \A k \in 1..Len(hc) : all[Len(first) + k] = hc[k]
    <3>1. first \in Seq(Byte) /\ hc \in Seq(Byte)
      BY <1>7, <2>2
    <3> QED  BY <3>1, Joined
  <2> HIDE DEF all
  <2>4. Len(ha) \in Nat /\ first[Len(ha) + 1] = b
    BY <1>7, <2>1, <2>2
  <2>5. all[Len(ha) + 1] = b /\ \A k \in 1..Len(ha) : all[k] = ha[k]
    BY <2>2, <2>3, <2>4
  <2> QED  BY <2>2, <2>3, <2>5 DEF all, first, one
<1> DEFINE g == Hidden(u)
           h == Hidden(t)
           p == Len(ha) + 1
<1>9. /\ Len(h) = p + Len(hc) /\ Len(g) = p + Len(hc) /\ Len(Hidden(SubSeq(t, 1, i))) = p
      /\ h[p] = old /\ g[p] = byte
      /\ \A k \in 1..Len(ha) : h[k] = ha[k] /\ g[k] = ha[k]
      /\ \A k \in 1..Len(hc) : h[p + k] = hc[k] /\ g[p + k] = hc[k]
  <2>1. old \in Byte /\ byte \in Byte
    BY <1>1
  <2>2. /\ h = (ha \o <<old>>) \o hc /\ g = (ha \o <<byte>>) \o hc
        /\ Hidden(SubSeq(t, 1, i)) = ha \o <<old>>
    BY <1>6
  <2> HIDE DEF g, h, old
  <2>3. /\ Len(ha \o <<old>>) = p /\ Len(h) = p + Len(hc) /\ h[p] = old
        /\ \A k \in 1..Len(ha) : h[k] = ha[k]
        /\ \A k \in 1..Len(hc) : h[p + k] = hc[k]
    BY <1>8, <2>1, <2>2
  <2>4. /\ Len(g) = p + Len(hc) /\ g[p] = byte
        /\ \A k \in 1..Len(ha) : g[k] = ha[k]
        /\ \A k \in 1..Len(hc) : g[p + k] = hc[k]
    BY <1>8, <2>1, <2>2
  <2> QED  BY <2>2, <2>3, <2>4
<1> HIDE DEF g, h
<1>10. Len(ha) \in Nat /\ Len(hc) \in Nat
  BY <1>7
<1>11. ASSUME NEW k \in 1..Len(h), k # p
       PROVE  g[k] = h[k]
  <2>1. CASE k <= Len(ha)
    BY <1>9, <1>10, <2>1
  <2>2. CASE k > Len(ha)
    <3> DEFINE x == k - p
    <3>1. x \in 1..Len(hc) /\ k = p + x
      BY <1>9, <1>10, <1>11, <2>2
    <3> HIDE DEF x, p
    <3> QED  BY <1>9, <3>1
  <2> QED  BY <1>10, <2>1, <2>2
<1>12. OneOff(g, h, p)
  BY <1>1, <1>9, <1>10, <1>11 DEF OneOff
<1> QED  BY <1>2, <1>9, <1>12 DEF g, h, u, sel

\* A block in front stays in front, whatever is appended.
LEMMA Followed ==
  ASSUME NEW bytes \in Seq(Byte), NEW more \in Seq(Byte), NEW m \in Seq(Byte),
         Sits(bytes, 1, m)
  PROVE  Sits(bytes \o more, 1, m)
<1> DEFINE n == Len(m)
           all == bytes \o more
           block == Block(m)
<1>1. /\ n \in Nat /\ Len(bytes) \in Nat /\ Len(more) \in Nat
      /\ 1 + 10 + n <= Len(bytes)
      /\ \A k \in 1..(11 + n) : bytes[1 + k - 1] = block[k]
  BY DEF Sits
<1>2. Len(all) = Len(bytes) + Len(more) /\ \A k \in 1..Len(bytes) : all[k] = bytes[k]
  BY Joined
<1> HIDE DEF n, all, block
<1>3. 1 + 10 + n <= Len(all)
  BY <1>1, <1>2
<1>4. \A k \in 1..(11 + n) : k \in 1..Len(bytes) /\ 1 + k - 1 = k
  BY <1>1
<1>5. \A k \in 1..(11 + n) : all[1 + k - 1] = block[k]
  BY <1>1, <1>2, <1>4
<1> QED  BY <1>3, <1>5 DEF Sits, n, all, block

LEMMA InitInv == Init => Inv
  BY TextAssumption DEF Init, Inv

LEMMA MarkInv ==
  ASSUME Inv, NEW m \in Messages, Mark(m)
  PROVE  Inv' /\ Visible(text') = Visible(text)
<1> DEFINE clean == Visible(text)
           block == Block(m)
<1>1. m \in Seq(Byte) /\ Len(m) <= MaxPayload /\ text \in Seq(Nat) /\ edits' \in Nat
  BY TextAssumption DEF Mark, Inv
<1>2. clean \in Seq(Plain) /\ block \in Seq(Byte) /\ Len(clean) \in Nat /\ Len(block) \in Nat
  <2>1. clean \in Seq(Plain) /\ block \in Seq(Byte)
    BY <1>1, VisibleType, BlockShape
  <2> HIDE DEF clean, block
  <2> QED  BY <2>1
<1>3. CASE Len(clean) < Len(block)
  <2>1. text' = clean /\ state' = "unmarked"
    BY <1>3 DEF Mark, Encode
  <2>2. text' \in Seq(Nat) /\ Hidden(text') = <<>> /\ Visible(text') = clean
    BY <1>2, <2>1, PlainText
  <2> QED  BY <1>1, <2>1, <2>2 DEF Inv
<1>4. CASE ~ (Len(clean) < Len(block))
  <2>1. text' = Encode(m, text) /\ message' = m /\ state' = "whole"
    BY <1>4 DEF Mark
  <2>2. Len(clean) >= Len(block)
    <3> HIDE DEF clean, block
    <3> QED  BY <1>2, <1>4
  <2>3. text' \in Seq(Nat) /\ Hidden(text') = block /\ Visible(text') = clean
    BY <1>1, <2>1, <2>2, EncodeHides
  <2>4. Sits(block, 1, m)
    <3>1. Len(block) = 11 + Len(m) /\ Len(m) \in Nat
      BY <1>1, BlockShape
    <3> HIDE DEF block
    <3>2. 1 + 10 + Len(m) <= Len(block) /\ \A k \in 1..(11 + Len(m)) : 1 + k - 1 = k
      BY <3>1
    <3> QED  BY <3>2 DEF Sits, block
  <2> QED  BY <1>1, <2>1, <2>3, <2>4, Zenon DEF Inv
<1> QED  BY <1>3, <1>4

LEMMA RetypeInv ==
  ASSUME Inv, Retype
  PROVE  Inv'
<1>1. text \in Seq(Nat) /\ edits' \in Nat /\ state' = state /\ message' = message
  BY DEF Retype, Edit, Inv
<1>2. text' \in Seq(Nat) /\ Hidden(text') = Hidden(text)
  <2>1. PICK i \in {1, Len(text) \div 2, Len(text) \div 2 + 1, Len(text)} \cap DOMAIN text :
          \/ \E letter \in Letters : text' = InsertAt(text, i, letter)
          \/ SelectorToByte(text[i]) = NoByte /\ text' = RemoveAt(text, i)
    BY DEF Retype
  <2>2. i \in DOMAIN text
    BY <2>1
  <2>3. CASE \E letter \in Letters : text' = InsertAt(text, i, letter)
    BY <1>1, <2>2, <2>3, Inserted
  <2>4. CASE SelectorToByte(text[i]) = NoByte /\ text' = RemoveAt(text, i)
    BY <1>1, <2>2, <2>4, Removed
  <2> QED  BY <2>1, <2>3, <2>4
<1> QED  BY <1>1, <1>2 DEF Inv

LEMMA QuoteInv ==
  ASSUME Inv, Quote
  PROVE  Inv'
<1>1. text \in Seq(Nat) /\ edits' \in Nat /\ message' = message
  BY DEF Quote, Edit, Inv
<1>2. PICK scrap \in Scraps :
        \/ /\ text' = text \o scrap
           /\ state' = IF Hidden(scrap) = <<>> THEN state
                       ELSE IF state \in {"whole", "followed"} THEN "followed" ELSE "mixed"
        \/ /\ text' = scrap \o text
           /\ state' = IF Hidden(scrap) = <<>> THEN state ELSE "mixed"
  BY DEF Quote
<1> DEFINE old == Hidden(text)
           more == Hidden(scrap)
<1>3. scrap \in Seq(Nat) /\ old \in Seq(Byte) /\ more \in Seq(Byte)
  BY <1>1, TextAssumption, HiddenType
<1>4. old \o <<>> = old /\ <<>> \o old = old
  BY <1>3, ConcatEmptySeq
<1>5. /\ text \o scrap \in Seq(Nat) /\ Hidden(text \o scrap) = old \o more
      /\ scrap \o text \in Seq(Nat) /\ Hidden(scrap \o text) = more \o old
  BY <1>1, <1>3, HiddenConcat
<1>6. text' \in Seq(Nat)
  BY <1>2, <1>5
<1>7. /\ state = "unmarked" => old = <<>>
      /\ state \in {"whole", "followed", "damaged"} =>
           message \in Seq(Byte) /\ Len(message) <= MaxPayload
      /\ state \in {"whole", "followed"} => Sits(old, 1, message)
      /\ state = "whole" => old = Block(message)
      /\ state = "damaged" => \E p \in Nat \ {6, 7} : OneOff(old, Block(message), p)
  BY DEF Inv
<1>8. CASE more = <<>> /\ Hidden(text') = old /\ state' = state
  BY <1>1, <1>6, <1>7, <1>8 DEF Inv
<1>9. CASE Hidden(text') = old \o more /\ state' = "followed" /\ state \in {"whole", "followed"}
  <2>1. message \in Seq(Byte) /\ Len(message) <= MaxPayload /\ Sits(old, 1, message)
    BY <1>7, <1>9
  <2> HIDE DEF old, more
  <2>2. Sits(old \o more, 1, message)
    BY <1>3, <2>1, Followed
  <2> QED  BY <1>1, <1>6, <1>9, <2>1, <2>2 DEF Inv
<1>10. CASE state' = "mixed"
  BY <1>1, <1>6, <1>10 DEF Inv
<1> QED  BY <1>2, <1>4, <1>5, <1>8, <1>9, <1>10

LEMMA DamageInv ==
  ASSUME Inv, Damage
  PROVE  Inv'
<1>1. /\ text \in Seq(Nat) /\ edits' \in Nat /\ message' = message
      /\ state' \in {"damaged", "mixed"}
  BY DEF Damage, Edit, Inv
<1>2. PICK i \in DOMAIN text, byte \in Byte :
        /\ SelectorToByte(text[i]) \notin {NoByte, byte}
        /\ text' = [text EXCEPT ![i] = ByteToSelector(byte)]
        /\ state' = IF state = "whole" /\ Len(Hidden(SubSeq(text, 1, i))) \notin {6, 7}
                    THEN "damaged" ELSE "mixed"
  BY DEF Damage
<1> DEFINE p == Len(Hidden(SubSeq(text, 1, i)))
<1>3. text' \in Seq(Nat) /\ OneOff(Hidden(text'), Hidden(text), p)
  BY <1>1, <1>2, Replaced
<1>4. ASSUME state' = "damaged"
      PROVE  /\ message' \in Seq(Byte) /\ Len(message') <= MaxPayload
             /\ \E q \in Nat \ {6, 7} : OneOff(Hidden(text'), Block(message'), q)
  <2>1. state = "whole" /\ p \notin {6, 7}
    BY <1>2, <1>4
  <2>2. message \in Seq(Byte) /\ Len(message) <= MaxPayload /\ Hidden(text) = Block(message)
    BY <2>1 DEF Inv
  <2> HIDE DEF p
  <2>3. p \in Nat \ {6, 7}
    BY <1>3, <2>1 DEF OneOff
  <2> QED  BY <1>1, <1>3, <2>2, <2>3
<1>5. state' \notin {"unmarked", "whole", "followed"}
  BY <1>1
<1> QED  BY <1>1, <1>3, <1>4, <1>5 DEF Inv

LEMMA NextInv == Inv /\ [Next]_vars => Inv'
<1> SUFFICES ASSUME Inv, [Next]_vars
             PROVE  Inv'
  OBVIOUS
<1>1. CASE \E m \in Messages : Mark(m)
  BY <1>1, MarkInv
<1>2. CASE Retype
  BY <1>2, RetypeInv
<1>3. CASE Quote
  BY <1>3, QuoteInv
<1>4. CASE Damage
  BY <1>4, DamageInv
<1>5. CASE UNCHANGED vars
  BY <1>5 DEF Inv, vars
<1> QED  BY <1>1, <1>2, <1>3, <1>4, <1>5 DEF Next

LEMMA Invariance == Spec => []Inv
  BY InitInv, NextInv, PTL DEF Spec

\* decode answers the first of the blocks that encode might have written into the hidden
\* bytes, and nothing if there is none: its scan over magics that are none, lengths that
\* lead beyond the end and checksums that fail neither misses a block nor invents one.
THEOREM DecodeFindsTheFirst == Spec => []FindsTheFirst
<1>1. Inv => FindsTheFirst
  <2> SUFFICES ASSUME Inv
               PROVE  FindsTheFirst
    OBVIOUS
  <2>1. Hidden(text) \in Seq(Byte)
    BY HiddenType DEF Inv
  <2>2. ReadsTheFirst(Hidden(text))
    BY <2>1, ScanReadsTheFirst
  <2> QED  BY <2>2, Zenon DEF FindsTheFirst, ReadsTheFirst, Decode
<1> QED  BY <1>1, Invariance, PTL

\* A mark is found again after any editing of the visible text and behind it any other
\* text, whatever that hides: decode stops at the block encode wrote.
THEOREM MarksAreFound == Spec => []MarkIsFound
<1>1. Inv => MarkIsFound
  <2> SUFFICES ASSUME Inv, state \in {"whole", "followed"}
               PROVE  Decode(text) = TextOf(message)
    BY DEF MarkIsFound
  <2> DEFINE bytes == Hidden(text)
             found == {s \in Starts(bytes) : Accepts(bytes, s)}
  <2>1. /\ bytes \in Seq(Byte) /\ message \in Seq(Byte) /\ Len(message) <= MaxPayload
        /\ Sits(bytes, 1, message)
    BY HiddenType DEF Inv
  <2>2. 1 \in found /\ Payload(bytes, 1) = message
    BY <2>1, SitsAccepted
  <2>3. found \in SUBSET Nat /\ \A s \in found : 1 <= s
    BY DEF Starts
  <2>4. Scan(bytes) =
          IF found = {} THEN NoMessage ELSE TextOf(Payload(bytes, Min(found)))
    BY DEF Scan
  <2> HIDE DEF found
  <2>5. Min(found) \in found /\ Min(found) <= 1
    BY <2>2, <2>3, MinIsLeast
  <2>6. Min(found) = 1
    <3> DEFINE first == Min(found)
    <3>1. first \in Nat /\ first <= 1 /\ 1 <= first
      BY <2>3, <2>5
    <3> HIDE DEF first
    <3>2. first = 1
      BY <3>1
    <3> QED  BY <3>2 DEF first
  <2> QED  BY <2>2, <2>4, <2>6 DEF Decode
<1> QED  BY <1>1, Invariance, PTL

\* A block with one byte that is not of its length damaged is not a block of any message.
LEMMA OneOffIsNone ==
  ASSUME NEW bytes \in Seq(Byte), NEW m \in Seq(Byte), Len(m) <= MaxPayload,
         NEW p \in Nat \ {6, 7}, OneOff(bytes, Block(m), p),
         NEW w \in Seq(Byte), Len(w) <= MaxPayload, Sits(bytes, 1, w)
  PROVE  FALSE
<1> DEFINE n == Len(m)
           block == Block(m)
           head == BlockHead(m)
           other == BlockHead(w)
           check == Uint32(Crc(head))
           seen == Uint32(Crc(other))
<1>1. /\ n \in Nat /\ Len(block) = 11 + n /\ Len(bytes) = 11 + n /\ p \in 1..(11 + n)
      /\ bytes[p] # block[p] /\ \A k \in 1..(11 + n) : k # p => bytes[k] = block[k]
  <2>1. n \in Nat /\ Len(block) = 11 + n
    BY BlockShape
  <2> HIDE DEF block, n
  <2> QED  BY <2>1 DEF OneOff, block, n
<1>2. /\ head \in Seq(Byte) /\ Len(head) = 7 + n
      /\ \A k \in 1..4 : head[k] = Magic[k]
      /\ head[5] = Version /\ head[6] = Uint16(n)[1] /\ head[7] = Uint16(n)[2]
      /\ \A k \in 1..(7 + n) : block[k] = head[k]
      /\ \A k \in 1..4 : block[7 + n + k] = check[k]
  BY BlockHeadShape, BlockShape
<1>3. \A k \in 1..(11 + Len(w)) : bytes[k] = Block(w)[k]
  <2>1. \A k \in 1..(11 + Len(w)) : 1 + k - 1 = k
    OBVIOUS
  <2> QED  BY <2>1 DEF Sits
<1>4. Len(w) = n
  <2> DEFINE v == Len(w)
             a == Uint16(n)
             b == Uint16(v)
  <2>1. v \in 0..MaxPayload /\ n \in 0..MaxPayload /\ v \in Nat
    BY DEF MaxPayload
  <2>2. other[6] = b[1] /\ other[7] = b[2] /\ \A k \in 1..(7 + v) : Block(w)[k] = other[k]
    BY BlockHeadShape, BlockShape
  <2> HIDE DEF other, head, v, n, block
  <2>3. bytes[6] = b[1] /\ bytes[7] = b[2]
    <3>1. 6 \in 1..(11 + v) /\ 7 \in 1..(11 + v) /\ 6 \in 1..(7 + v) /\ 7 \in 1..(7 + v)
      BY <2>1
    <3> QED  BY <1>3, <2>2, <3>1 DEF v
  <2>4. bytes[6] = a[1] /\ bytes[7] = a[2]
    <3>1. 6 \in 1..(11 + n) /\ 7 \in 1..(11 + n) /\ 6 \in 1..(7 + n) /\ 7 \in 1..(7 + n)
      BY <1>1
    <3> QED  BY <1>1, <1>2, <3>1
  <2>5. /\ a[1] * Radix + a[2] = n
        /\ b[1] * Radix + b[2] = v
    <3>1. \A x \in 0..MaxPayload : Uint16(x)[1] * Radix + Uint16(x)[2] = x
      BY LengthRoundTrip
    <3> QED  BY <2>1, <3>1
  <2> QED  BY <2>3, <2>4, <2>5 DEF v
<1>5. /\ other \in Seq(Byte) /\ Len(other) = 7 + n
      /\ \A k \in 1..4 : other[k] = Magic[k]
      /\ other[5] = Version /\ other[6] = Uint16(n)[1] /\ other[7] = Uint16(n)[2]
      /\ \A k \in 1..(7 + n) : Block(w)[k] = other[k]
      /\ \A k \in 1..4 : Block(w)[7 + n + k] = seen[k]
  <2> DEFINE v == Len(w)
  <2>1. /\ other \in Seq(Byte) /\ Len(other) = 7 + v
        /\ \A k \in 1..4 : other[k] = Magic[k]
        /\ other[5] = Version /\ other[6] = Uint16(v)[1] /\ other[7] = Uint16(v)[2]
        /\ \A k \in 1..(7 + v) : Block(w)[k] = other[k]
        /\ \A k \in 1..4 : Block(w)[7 + v + k] = seen[k]
    BY BlockHeadShape, BlockShape
  <2>2. v = n
    BY <1>4
  <2> HIDE DEF v, n, other, seen
  <2> QED  BY <2>1, <2>2
<1>6. /\ Crc(head) \in Word /\ Crc(other) \in Word
      /\ Len(check) = 4 /\ Len(seen) = 4 /\ check \in Seq(Byte) /\ seen \in Seq(Byte)
  BY <1>2, <1>5, CrcType, Uint32Type
<1> HIDE DEF n, block, head, other, check, seen
<1>7. /\ \A k \in 1..(7 + n) : bytes[k] = other[k]
      /\ \A k \in 1..4 : bytes[7 + n + k] = seen[k]
  <2>1. \A k \in 1..(7 + n) : k \in 1..(11 + n)
    BY <1>1
  <2>2. \A k \in 1..4 : 7 + n + k \in 1..(11 + n)
    BY <1>1
  <2>3. \A k \in 1..(11 + n) : bytes[k] = Block(w)[k]
    BY <1>3, <1>4
  <2> QED  BY <1>5, <2>1, <2>2, <2>3
<1>8. CASE p <= 7 + n
  <2>1. p \in 1..(7 + n) /\ other[p] # head[p]
    BY <1>1, <1>2, <1>7, <1>8
  <2>2. ASSUME NEW k \in 1..(7 + n), k # p
        PROVE  head[k] = other[k]
    <3>1. k \in 1..(11 + n)
      BY <1>1
    <3> QED  BY <1>1, <1>2, <1>7, <2>2, <3>1
  <2>3. Crc(head) # Crc(other)
    <3>1. /\ head \in Seq(Byte) /\ other \in Seq(Byte) /\ Len(head) = Len(other)
          /\ p \in 1..Len(head) /\ head[p] # other[p]
          /\ \A k \in 1..Len(head) : k # p => head[k] = other[k]
      BY <1>2, <1>5, <2>1, <2>2
    <3> QED  BY <3>1, CrcSeesOne
  <2>4. check = seen
    <3>1. ASSUME NEW k \in 1..4
          PROVE  check[k] = seen[k]
      <4>1. 7 + n + k \in 1..(11 + n) /\ 7 + n + k # p
        BY <1>1, <2>1
      <4>2. check[k] = block[7 + n + k] /\ seen[k] = bytes[7 + n + k]
        BY <1>2, <1>7
      <4>3. block[7 + n + k] = bytes[7 + n + k]
        BY <1>1, <4>1
      <4> QED  BY <4>2, <4>3
    <3> QED  BY <1>6, <3>1, SeqEqual
  <2> QED  BY <1>6, <2>3, <2>4, Uint32Keeps DEF check, seen
<1>9. CASE p > 7 + n
  <2>1. ASSUME NEW k \in 1..(7 + n)
        PROVE  head[k] = other[k]
    <3>1. k \in 1..(11 + n) /\ k # p
      BY <1>1, <1>9
    <3> QED  BY <1>1, <1>2, <1>7, <3>1
  <2>2. head = other
    <3>1. /\ head \in Seq(Byte) /\ other \in Seq(Byte) /\ Len(head) = Len(other)
          /\ \A k \in 1..Len(head) : head[k] = other[k]
      BY <1>2, <1>5, <2>1
    <3> QED  BY <3>1, SeqEqual
  <2>3. p - (7 + n) \in 1..4 /\ 7 + n + (p - (7 + n)) = p
    BY <1>1, <1>9
  <2>4. bytes[p] = seen[p - (7 + n)] /\ block[p] = check[p - (7 + n)]
    BY <1>2, <1>7, <2>3
  <2>5. seen = check
    BY <2>2 DEF seen, check
  <2> QED  BY <1>1, <2>4, <2>5
<1> QED  BY <1>1, <1>8, <1>9

\* A mark with one byte damaged, of whatever field but the length, is never read as what
\* it was or as anything else: no message has that block, and what decode still finds
\* begins behind it.
THEOREM DamageIsRefused == Spec => []DamageIsSeen
<1>1. Inv => DamageIsSeen
  <2> SUFFICES ASSUME Inv, state = "damaged"
               PROVE  LET bytes == Hidden(text)
                      IN /\ WrittenAt(bytes, 1) = {}
                         /\ \/ Decode(text) = NoMessage
                            \/ \E s \in 2..(Len(bytes) - 10) :
                                 \E m \in WrittenAt(bytes, s) : Decode(text) = TextOf(m)
    BY DEF DamageIsSeen
  <2> DEFINE bytes == Hidden(text)
             starts == {s \in 1..(Len(bytes) - 10) :
                          SubSeq(bytes, s, s + 3) = Magic /\ WrittenAt(bytes, s) # {}}
  <2>1. bytes \in Seq(Byte) /\ message \in Seq(Byte) /\ Len(message) <= MaxPayload
    BY HiddenType DEF Inv
  <2>2. PICK p \in Nat \ {6, 7} : OneOff(bytes, Block(message), p)
    BY DEF Inv
  <2>3. 1 \in 1..(Len(bytes) - 10)
    <3>1. Len(bytes) = 11 + Len(message) /\ Len(message) \in Nat
      BY <2>1, <2>2, BlockShape DEF OneOff
    <3> QED  BY <3>1
  <2>4. Decode(text) = Scan(bytes)
    BY DEF Decode
  <2>5. IF starts = {} THEN Scan(bytes) = NoMessage
        ELSE \E s \in starts : /\ \A other \in starts : s <= other
                               /\ \E m \in WrittenAt(bytes, s) : Scan(bytes) = TextOf(m)
    BY <2>1, ScanReadsTheFirst DEF ReadsTheFirst
  <2> HIDE DEF bytes
  <2>6. WrittenAt(bytes, 1) = {}
    <3> SUFFICES ASSUME NEW w \in WrittenAt(bytes, 1)
                 PROVE  FALSE
      OBVIOUS
    <3>1. w \in Seq(Byte) /\ Len(w) <= MaxPayload /\ Sits(bytes, 1, w)
      BY <2>1, <2>3, WrittenSits
    <3> QED  BY <2>1, <2>2, <3>1, OneOffIsNone
  <2>7. \A s \in starts : s \in 2..(Len(bytes) - 10)
    <3> SUFFICES ASSUME NEW s \in 1..(Len(bytes) - 10), WrittenAt(bytes, s) # {}
                 PROVE  s \in 2..(Len(bytes) - 10)
      OBVIOUS
    <3>1. s # 1
      BY <2>6
    <3>2. Len(bytes) \in Nat
      BY <2>1
    <3> QED  BY <3>1, <3>2
  <2> HIDE DEF starts
  <2>8. \/ Scan(bytes) = NoMessage
        \/ \E s \in 2..(Len(bytes) - 10) :
             \E m \in WrittenAt(bytes, s) : Scan(bytes) = TextOf(m)
    BY <2>5, <2>7
  <2> QED  BY <2>4, <2>6, <2>8 DEF bytes
<1> QED  BY <1>1, Invariance, PTL

\* A text too short for its message hides nothing any more: encode strips the selectors
\* of an older mark before it finds that it has too few characters.
THEOREM NothingIsLeftBehind == Spec => []NothingLeftBehind
<1>1. Inv => NothingLeftBehind
  <2> SUFFICES ASSUME Inv, state = "unmarked"
               PROVE  Decode(text) = NoMessage
    BY DEF NothingLeftBehind
  <2>1. Hidden(text) = <<>>
    BY DEF Inv
  <2>2. Starts(<<>>) = {}
    BY DEF Starts, MinimumLength
  <2> QED  BY <2>1, <2>2 DEF Decode, Scan
<1> QED  BY <1>1, Invariance, PTL

\* Marking a text changes nothing that can be seen in it, whether the message fits, is
\* too long, or there was another mark before.
THEOREM MarkingStaysInvisible == Spec => VisibleStays
<1>1. Inv /\ [Next]_vars => [edits' = edits => Visible(text') = Visible(text)]_vars
  <2> SUFFICES ASSUME Inv, Next, edits' = edits
               PROVE  Visible(text') = Visible(text)
    OBVIOUS
  <2>1. ~ Edit
    BY DEF Edit, Inv
  <2>2. PICK m \in Messages : Mark(m)
    BY <2>1 DEF Next, Retype, Quote, Damage
  <2> QED  BY <2>2, MarkInv
<1> QED  BY <1>1, Invariance, PTL DEF Spec, VisibleStays
=============================================================================

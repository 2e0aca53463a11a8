------------------------------- MODULE Vsmark -------------------------------
(***************************************************************************)
(* The text watermark (src/plugins/vsmark/src/codec.ts): a message hidden  *)
(* in a text as a framed block of bytes, each an invisible variation       *)
(* selector behind a character, and found again in whatever the text has   *)
(* become.  A text is a sequence of code points, a message the sequence of *)
(* its UTF-8 bytes.  All the numbers of the format are the code's but the  *)
(* width of a byte, and with it that of the checksum, which is four bytes. *)
(***************************************************************************)
EXTENDS Integers, SequencesExt

CONSTANTS
    ByteBits,       \* 8 in the code
    Split,          \* bytes below it become selectors of the first range: 16
    Low, High,      \* where the two ranges of selectors begin: U+FE00, U+E0100
    Magic, Version, \* "VSR1", 1
    Poly,           \* the reversed polynomial of the checksum: 0xEDB88320
    Bom,            \* the UTF-8 bytes of U+FEFF
    NoMessage,      \* undefined
    Carriers,       \* texts as they are before anything is hidden in them
    Messages,       \* messages, among them some that are too long
    Scraps,         \* what texts are quoted between
    Letters,        \* visible characters that editing adds
    MaxEdits        \* changes to a text

Radix == 2 ^ ByteBits
Byte == 0..(Radix - 1)
CrcMask == Radix * Radix * Radix * Radix - 1

\* What powers of two are.
ASSUME PowerAssumption == \A n \in 1..ByteBits : 2 ^ n = 2 * 2 ^ (n - 1)

\* The polynomial has its constant term, which stands in the highest bit.
ASSUME FormatAssumption ==
    /\ ByteBits \in Nat \ {0}
    /\ Low \in Nat /\ High \in Nat /\ Split \in Byte
    /\ Low + Split <= High
    /\ Magic \in [1..4 -> Byte] /\ Version \in Byte
    /\ Poly \in 0..CrcMask /\ 2 * Poly > CrcMask

VARIABLES
    text,       \* the text, with what is hidden in it
    message,    \* history: the message of the last mark, NoMessage if it did not fit
    state,      \* history: what has happened to that mark
    edits       \* how often the text has been changed

vars == <<text, message, state, edits>>

-----------------------------------------------------------------------------
(* Checksum *)

\* Exclusive or of two words of the checksum's width, bit by bit.
Xor(a, b) ==
    LET xor[n \in 0..(4 * ByteBits)] ==
          [w \in Nat \X Nat |->
              IF n = 0 THEN 0
              ELSE ((w[1] + w[2]) % 2) + 2 * xor[n - 1][<<w[1] \div 2, w[2] \div 2>>]]
    IN xor[4 * ByteBits][<<a, b>>]

Shift(c) == IF c % 2 = 1 THEN Xor(Poly, c \div 2) ELSE c \div 2

\* buildCrc32Table: a byte shifted out bit by bit.
CrcTable ==
    [i \in Byte |->
        LET c[j \in 0..ByteBits] == IF j = 0 THEN i ELSE Shift(c[j - 1])
        IN c[ByteBits]]

\* Mutant: the table is indexed by the byte alone.
FeedUnchained(crc, byte) == Xor(CrcTable[byte], crc \div Radix)

Feed(crc, byte) == Xor(CrcTable[Xor(crc, byte) % Radix], crc \div Radix)

Crc(bytes) ==
    LET crc[k \in 0..Len(bytes)] == IF k = 0 THEN CrcMask ELSE Feed(crc[k - 1], bytes[k])
    IN Xor(crc[Len(bytes)], CrcMask)

\* The last two bytes of a number, and the last four, the highest first.
Uint16(n) == <<(n \div Radix) % Radix, n % Radix>>
Uint32(n) == Uint16(n \div (Radix * Radix)) \o Uint16(n)

-----------------------------------------------------------------------------
(* Selectors *)

ByteToSelector(byte) == IF byte < Split THEN Low + byte ELSE High + byte - Split

NoByte == -1

\* Mutant: the last selector of the first range is missed.
SelectorToByteExclusive(cp) ==
    IF cp \in Low..(Low + Split - 2) THEN cp - Low
    ELSE IF cp \in High..(High + Radix - Split - 1) THEN Split + (cp - High)
    ELSE NoByte

SelectorToByte(cp) ==
    IF cp \in Low..(Low + Split - 1) THEN cp - Low
    ELSE IF cp \in High..(High + Radix - Split - 1) THEN Split + (cp - High)
    ELSE NoByte

\* removeVariationSelectors
Visible(t) ==
    FlattenSeq([k \in DOMAIN t |-> IF SelectorToByte(t[k]) = NoByte THEN <<t[k]>> ELSE <<>>])

Hidden(t) ==
    FlattenSeq([k \in DOMAIN t |->
        IF SelectorToByte(t[k]) = NoByte THEN <<>> ELSE <<SelectorToByte(t[k])>>])

\* What is hidden is bytes, and what editing adds can be seen.
ASSUME TextAssumption ==
    /\ Carriers \subseteq Seq(Nat) /\ Scraps \subseteq Seq(Nat) /\ Messages \subseteq Seq(Byte)
    /\ \A letter \in Letters : letter \in Nat /\ SelectorToByte(letter) = NoByte

-----------------------------------------------------------------------------
(* encode *)

MaxPayload == Radix * Radix - 1

Block(m) ==
    LET head == Magic \o <<Version>> \o Uint16(Len(m)) \o m
    IN head \o Uint32(Crc(head))

\* Mutant: a carrier that is too short is returned as it came.
EncodeKeepingCarrier(m, carrier) ==
    LET clean == Visible(carrier)
        block == Block(m)
    IN IF Len(clean) < Len(block) THEN carrier
       ELSE FlattenSeq([k \in DOMAIN clean |->
              IF k <= Len(block) THEN <<clean[k], ByteToSelector(block[k])>> ELSE <<clean[k]>>])

\* Mutant: the text ends with the block.
EncodeCuttingOff(m, carrier) ==
    LET clean == Visible(carrier)
        block == Block(m)
    IN IF Len(clean) < Len(block) THEN clean
       ELSE FlattenSeq([k \in DOMAIN block |-> <<clean[k], ByteToSelector(block[k])>>])

\* A selector behind each of the first characters, if there are enough of them.
Encode(m, carrier) ==
    LET clean == Visible(carrier)
        block == Block(m)
    IN IF Len(clean) < Len(block) THEN clean
       ELSE FlattenSeq([k \in DOMAIN clean |->
              IF k <= Len(block) THEN <<clean[k], ByteToSelector(block[k])>> ELSE <<clean[k]>>])

-----------------------------------------------------------------------------
(* decode *)

MinimumLength == 11

\* TextDecoder drops a byte order mark in front.
TextOf(payload) ==
    IF IsPrefix(Bom, payload) THEN SubSeq(payload, Len(Bom) + 1, Len(payload)) ELSE payload

PayloadLength(bytes, start) == bytes[start + 5] * Radix + bytes[start + 6]

\* The block that starts here is whole: magic, version, length, checksum.
Accepts(bytes, start) ==
    LET payloadEnd == start + 7 + PayloadLength(bytes, start)
    IN /\ SubSeq(bytes, start, start + 3) = Magic
       /\ bytes[start + 4] = Version
       /\ payloadEnd + 4 <= Len(bytes) + 1
       /\ SubSeq(bytes, payloadEnd, payloadEnd + 3) =
            Uint32(Crc(SubSeq(bytes, start, payloadEnd - 1)))

Payload(bytes, start) == SubSeq(bytes, start + 7, start + 6 + PayloadLength(bytes, start))

Starts(bytes) == 1..(Len(bytes) - MinimumLength + 1)

\* Mutant: the search ends at the first magic, intact or not.
ScanOnce(bytes) ==
    LET found == {s \in Starts(bytes) : SubSeq(bytes, s, s + 3) = Magic}
    IN IF found = {} \/ ~Accepts(bytes, Min(found)) THEN NoMessage
       ELSE TextOf(Payload(bytes, Min(found)))

\* The first block that is whole, wherever it starts.
Scan(bytes) ==
    LET found == {s \in Starts(bytes) : Accepts(bytes, s)}
    IN IF found = {} THEN NoMessage ELSE TextOf(Payload(bytes, Min(found)))

Decode(t) == Scan(Hidden(t))

-----------------------------------------------------------------------------
(* A text is marked, edited, quoted and damaged *)

Init ==
    /\ text \in Carriers
    /\ message = NoMessage /\ state = "mixed" /\ edits = 0

\* encode throws for a message that is too long, and the text stays as it was.
Mark(m) ==
    /\ Len(m) <= MaxPayload
    /\ text' = Encode(m, text)
    /\ IF Len(Visible(text)) < Len(Block(m))
         THEN message' = NoMessage /\ state' = "unmarked"
         ELSE message' = m /\ state' = "whole"
    /\ UNCHANGED edits

Edit == edits < MaxEdits /\ edits' = edits + 1 /\ UNCHANGED message

\* Characters come and go at the start, in the middle and at the end, behind or in
\* front of a selector; selectors stay where they are.
Retype ==
    /\ Edit /\ UNCHANGED state
    /\ \E i \in {1, Len(text) \div 2, Len(text) \div 2 + 1, Len(text)} \cap DOMAIN text :
         \/ \E letter \in Letters : text' = InsertAt(text, i, letter)
         \/ /\ SelectorToByte(text[i]) = NoByte
            /\ text' = RemoveAt(text, i)

\* The text becomes part of a longer one.
Quote ==
    /\ Edit
    /\ \E scrap \in Scraps :
         \/ /\ text' = text \o scrap
            /\ state' = IF Hidden(scrap) = <<>> THEN state
                        ELSE IF state \in {"whole", "followed"} THEN "followed" ELSE "mixed"
         \/ /\ text' = scrap \o text
            /\ state' = IF Hidden(scrap) = <<>> THEN state ELSE "mixed"

\* One hidden byte is changed: of the length, or of anything else.
Damage ==
    /\ Edit
    /\ \E i \in DOMAIN text, byte \in Byte :
         /\ SelectorToByte(text[i]) \notin {NoByte, byte}
         /\ text' = [text EXCEPT ![i] = ByteToSelector(byte)]
         /\ state' = IF /\ state = "whole"
                        /\ Len(Hidden(SubSeq(text, 1, i))) \notin {6, 7}
                     THEN "damaged" ELSE "mixed"

Next == (\E m \in Messages : Mark(m)) \/ Retype \/ Quote \/ Damage

Spec == Init /\ [][Next]_vars

-----------------------------------------------------------------------------
(* Properties *)

\* The messages of the blocks encode would have written at this place.
WrittenAt(bytes, start) ==
    {m \in {SubSeq(bytes, start + 7, start + 6 + n) : n \in 0..(Len(bytes) - start - 10)} :
        Len(m) <= MaxPayload /\ IsPrefix(Block(m), SubSeq(bytes, start, Len(bytes)))}

\* decode answers the first of all blocks that encode might have written anywhere in
\* the hidden bytes, whole or not before it, and nothing if there is none.
FindsTheFirst ==
    LET bytes == Hidden(text)
        starts == {s \in 1..(Len(bytes) - 10) :
                     SubSeq(bytes, s, s + 3) = Magic /\ WrittenAt(bytes, s) # {}}
    IN IF starts = {} THEN Decode(text) = NoMessage
       ELSE \E s \in starts : /\ \A other \in starts : s <= other
                              /\ \E m \in WrittenAt(bytes, s) : Decode(text) = TextOf(m)

\* A mark is found again, up to a byte order mark in front of the message, after any
\* editing of the visible text and whatever is appended, hidden or not.
MarkIsFound == state \in {"whole", "followed"} => Decode(text) = TextOf(message)

\* A mark with one damaged byte, in whatever field but the length, is not read: there is no
\* message encode would have written it for, and what decode still finds, if anything, is a
\* block that begins behind its first byte, such as one inside its message.
DamageIsSeen ==
    state = "damaged" =>
        LET bytes == Hidden(text)
        IN /\ WrittenAt(bytes, 1) = {}
           /\ \/ Decode(text) = NoMessage
              \/ \E s \in 2..(Len(bytes) - 10) :
                   \E m \in WrittenAt(bytes, s) : Decode(text) = TextOf(m)

\* A text that was too short for a message hides nothing any more, no older mark either.
NothingLeftBehind == state = "unmarked" => Decode(text) = NoMessage

\* Marking a text changes nothing that can be seen.
VisibleStays == [][edits' = edits => Visible(text') = Visible(text)]_vars
=============================================================================

------------------------------ MODULE MCVsmark ------------------------------
(* A TLC instance of Vsmark: bytes of two bits, a checksum of eight.       *)
EXTENDS Vsmark

MCMagic == <<1, 3, 2, 0>>
MCBom == <<3, 2>>

Line(n) == [k \in 1..n |-> IF k % 3 = 0 THEN 2 ELSE 1]
Selectors(bytes) == [k \in DOMAIN bytes |-> ByteToSelector(bytes[k])]

\* Too short for any message, one that carries selectors of its own, a longer one.
MCCarriers == {Line(10), Line(7) \o Selectors(<<1, 3>>) \o Line(6), Line(26)}

\* Empty, short, with a byte order mark or two, of a length with two digits, with a
\* block of its own, and too long.
MCMessages ==
    {<<>>, <<1>>, MCBom \o <<1>>, MCBom \o MCBom, <<0, 0, 2, 3, 1>>, Block(<<2>>),
     [k \in 1..16 |-> 0]}

\* Letters, a stray selector, the beginning of a block, a whole one.
MCScraps ==
    {<<1, 2>>, Selectors(<<1>>), Selectors(SubSeq(Block(<<2, 0>>), 1, 7)),
     Encode(<<2>>, Line(12))}
=============================================================================

------------------------------- MODULE Base64 -------------------------------
(****************************************************************************)
(* Base64::decode (daemon/management_api/utils/base64_utils.cc), which      *)
(* client_certificate applies to the certificate that the management server *)
(* sends.  Characters and bytes are their codes.                            *)
(****************************************************************************)
EXTENDS Naturals, SequencesExt

\* What the table has for a character that is not of the alphabet.
Invalid == 64

kDecodingTable(c) ==
  CASE c \in 65 .. 90  -> c - 65
    [] c \in 97 .. 122 -> c - 71
    [] c \in 48 .. 57  -> c + 4
    [] c = 43          -> 62
    [] c = 47          -> 63
    [] OTHER           -> Invalid

\* static_cast<char> of a uint32_t.
Char(x) == x % 256

\* (x << 2) | y.  A y below 4 fills the two free bits; the 4 that is left of
\* Invalid falls on the lowest bit of x.
ShiftOr(x, y) ==
  IF y = 4 THEN 4 * (IF x % 2 = 0 THEN x + 1 ELSE x) ELSE 4 * x + y

\* Mutant: the padding decides about the byte behind it.
GroupShifted(c0, c1, c2, c3) ==
  <<Char(ShiftOr(c0, c1 \div 16))>>
    \o (IF c3 # Invalid THEN <<Char((c1 % 16) * 16 + (c2 \div 4))>> ELSE << >>)
    \o (IF c3 # Invalid THEN <<Char((c2 % 4) * 64 + c3)>> ELSE << >>)

\* The fields of the second and of the third byte do not meet: c2 and c3 are
\* below 64 where they are used.
Group(c0, c1, c2, c3) ==
  <<Char(ShiftOr(c0, c1 \div 16))>>
    \o (IF c2 # Invalid THEN <<Char((c1 % 16) * 16 + (c2 \div 4))>> ELSE << >>)
    \o (IF c3 # Invalid THEN <<Char((c2 % 4) * 64 + c3)>> ELSE << >>)

\* The bytes of the g-th four characters.
DecodedGroup(input, g) ==
  Group(kDecodingTable(input[4 * g - 3]), kDecodingTable(input[4 * g - 2]),
        kDecodingTable(input[4 * g - 1]), kDecodingTable(input[4 * g]))

\* Characters behind the last group of four are ignored.
decode(input) ==
  FlattenSeq([g \in 1 .. (Len(input) \div 4) |-> DecodedGroup(input, g)])

-----------------------------------------------------------------------------
(* The reference: RFC 4648 as arithmetic on groups of 24 bits.              *)

Byte == 0 .. 255

Alphabet == [i \in 0 .. 63 |-> CASE i < 26 -> 65 + i
                                 [] i \in 26 .. 51 -> 71 + i
                                 [] i \in 52 .. 61 -> i - 4
                                 [] i = 62 -> 43
                                 [] i = 63 -> 47]
Pad == 61

\* The g-th group of 24 bits, filled up with zeros, and its k-th six bits.
ByteAt(text, i) == IF i <= Len(text) THEN text[i] ELSE 0
Number(text, g) ==
  65536 * ByteAt(text, 3 * g - 2) + 256 * ByteAt(text, 3 * g - 1) + ByteAt(text, 3 * g)
Sextet(number, k) ==
  (number \div (CASE k = 0 -> 262144 [] k = 1 -> 4096 [] k = 2 -> 64 [] k = 3 -> 1)) % 64

Groups(text) == (Len(text) + 2) \div 3
Padding(text) == (3 - (Len(text) % 3)) % 3

Encoded(text) ==
  [j \in 1 .. 4 * Groups(text) |->
     IF j > 4 * Groups(text) - Padding(text) THEN Pad
     ELSE Alphabet[Sextet(Number(text, ((j - 1) \div 4) + 1), (j - 1) % 4)]]
=============================================================================

------------------------------- MODULE Record -------------------------------
(***************************************************************************)
(* internal/record: rows as bytes, and back.                               *)
(*                                                                         *)
(* A buffer is a sequence of numbers.  A varint is one of them, so is the  *)
(* byte of a character, and a field of eight bytes is two, its high and    *)
(* its low half.                                                           *)
(***************************************************************************)
EXTENDS Values

RealBits == 3 * Bits + 3 \* enough for the reals that are stored

\* What of ^ alone cannot be proved.
ASSUME RecordAssumption ==
  \A bits \in {Bits, RealBits} :
    /\ 2 ^ bits = 2 * 2 ^ (bits - 1) /\ 2 ^ (bits - 1) \in Nat \ {0}
    /\ 2 ^ (bits \div 2) \in Nat \ {0}

Low(bits) == 2 ^ (bits \div 2)
Fixed(n, bits) == LET u == n % 2 ^ bits IN <<u \div Low(bits), u % Low(bits)>>
\* Mutant: the number is read without its sign.
UnfixedUnsigned(high, low, bits) == high * Low(bits) + low
Unfixed(high, low, bits) ==
  LET u == high * Low(bits) + low
  IN  IF u < 2 ^ (bits - 1) THEN u ELSE u - 2 ^ bits

Bytes(text) == [i \in DOMAIN text |-> Code(text[i])]
Chars(bytes) == [i \in DOMAIN bytes |-> Alphabet[bytes[i]]]

EncodeValue(v) ==
  CASE IsNull(v) -> <<0>>
    [] IsInteger(v) -> <<1>> \o Fixed(v[2], Bits)
    [] Type(v) = "real" -> <<2>> \o Fixed(v[2], RealBits)
    [] Type(v) = "text" -> <<3, Len(v[2])>> \o Bytes(v[2])

\* The buffer after each value: the count stands before the first.
Buffers(row) ==
  LET buf[n \in 0 .. Len(row)] ==
        IF n = 0 THEN <<Len(row)>> ELSE buf[n - 1] \o EncodeValue(row[n])
  IN  buf

Encode(row) == Buffers(row)[Len(row)]

\* The value that begins at a position of b and how long it is; 0 where it is refused.
DecodeValue(b, at) ==
  LET refused == [val |-> NewNull, len |-> 0]
      left == Len(b) - at + 1
  IN  IF left < 1 THEN refused
      ELSE CASE b[at] = 0 -> [val |-> NewNull, len |-> 1]
             [] b[at] \in {1, 2} ->
                  IF left < 3 THEN refused
                  ELSE [val |-> IF b[at] = 1 THEN NewInteger(Unfixed(b[at + 1], b[at + 2], Bits))
                                ELSE NewReal(Unfixed(b[at + 1], b[at + 2], RealBits)),
                        len |-> 3]
             [] b[at] = 3 ->
                  IF left < 2 \/ left - 2 < b[at + 1] THEN refused
                  ELSE [val |-> NewText(Chars(SubSeq(b, at + 2, at + 1 + b[at + 1]))),
                        len |-> 2 + b[at + 1]]
             [] OTHER -> refused

\* The values read, one by one, and where the next one begins; nowhere after an error.
\* What follows the last is not looked at.
Readings(b) ==
  LET failed == [row |-> <<Error>>, at |-> 0]
      read[n \in 0 .. b[1]] ==
        IF n = 0 THEN [row |-> << >>, at |-> 2]
        ELSE LET r == read[n - 1]
                 next == DecodeValue(b, r.at)
             IN  IF r.at = 0 \/ next.len = 0 THEN failed
                 ELSE [row |-> Append(r.row, next.val), at |-> r.at + next.len]
  IN  read

\* A row, or <<Error>>.  An empty buffer is an empty row.
Decode(b) == IF b = << >> THEN << >> ELSE Readings(b)[b[1]].row
=============================================================================

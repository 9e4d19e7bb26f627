------------------------------ MODULE BitStream ------------------------------
(***************************************************************************)
(* The bit stream of the ASN.1 run-time: a buffer of octets with a cursor,  *)
(* the appends and reads the PDU codec uses, and a writer and a reader that *)
(* call them.  It implements a queue of bits.                               *)
(*                                                                          *)
(* An octet is the set of its bits that are one, named by their weight: 7   *)
(* is the most significant.  Then the masks of the code are sets, | is      *)
(* union and & is intersection.  An unsigned value is such a set too.       *)
(***************************************************************************)
EXTENDS Naturals, Sequences

CONSTANTS
  Count,   \* octets in the writer's buffer
  Fields   \* the fields a writer may append: a run-time call and its bits

Calls == {"ConstSize", "ConstSize_8", "big_endian", "BitPattern", "OctetString"}

ASSUME FieldsAssumption ==
  /\ Count \in Nat \ {0}
  /\ Fields \subseteq [call : Calls, bits : Seq(BOOLEAN)]
  /\ \A f \in Fields :
       /\ f.bits # <<>>
       /\ f.call = "ConstSize" => Len(f.bits) <= 32
       /\ f.call = "ConstSize_8" => Len(f.bits) = 8
       /\ f.call \in {"big_endian", "OctetString"} => Len(f.bits) % 8 = 0

VARIABLES
  stream,     \* the BitStream: buf, currentByte, currentBit
  mode,       \* who uses it: the writer, the reader, or a reader that failed
  fields,     \* the fields appended since the stream was initialised
  next,       \* the field the reader expects
  got         \* the bits the last read returned

vars == <<stream, mode, fields, next, got>>

-----------------------------------------------------------------------------
Octet == SUBSET (0 .. 7)
Low(n)  == 0 .. n - 1            \* masksb[n]
High(n) == (8 - n) .. 7          \* ~masksb[8 - n]
Shl(v, n) == {b + n : b \in v} \cap Low(8)
Shr(v, n) == {b - n : b \in {c \in v : c >= n}} \cap Low(8)

\* The n bits of a field from position p on, as an unsigned value and back.
ValueAt(bits, p, n) == {n - i : i \in {j \in 1 .. n : bits[p + j]}}
BitsOf(v, n) == [i \in 1 .. n |-> n - i \in v]
Octets(bits) == [k \in 1 .. Len(bits) \div 8 |-> ValueAt(bits, 8 * (k - 1), 8)]

NumberOfBits(v) == IF v = {} THEN 0 ELSE 1 + CHOOSE b \in v : \A c \in v : c <= b

\* Mutant: the buffer of the next PDU is only rewound.
InitOnlyRewinds(buf) == [buf |-> buf, currentByte |-> 0, currentBit |-> 0]

BitStream_Init(buf) ==
  [buf |-> [i \in DOMAIN buf |-> {}], currentByte |-> 0, currentBit |-> 0]

BitStream_AttachBuffer(buf) == [buf |-> buf, currentByte |-> 0, currentBit |-> 0]

\* buf[currentByte] &= mask; buf[currentByte] |= v;
Merge(s, mask, v) ==
  [s EXCEPT !.buf[s.currentByte + 1] = (@ \cap mask) \cup v]

\* Mutant: the bits carried into the next octet are not taken off.
SkipWithoutCarry(s, n) ==
  [s EXCEPT !.currentByte = @ + (s.currentBit + n) \div 8,
            !.currentBit  = s.currentBit + n]

Skip(s, n) ==
  [s EXCEPT !.currentByte = @ + (s.currentBit + n) \div 8,
            !.currentBit  = (s.currentBit + n) % 8]

BitStream_AppendNBitZero(s, n) == Skip(s, n)

\* Mutant: the shift is one too many.
PartialByteOneRight(s, v, n) ==
  Skip(Merge(s, High(s.currentBit), Shr(Shl(v, 8 - s.currentBit - n), 1)), n)

BitStream_AppendPartialByte(s, v, n) ==
  LET cb    == s.currentBit
      total == cb + n
      extra == total - 8
      first == [Merge(s, High(cb), Shr(v, extra)) EXCEPT !.currentByte = @ + 1]
  IN  IF total <= 8
      THEN Skip(Merge(s, High(cb) \cup Low(8 - total), Shl(v, 8 - total)), n)
      ELSE [Merge(first, High(extra), Shl(v, 8 - extra))
              EXCEPT !.currentBit = extra]

\* BitStream_AppendByte and, within the buffer, BitStream_AppendByte0.
BitStream_AppendByte0(s, v) ==
  LET cb    == s.currentBit
      first == [Merge(s, High(cb), Shr(v, cb)) EXCEPT !.currentByte = @ + 1]
  IN  IF cb = 0 THEN first ELSE Merge(first, Low(8 - cb), Shl(v, 8 - cb))

\* Off an octet boundary; only the first and the last octet are masked.
BitStream_AppendByteArray(s, arr) ==
  LET cb == s.currentBit
      Kept(i, mask) == IF i \in {1, Len(arr)} THEN mask ELSE Low(8)
      put[i \in 0 .. Len(arr)] ==
        IF i = 0 THEN s
        ELSE LET first == [Merge(put[i-1], Kept(i, High(cb)), Shr(arr[i], cb))
                             EXCEPT !.currentByte = @ + 1]
             IN  Merge(first, Kept(i, Low(8 - cb)), Shl(arr[i], 8 - cb))
  IN  put[Len(arr)]

BitStream_EncodeOctetString_no_length(s, arr) ==
  IF s.currentBit # 0
  THEN BitStream_AppendByteArray(s, arr)
  ELSE [s EXCEPT !.buf = [i \in DOMAIN @ |->
                   IF i - s.currentByte \in DOMAIN arr
                   THEN arr[i - s.currentByte] ELSE @[i]],
                 !.currentByte = @ + Len(arr)]

BitStream_AppendBits(s, bits) ==
  LET whole == BitStream_EncodeOctetString_no_length(s, Octets(bits))
      n     == Len(bits) % 8
  IN  IF n = 0 THEN whole
      ELSE BitStream_AppendPartialByte(whole, ValueAt(bits, Len(bits) - n, n), n)

\* The significant bits of v: the odd ones first, then whole octets.
BitStream_EncodeNonNegativeInteger(s, v) ==
  LET n == NumberOfBits(v)
      bytes[i \in 0 .. n \div 8] ==
        IF i > 0
        THEN BitStream_AppendByte0(bytes[i-1], Shr(v, 8 * (n \div 8 - i)))
        ELSE IF n % 8 = 0 THEN s
        ELSE BitStream_AppendPartialByte(s, Shr(v, n - (n % 8)), n % 8)
  IN  bytes[n \div 8]

Acn_Enc_Int_PositiveInteger_ConstSize(s, v, width) ==
  BitStream_EncodeNonNegativeInteger(
    BitStream_AppendNBitZero(s, width - NumberOfBits(v)), v)

Acn_Enc_Int_PositiveInteger_ConstSize_big_endian_B(s, v, size) ==
  LET bytes[i \in 0 .. size] ==
        IF i = 0 THEN s
        ELSE BitStream_AppendByte0(bytes[i-1], Shr(v, 8 * (size - i)))
  IN  bytes[size]

-----------------------------------------------------------------------------
\* A read returns whether it succeeded, the value and the stream after it.
Result(ok, v, s) == [ok |-> ok, value |-> v, stream |-> s]

\* Behind the buffer there is whatever the memory holds.  The code may look at
\* it, and drops what it saw: the read fails.
OctetAt(s, i) == IF i < Len(s.buf) THEN s.buf[i + 1] ELSE {}

BitStream_ReadByte(s) ==
  LET cb == s.currentBit
      v  == Shl(OctetAt(s, s.currentByte), cb) \cup
              Shr(OctetAt(s, s.currentByte + 1), 8 - cb)
  IN  IF Len(s.buf) - s.currentByte < IF cb > 0 THEN 2 ELSE 1
      THEN Result(FALSE, {}, s)
      ELSE Result(TRUE, v, [s EXCEPT !.currentByte = @ + 1])

\* Mutant: the bits of the octet before the field are not masked away.
ReadPartialByteUnmasked(s, n) ==
  LET after == Skip(s, n)
  IN  Result(8 * after.currentByte + after.currentBit <= 8 * Len(s.buf),
             Shr(OctetAt(s, s.currentByte), 8 - s.currentBit - n), after)

BitStream_ReadPartialByte(s, n) ==
  LET total == s.currentBit + n
      v == IF total <= 8
           THEN Shr(OctetAt(s, s.currentByte), 8 - total)
           ELSE Shl(OctetAt(s, s.currentByte), total - 8) \cup
                  Shr(OctetAt(s, s.currentByte + 1), 16 - total)
      after == Skip(s, n)
  IN  Result(8 * after.currentByte + after.currentBit <= 8 * Len(s.buf),
             v \cap Low(n), after)

\* Whole octets first, then the odd bits: v holds what was read so far.
BitStream_DecodeNonNegativeInteger(s, width) ==
  LET whole[i \in 0 .. width \div 8] ==
        IF i = 0 THEN Result(TRUE, {}, s)
        ELSE LET r == BitStream_ReadByte(whole[i-1].stream)
             IN  Result(whole[i-1].ok /\ r.ok,
                        {b + 8 : b \in whole[i-1].value} \cup r.value, r.stream)
      head == whole[width \div 8]
      tail == BitStream_ReadPartialByte(head.stream, width % 8)
  IN  IF width % 8 = 0 \/ ~head.ok THEN head
      ELSE Result(tail.ok, {b + (width % 8) : b \in head.value} \cup tail.value,
                  tail.stream)

BitStream_DecodeOctetString_no_length(s, n) ==
  LET Octet8(i) == Shl(OctetAt(s, s.currentByte + i), s.currentBit) \cup
                     Shr(OctetAt(s, s.currentByte + i + 1), 8 - s.currentBit)
  IN  IF 8 * (s.currentByte + n) + s.currentBit > 8 * Len(s.buf)
      THEN Result(FALSE, {}, s)
      ELSE Result(TRUE, UNION {{b + 8 * (n - 1 - i) : b \in Octet8(i)}
                                 : i \in 0 .. n - 1},
                  [s EXCEPT !.currentByte = @ + n])

\* The bits are compared with the pattern octet by octet; here the caller does.
BitStream_ReadBitPattern(s, n) == BitStream_DecodeNonNegativeInteger(s, n)

-----------------------------------------------------------------------------
Encode(s, f) ==
  LET v == ValueAt(f.bits, 0, Len(f.bits))
  IN  CASE f.call = "ConstSize" ->
             Acn_Enc_Int_PositiveInteger_ConstSize(s, v, Len(f.bits))
        [] f.call = "ConstSize_8" -> BitStream_AppendByte0(s, v)
        [] f.call = "big_endian" ->
             Acn_Enc_Int_PositiveInteger_ConstSize_big_endian_B(s, v, Len(f.bits) \div 8)
        [] f.call = "BitPattern" -> BitStream_AppendBits(s, f.bits)
        [] OTHER -> BitStream_EncodeOctetString_no_length(s, Octets(f.bits))

Decode(s, f) ==
  CASE f.call = "OctetString" ->
         BitStream_DecodeOctetString_no_length(s, Len(f.bits) \div 8)
    [] f.call = "BitPattern" -> BitStream_ReadBitPattern(s, Len(f.bits))
    [] OTHER -> BitStream_DecodeNonNegativeInteger(s, Len(f.bits))

Cursor(s) == 8 * s.currentByte + s.currentBit

Init ==
  /\ stream = BitStream_Init([i \in 1 .. Count |-> {}])
  /\ mode = "append" /\ fields = <<>> /\ next = 1 /\ got = <<>>

\* The codec appends a field.  The buffers are made for the largest PDU: that a
\* field fits is an assertion of the run-time.
AppendField(f) ==
  /\ mode = "append"
  /\ Cursor(stream) + Len(f.bits) <= 8 * Count
  /\ stream' = Encode(stream, f)
  /\ fields' = Append(fields, f)
  /\ got' = <<>>
  /\ UNCHANGED <<mode, next>>

\* The octets reach a decoder, perhaps not all of them.
Deliver ==
  /\ mode = "append"
  /\ \E n \in 0 .. (Cursor(stream) + 7) \div 8 :
       stream' = BitStream_AttachBuffer(SubSeq(stream.buf, 1, n))
  /\ mode' = "read" /\ got' = <<>>
  /\ UNCHANGED <<fields, next>>

\* The decoder reads the field that was appended next.
Read ==
  /\ mode = "read" /\ next <= Len(fields)
  /\ LET f == fields[next]
         r == Decode(stream, f)
     IN  /\ stream' = r.stream
         /\ mode' = IF r.ok THEN "read" ELSE "failed"
         /\ got' = IF r.ok THEN BitsOf(r.value, Len(f.bits)) ELSE <<>>
  /\ next' = next + 1
  /\ UNCHANGED fields

\* The buffer is used for the next PDU: it is set to zeros.
Restart ==
  /\ stream' = BitStream_Init([i \in 1 .. Count |->
                 IF i \in DOMAIN stream.buf THEN stream.buf[i] ELSE {}])
  /\ mode' = "append" /\ fields' = <<>> /\ next' = 1 /\ got' = <<>>

Next ==
  \/ \E f \in Fields : AppendField(f)
  \/ Deliver
  \/ Read
  \/ Restart

Spec == Init /\ [][Next]_vars

-----------------------------------------------------------------------------
BitAt(p) == (7 - (p % 8)) \in stream.buf[p \div 8 + 1]

Contents ==
  CASE mode = "append" -> [i \in 1 .. Cursor(stream) |-> BitAt(i - 1)]
    [] mode = "read"   -> [i \in 1 .. 8 * Len(stream.buf) - Cursor(stream) |->
                             BitAt(Cursor(stream) + i - 1)]
    [] OTHER -> <<>>

TypeOK ==
  /\ stream.buf \in Seq(Octet) /\ Len(stream.buf) <= Count
  /\ stream.currentByte \in 0 .. Count + 1 /\ stream.currentBit \in 0 .. 7
  /\ mode \in {"append", "read", "failed"}
  /\ fields \in Seq(Fields) /\ next \in 1 .. Len(fields) + 1
  /\ got \in Seq(BOOLEAN)

\* Behind the cursor of a writer there are only zeros.  AppendNBitZero writes
\* nothing and AppendPartialByte keeps what it finds where it crosses into the
\* next octet: both rely on it, in every order of calls and in every buffer that
\* is used again.
RestIsZero ==
  mode = "append" => \A p \in Cursor(stream) .. 8 * Count - 1 : ~BitAt(p)

\* A read that succeeds returns the bits of the field that was appended at its
\* place, whatever was appended around it.
ReadsWhatWasWritten == got # <<>> => got = fields[next - 1].bits

Queue == INSTANCE BitQueue WITH bits <- Contents

\* The stream is a queue of bits: appends lengthen it by their field and disturb
\* nothing before it, and a read fails exactly when too few bits were delivered.
ImplementsBitQueue == Queue!Spec

=============================================================================

------------------------------- MODULE Octets -------------------------------
(***************************************************************************)
(* Octets and the numbers laid out in them, most significant octet first.   *)
(* BitStream shows that fields appended one after another come out as they  *)
(* went in; the codecs therefore write a PDU as a sequence of octets, and   *)
(* the bits that share an octet as a sequence of fields, <<width, value>>.  *)
(***************************************************************************)
EXTENDS Integers, Sequences

Octet == 0 .. 255

Zeros(n) == [i \in 1 .. n |-> 0]

BigEndian(value, size) == [i \in 1 .. size |-> (value \div 256^(size - i)) % 256]

Unsigned(octets) ==
  LET first[i \in 0 .. Len(octets)] ==
        IF i = 0 THEN 0 ELSE 256 * first[i-1] + octets[i]
  IN  first[Len(octets)]

\* The size octets from position at on.
Slice(octets, at, size) == SubSeq(octets, at, at + size - 1)

OctetOf(fields) ==
  LET first[i \in 0 .. Len(fields)] ==
        IF i = 0 THEN 0 ELSE 2^fields[i][1] * first[i-1] + fields[i][2]
  IN  first[Len(fields)]

\* The width bits of an octet that follow the skip most significant ones.
Bits(octet, skip, width) == (octet \div 2^(8 - skip - width)) % 2^width

\* An identifier takes as many octets as it needs, and zero needs none.
uint64_to_bytes_big_endian(data) ==
  BigEndian(data, CHOOSE size \in 0 .. 8 :
                    data < 256^size /\ \A less \in 0 .. size - 1 : data >= 256^less)

bytes_to_ulong(octets) ==
  Unsigned(IF Len(octets) > 8 THEN Slice(octets, 1, 8) ELSE octets)
=============================================================================

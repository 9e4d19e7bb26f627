----------------------------- MODULE Determinant -----------------------------
(***************************************************************************)
(* asn1scc puts a length, the determinant, before the data of a File Data   *)
(* PDU; CFDP has none.  The sender takes its two octets out of what the     *)
(* encoder wrote, the receiver puts them in before it decodes, and both     *)
(* correct the length field of the header, an octet at a time.              *)
(***************************************************************************)
EXTENDS Octets

determinant_size == 2

\* Octet 0 of the code is octet 1 here.
IsFileData(buf) == (buf[1] \div 16) % 2 = 1           \* FILE_DATA_INDICATION_BIT

header_with_segment_offset_size(buf) ==
  8 + 2 * (((buf[4] \div 16) % 8) + 1) + (buf[4] % 8) + 1

pdu_data_field_length(buf) == 256 * buf[2] + buf[3]

\* Mutant: the borrow from the upper octet is forgotten.
DecrementWithoutBorrow(buf) == [buf EXCEPT ![3] = (@ + 255) % 256]

\* if (--buf[2] == 0xFF) buf[1]--;
Decrement(buf) ==
  IF buf[3] = 0 THEN [buf EXCEPT ![3] = 255, ![2] = (@ + 255) % 256]
                ELSE [buf EXCEPT ![3] = @ - 1]

\* Mutant: the carry into the upper octet is forgotten.
IncrementWithoutCarry(buf) == [buf EXCEPT ![3] = (@ + 1) % 256]

\* if (++buf[2] == 0x00) buf[1]++;
Increment(buf) ==
  IF buf[3] = 255 THEN [buf EXCEPT ![3] = 0, ![2] = (@ + 1) % 256]
                  ELSE [buf EXCEPT ![3] = @ + 1]

\* What the encoder writes for a segment of length octets: the determinant, then
\* the segment, behind a header whose size the first octets tell.
HoldsDeterminant(encoded, length) ==
  LET at == header_with_segment_offset_size(encoded)
  IN  /\ IsFileData(encoded)
      /\ Len(encoded) = at + determinant_size + length
      /\ encoded[at + 1] = (length \div 256) % 256
      /\ encoded[at + 2] = length % 256

\* What sender_machine_send_file_data transmits of what was encoded.
RemoveDeterminant(encoded, length) ==
  LET determinant_index == Len(encoded) - length - 1
  IN  Decrement(Decrement(SubSeq(encoded, 1, determinant_index - 1) \o
                          SubSeq(encoded, determinant_index + 2, Len(encoded))))

\* add_determinant_of_file_data_octet_string_in_encoded_bit_stream
AddDeterminant(buf) ==
  LET at   == header_with_segment_offset_size(buf)
      size == Len(buf) - at
  IN  IF IsFileData(buf)
      THEN Increment(Increment(SubSeq(buf, 1, at)
                                 \o <<(size \div 256) % 256, size % 256>>
                                 \o SubSeq(buf, at + 1, Len(buf))))
      ELSE buf
=============================================================================

--------------------------- MODULE CfdpCoreProofs ---------------------------
(***************************************************************************)
(* What CfdpCore promises, proved for any requests, files, bounds and       *)
(* datagrams of another implementation: its types, the length on the link,  *)
(* that the acknowledged class is refused, that a cancel request ends what  *)
(* it names, and that octets on the link implement a channel of PDUs.       *)
(*                                                                          *)
(* In this order: a datagram is read as it was written; what the cores      *)
(* write; what a step does to an end; the invariant; what follows from it.  *)
(***************************************************************************)
EXTENDS CfdpCore, CodecProofs

-----------------------------------------------------------------------------
(***************************************************************************)
(* The invariant.                                                           *)
(***************************************************************************)
\* The transactions of an end.
ShortName == {name \in Seq(Octet) : Len(name) <= 127}
Transactions(e) ==
  [source_entity_id : {EntityId[e]}, seq_number : uint32_t \ {0},
   destination_entity_id : uint32_t, source_filename : ShortName,
   destination_filename : ShortName, file : File, file_position : Nat,
   messages : Messages(message_to_user)]

Ids == [source_entity_id : Nat, seq_number : Nat]

\* A sender of an end.
SenderIs(e, s) ==
  /\ s \in [state : {"SEND_FILE", "COMPLETED"}, id : Ids,
            transaction : Transactions(e) \cup {NoTransaction}]
  /\ s.id = IdOf(s.transaction)
  /\ s.transaction.file_position <= Len(s.transaction.file)
  /\ s.state = "SEND_FILE" => s.transaction \in Transactions(e)

\* A receiver of an end works for transactions of others only.
ReceiverIs(e, r) ==
  /\ r \in [state : {"WAIT_FOR_MD", "WAIT_FOR_EOF", "COMPLETED"}, id : Ids,
            is_file_transfer : BOOLEAN]
  /\ r.state # "COMPLETED" => r.id.source_entity_id \notin {0, EntityId[e]}

\* What an end may transmit, and a datagram that an end has transmitted.
MayTransmit(pdu, tlvs) ==
  /\ pdu \in cfdpCfdpPDU /\ tlvs \in Messages(ValidMessage)
Transmitted(e, d) ==
  /\ MayTransmit(d.pdu, d.messages)
  /\ d.pdu.payload.kind = "file_data_pdu" => d.messages = <<>>
  /\ TransactionId(d.pdu.pdu_header).source_entity_id = EntityId[e]
  /\ d \in Transmit(e, d.pdu, d.messages)

Numbered(e, number) == number \in FirstNumber .. FirstNumber + MaxPuts[e]

IInv ==
  /\ transaction_sequence_number = [e \in Ends |-> transaction_sequence_number[e]]
  /\ sender = [e \in Ends |-> sender[e]] /\ receiver = [e \in Ends |-> receiver[e]]
  /\ \A e \in Ends : /\ Numbered(e, transaction_sequence_number[e])
                     /\ SenderIs(e, sender[e]) /\ ReceiverIs(e, receiver[e])
  /\ \A d \in wire : \E e \in Ends : Transmitted(e, d)
  /\ heard = Silence \/ heard.at \in Ends

-----------------------------------------------------------------------------
(* What is on the link is read as it was sent. *)

\* The octets of a PDU on the link, of the encoded octets c.
OnLink(octets, c, pdu, tlvs) ==
  octets = IF pdu.payload.kind = "file_data_pdu"
           THEN RemoveDeterminant(c, Len(pdu.payload.file_data))
           ELSE AppendMessages(c, tlvs)

LEMMA Datagram ==
  ASSUME NEW e, NEW pdu, NEW tlvs, NEW d \in Transmit(e, pdu, tlvs)
  PROVE  /\ d.to = Other(e) /\ d.pdu = pdu /\ d.messages = tlvs
         /\ \E c \in CfdpPDU_ACN_Encode(pdu) : OnLink(d.octets, c, pdu, tlvs)
BY DEF Transmit, OnLink

\* The parts of a PDU.
LEMMA PduTypes ==
  ASSUME NEW pdu \in cfdpCfdpPDU
  PROVE  /\ pdu.pdu_header \in cfdpPDUHeader /\ pdu.payload \in cfdpPayloadData
         /\ pdu.payload.kind = "file_data_pdu" =>
              pdu.payload \in cfdpFileDataPDU
         /\ pdu.payload.kind = "metadata_pdu" =>
              pdu.payload \in cfdpMetadataPDU
BY DEF cfdpCfdpPDU, cfdpPayloadData, cfdpEofPDU, cfdpFinishedPDU, cfdpAckPDU,
       cfdpMetadataPDU, cfdpFileDataPDU

\* What was encoded has the values that its type admits.
LEMMA EncodedFileData ==
  ASSUME NEW pdu \in cfdpCfdpPDU, pdu.payload.kind = "file_data_pdu",
         NEW c \in CfdpPDU_ACN_Encode(pdu)
  PROVE  pdu.payload \in cfdpFileDataPDU /\ FileDataPDU_IsConstraintValid(pdu.payload)
<1>1. CfdpPDU_IsConstraintValid(pdu)
  BY EncodedPdu, Zenon
<1>2. PayloadData_IsConstraintValid(pdu.payload)
  BY <1>1, Zenon DEF CfdpPDU_IsConstraintValid
<1> QED
  BY <1>2, PduTypes, Zenon DEF PayloadData_IsConstraintValid

\* The last octet of encoded File Data is that of the data: the decoder's caller
\* copies it over itself.
LEMMA LastOctet ==
  ASSUME NEW pdu \in cfdpCfdpPDU, pdu.payload.kind = "file_data_pdu",
         NEW c \in CfdpPDU_ACN_Encode(pdu)
  PROVE  WithLastOctet(pdu, c) = pdu
<1>1. PICK q, f : q = pdu.payload /\ f = q.file_data
  OBVIOUS
<1>2. q \in cfdpFileDataPDU /\ FileDataPDU_IsConstraintValid(q) /\ f \in Seq(Octet)
  <2>1. q \in cfdpFileDataPDU /\ FileDataPDU_IsConstraintValid(q)
    BY <1>1, EncodedFileData, Zenon
  <2> QED  BY <1>1, <2>1 DEF cfdpFileDataPDU
<1>3. PICK n : n = Len(f)
  OBVIOUS
<1>4. CASE f = <<>>
  BY <1>1, <1>4, Zenon DEF WithLastOctet
<1>5. CASE f # <<>>
  <2>1. n \in Nat \ {0}
    BY <1>2, <1>3, <1>5
  <2>2. PICK a, b, k, m, p : /\ p = CfdpPDU_Encode_payload(q)
                             /\ a = BigEndian(q.segment_offset, 4) /\ b = BigEndian(n, 2)
                             /\ PduParts(c, pdu, k, m, p)
    BY <1>1, EncodedPdu, Zenon
  <2>3. p = a \o b \o f
    BY <1>1, <1>3, <2>2, Zenon DEF CfdpPDU_Encode_payload, FileDataPDU_ACN_Encode
  <2>4. a \in Seq(Octet) /\ b \in Seq(Octet) /\ Len(a) = 4 /\ Len(b) = 2
    <3>1. q.segment_offset \in uint32_t
      BY <1>2 DEF cfdpFileDataPDU
    <3>2. n \in Nat /\ n < 256^2
      BY <1>1, <1>2, <1>3, SegmentFits, SegmentSizes, Zenon
    <3>3. a \in Seq(Octet) /\ Len(a) = 4
      BY <2>2, <3>1, Uint32Read, Zenon
    <3>4. b \in Seq(Octet) /\ Len(b) = 2
      BY <2>2, <3>2, Uint16Read, Zenon
    <3> QED  BY <3>3, <3>4
  <2>5. IsChain3(p, a, b, f)
    BY <1>2, <2>3, <2>4, Chain3, Zenon
  <2>6. Holds(p, Len(a) + Len(b) + 1, f) /\ Len(p) = Len(a) + Len(b) + Len(f)
    BY <2>5, Zenon DEF IsChain3
  <2>7. PICK at, l : at = 5 + 2 * k + m /\ l = Len(p)
    OBVIOUS
  <2>8. Holds(c, at, p) /\ Len(c) = 4 + 2 * k + m + l
    BY <2>2, <2>7, Zenon DEF PduParts
  <2>9. k \in Nat /\ m \in Nat /\ l = 6 + n /\ Len(a) + Len(b) + 1 = 7
    <3>1. k \in IdSizes /\ m \in IdSizes
      BY <2>2, Zenon DEF PduParts
    <3>2. l = Len(a) + Len(b) + n
      BY <1>3, <2>6, <2>7, Zenon
    <3> QED  BY <2>1, <2>4, <3>1, <3>2 DEF IdSizes
  <2>10. Holds(c, at + 7 - 1, f)
    BY <2>6, <2>8, <2>9, HoldsWithin, Zenon
  <2>11. c[at + 7 - 1 + n - 1] = f[n]
    <3>1. n \in 1 .. n
      BY <2>1
    <3> QED  BY <1>3, <2>10, <3>1, Zenon DEF Holds
  <2>12. at + 7 - 1 + n - 1 = Len(c)
    BY <2>1, <2>7, <2>8, <2>9
  <2>13. c[Len(c)] = f[n]
    BY <2>11, <2>12, Zenon
  <2>14. [pdu EXCEPT !.payload.file_data[Len(pdu.payload.file_data)] = c[Len(c)]] = pdu
    <3>1. PICK y : y = c[Len(c)]
      OBVIOUS
    <3>2. [f EXCEPT ![n] = y] = f
      BY <1>2, <2>13, <3>1
    <3>3. [q EXCEPT !.file_data[n] = y] = q
      BY <1>1, <1>2, <3>2 DEF cfdpFileDataPDU
    <3>4. [pdu EXCEPT !.payload.file_data[n] = y] = pdu
      BY <1>1, <3>3 DEF cfdpCfdpPDU
    <3> QED  BY <1>1, <1>3, <3>1, <3>4, Zenon
  <2> QED
    BY <2>14, Zenon DEF WithLastOctet
<1> QED
  BY <1>4, <1>5

LEMMA FileDataHeard ==
  ASSUME NEW pdu \in cfdpCfdpPDU, pdu.payload.kind = "file_data_pdu",
         NEW c \in CfdpPDU_ACN_Encode(pdu), NEW o, NEW tlvs, OnLink(o, c, pdu, tlvs)
  PROVE  ReadPdu(o) = {pdu}
<1>1. PICK n : n = Len(pdu.payload.file_data)
  OBVIOUS
<1>2. /\ c \in Seq(Octet) /\ Len(c) >= 4 /\ n \in Nat /\ HoldsDeterminant(c, n)
  BY <1>1, EncoderWritesDeterminant, Zenon
<1>3. AddDeterminant(o) = c
  BY <1>1, <1>2, DeterminantRoundTrip, Zenon DEF OnLink
<1>4. CfdpPDU_ACN_Decode(c) = {pdu}
  BY <1>2, HoldsItself, PduRead, Zenon
<1>5. WithLastOctet(pdu, c) = pdu
  BY LastOctet
<1> QED
  BY <1>3, <1>4, <1>5 DEF ReadPdu

LEMMA OtherPduHeard ==
  ASSUME NEW pdu \in cfdpCfdpPDU, pdu.payload.kind # "file_data_pdu",
         NEW c \in CfdpPDU_ACN_Encode(pdu), NEW o, Holds(o, 1, c)
  PROVE  ReadPdu(o) = {pdu} /\ ~IsFileData(o)
<1>1. PICK k, n, p, f : /\ PduParts(c, pdu, k, n, p)
                        /\ f = CfdpPDU_Encode_flags(pdu.pdu_header, pdu.payload.kind)
  BY EncodedPdu, Zenon
<1>2. Holds(c, 1, <<f>>)
  BY <1>1, Zenon DEF PduParts
<1>3. Holds(o, 1, <<f>>)
  <2>1. 1 \in Nat \ {0}
    OBVIOUS
  <2> QED  BY <1>2, <2>1, HoldsPart, Zenon
<1>4. o[1] = f
  BY <1>3, HoldsOctet, Zenon
<1>5. (f \div 16) % 2 = 0
  <2>1. FlagsAreRead(f, pdu.pdu_header, pdu.payload.kind)
    BY <1>1, PduTypes, HeaderFlags, Zenon
  <2> QED  BY <2>1, Zenon DEF FlagsAreRead, PduType
<1>6. ~IsFileData(o)
  <2>1. 0 # 1
    OBVIOUS
  <2> QED  BY <1>4, <1>5, <2>1, Zenon DEF IsFileData
<1>7. AddDeterminant(o) = o
  BY <1>6, Zenon DEF AddDeterminant
<1>8. CfdpPDU_ACN_Decode(o) = {pdu}
  BY PduRead, Zenon
<1>9. WithLastOctet(pdu, o) = pdu
  BY Zenon DEF WithLastOctet
<1> QED
  BY <1>6, <1>7, <1>8, <1>9 DEF ReadPdu

-----------------------------------------------------------------------------
(* The messages behind a PDU. *)

\* The messages stand in o behind c, one after the other, and nothing else does.
Behind(o, c, tlvs) ==
  \/ Len(tlvs) = 0 /\ o = c
  \/ \E t : Len(tlvs) = 1 /\ TlvIsRead(tlvs[1], t) /\ o = c \o t
  \/ \E t, u : /\ Len(tlvs) = 2 /\ TlvIsRead(tlvs[1], t) /\ TlvIsRead(tlvs[2], u)
               /\ o = (c \o t) \o u

LEMMA MessageTypesOf ==
  ASSUME NEW S, NEW tlvs \in Messages(S)
  PROVE  /\ tlvs \in Seq(S) /\ Len(tlvs) \in 0 .. 2
         /\ \A i \in 1 .. Len(tlvs) : tlvs[i] \in S
<1>1. tlvs \in Seq(S) /\ Len(tlvs) <= 2
  BY DEF Messages, MAX_NUMBER_OF_MESSAGES_TO_USER
<1>2. PICK n : n = Len(tlvs)
  OBVIOUS
<1>3. n \in Nat /\ \A i \in 1 .. n : tlvs[i] \in S
  BY <1>1, <1>2
<1>4. n \in 0 .. 2
  BY <1>1, <1>2, <1>3
<1> QED
  BY <1>1, <1>2, <1>3, <1>4, Zenon

LEMMA MessagesAreRead ==
  ASSUME NEW tlvs \in Messages(ValidMessage), NEW i \in 1 .. Len(tlvs)
  PROVE  \E t : TlvIsRead(tlvs[i], t)
<1>1. tlvs[i] \in ValidMessage
  BY MessageTypesOf, Zenon
<1>2. tlvs[i] \in cfdpMessageToUser /\ TLV_IsConstraintValid(tlvs[i])
  BY <1>1 DEF ValidMessage
<1> QED
  BY <1>2, TlvRead, Zenon

\* There is a function on 0 .. n, n at most two, with any first values.
HasValues(g, n, a, b, c) ==
  /\ g = [i \in 0 .. n |-> g[i]] /\ g[0] = a
  /\ 1 <= n => g[1] = b
  /\ 2 <= n => g[2] = c

LEMMA TwoStepsExist ==
  ASSUME NEW n \in 0 .. 2, NEW a, NEW b, NEW c
  PROVE  \E g : HasValues(g, n, a, b, c)
<1> DEFINE g == [i \in 0 .. n |-> IF i = 0 THEN a ELSE IF i = 1 THEN b ELSE c]
<1>1. g = [i \in 0 .. n |-> g[i]] /\ g[0] = a /\ (1 <= n => g[1] = b) /\ (2 <= n => g[2] = c)
  OBVIOUS
<1> QED
  BY <1>1, Zenon DEF HasValues

LEMMA MessagesAppended ==
  ASSUME NEW c, NEW tlvs \in Messages(ValidMessage)
  PROVE  Behind(AppendMessages(c, tlvs), c, tlvs)
<1>1. PICK n \in 0 .. 2 : n = Len(tlvs)
  BY MessageTypesOf, Zenon
<1> DEFINE a == [octets |-> c, ok |-> TRUE]
           F(x, i) == LET tlv == TLV_ACN_Encode(tlvs[i])
                      IN  IF x.ok /\ tlv # {}
                          THEN [octets |-> x.octets \o CHOOSE o \in tlv : TRUE, ok |-> TRUE]
                          ELSE [x EXCEPT !.ok = FALSE]
           appended[i \in 0 .. Len(tlvs)] ==
             IF i = 0 THEN a ELSE F(appended[i-1], i)
<1>2. AppendMessages(c, tlvs) = appended[Len(tlvs)].octets
  BY DEF AppendMessages
<1>3. appended = CHOOSE g : g = [i \in 0 .. n |-> IF i = 0 THEN a ELSE F(g[i-1], i)]
  BY <1>1
<1>4. ASSUME NEW i \in 1 .. n, NEW t, TlvIsRead(tlvs[i], t), NEW x
      PROVE  F([octets |-> x, ok |-> TRUE], i) = [octets |-> x \o t, ok |-> TRUE]
  <2>1. TLV_ACN_Encode(tlvs[i]) = {t}
    BY <1>4, Zenon DEF TlvIsRead
  <2>2. (CHOOSE o \in {t} : TRUE) = t
    OBVIOUS
  <2> QED  BY <2>1, <2>2
<1> HIDE DEF appended, F
<1>5. ASSUME NEW b, NEW d, 1 <= n => b = F(a, 1), 2 <= n => d = F(b, 2)
      PROVE  /\ appended[0] = a
             /\ 1 <= n => appended[1] = b
             /\ 2 <= n => appended[2] = d
  <2>0. PICK g : HasValues(g, n, a, b, d)
    BY <1>1, TwoStepsExist, Zenon
  <2>1. /\ g = [i \in 0 .. n |-> g[i]] /\ g[0] = a
        /\ 1 <= n => g[1] = b
        /\ 2 <= n => g[2] = d
    BY <2>0, Zenon DEF HasValues
  <2>2. \A i \in 0 .. n : g[i] = IF i = 0 THEN a ELSE F(g[i-1], i)
    <3> SUFFICES ASSUME NEW i \in 0 .. n
                 PROVE  g[i] = IF i = 0 THEN a ELSE F(g[i-1], i)
      OBVIOUS
    <3>1. CASE i = 0
      BY <2>1, <3>1
    <3>2. CASE i = 1
      <4>1. 1 <= n /\ i # 0 /\ i - 1 = 0
        BY <3>2
      <4> QED  BY <1>5, <2>1, <3>2, <4>1, Zenon
    <3>3. CASE i = 2
      <4>1. 1 <= n /\ 2 <= n /\ i # 0 /\ i - 1 = 1
        BY <3>3
      <4> QED  BY <1>5, <2>1, <3>3, <4>1, Zenon
    <3> QED  BY <3>1, <3>2, <3>3
  <2>3. g = [i \in 0 .. n |-> IF i = 0 THEN a ELSE F(g[i-1], i)]
    BY <2>1, <2>2, Zenon
  <2>4. appended = [i \in 0 .. n |-> IF i = 0 THEN a ELSE F(appended[i-1], i)]
    BY <1>3, <2>3, Zenon
  <2>5. \A i \in 0 .. n : appended[i] = IF i = 0 THEN a ELSE F(appended[i-1], i)
    BY <2>4, Zenon
  <2>6. appended[0] = a
    <3>1. 0 \in 0 .. n
      OBVIOUS
    <3> QED  BY <2>5, <3>1, Zenon
  <2>7. 1 <= n => appended[1] = b
    <3> SUFFICES ASSUME 1 <= n  PROVE appended[1] = b
      OBVIOUS
    <3>1. 1 \in 0 .. n /\ 1 # 0 /\ 1 - 1 = 0
      OBVIOUS
    <3>2. appended[1] = F(appended[1 - 1], 1)
      BY <2>5, <3>1, Zenon
    <3> QED  BY <1>5, <2>6, <3>1, <3>2, Zenon
  <2>8. 2 <= n => appended[2] = d
    <3> SUFFICES ASSUME 2 <= n  PROVE appended[2] = d
      OBVIOUS
    <3>1. 2 \in 0 .. n /\ 2 # 0 /\ 2 - 1 = 1 /\ 1 <= n
      OBVIOUS
    <3>2. appended[2] = F(appended[2 - 1], 2)
      BY <2>5, <3>1, Zenon
    <3> QED  BY <1>5, <2>7, <3>1, <3>2, Zenon
  <2> QED
    BY <2>6, <2>7, <2>8
<1>6. CASE n = 0
  <2>1. appended[0] = a
    BY <1>5, <1>6
  <2>2. AppendMessages(c, tlvs) = c
    BY <1>1, <1>2, <1>6, <2>1
  <2> QED  BY <1>1, <1>6, <2>2 DEF Behind
<1>7. CASE n = 1
  <2>1. 1 \in 1 .. n /\ 1 <= n /\ ~(2 <= n)
    BY <1>7
  <2>2. PICK t : TlvIsRead(tlvs[1], t)
    BY <1>1, <2>1, MessagesAreRead, Zenon
  <2>3. F(a, 1) = [octets |-> c \o t, ok |-> TRUE]
    BY <1>4, <2>1, <2>2, Zenon
  <2>4. appended[1] = [octets |-> c \o t, ok |-> TRUE]
    BY <1>5, <2>1, <2>3
  <2>5. AppendMessages(c, tlvs) = c \o t
    <3>1. [octets |-> c \o t, ok |-> TRUE].octets = c \o t
      OBVIOUS
    <3> QED  BY <1>1, <1>2, <1>7, <2>4, <3>1, Zenon
  <2> QED  BY <1>1, <1>7, <2>2, <2>5, Zenon DEF Behind
<1>8. CASE n = 2
  <2>1. 1 \in 1 .. n /\ 2 \in 1 .. n /\ 1 <= n /\ 2 <= n
    BY <1>8
  <2>2. PICK t, u : TlvIsRead(tlvs[1], t) /\ TlvIsRead(tlvs[2], u)
    BY <1>1, <2>1, MessagesAreRead, Zenon
  <2>3. /\ F(a, 1) = [octets |-> c \o t, ok |-> TRUE]
        /\ F([octets |-> c \o t, ok |-> TRUE], 2) = [octets |-> (c \o t) \o u, ok |-> TRUE]
    BY <1>4, <2>1, <2>2, Zenon
  <2>4. appended[2] = [octets |-> (c \o t) \o u, ok |-> TRUE]
    BY <1>5, <2>1, <2>3
  <2>5. AppendMessages(c, tlvs) = (c \o t) \o u
    <3>1. [octets |-> (c \o t) \o u, ok |-> TRUE].octets = (c \o t) \o u
      OBVIOUS
    <3> QED  BY <1>1, <1>2, <1>8, <2>4, <3>1, Zenon
  <2> QED  BY <1>1, <1>8, <2>2, <2>5, Zenon DEF Behind
<1> QED
  BY <1>6, <1>7, <1>8

\* With the messages behind it a PDU stands where it stood.
LEMMA BehindHolds ==
  ASSUME NEW c \in Seq(Octet), NEW tlvs, NEW o, Behind(o, c, tlvs)
  PROVE  /\ Holds(o, 1, c) /\ Len(c) \in Nat
         /\ Len(tlvs) = 0 => Len(o) = Len(c)
         /\ Len(tlvs) # 0 => Len(o) > Len(c)
<1>1. Holds(c, 1, c) /\ Len(c) \in Nat
  BY HoldsItself
<1>2. \A t \in Seq(Octet) : /\ c \o t \in Seq(Octet) /\ Len(c \o t) = Len(c) + Len(t)
                            /\ Holds(c \o t, 1, c)
  BY <1>1, HoldsBefore
<1>3. CASE Len(tlvs) = 0 /\ o = c
  BY <1>1, <1>3, Zenon
<1>4. ASSUME NEW t, Len(tlvs) = 1, TlvIsRead(tlvs[1], t), o = c \o t
      PROVE  Holds(o, 1, c) /\ Len(o) > Len(c) /\ Len(tlvs) # 0
  <2>1. t \in Seq(Octet) /\ Len(t) \in Nat \ {0}
    BY <1>4, Zenon DEF TlvIsRead
  <2>2. Len(o) = Len(c) + Len(t) /\ Holds(o, 1, c)
    BY <1>2, <1>4, <2>1, Zenon
  <2> QED  BY <1>1, <1>4, <2>1, <2>2
<1>5. ASSUME NEW t, NEW u, Len(tlvs) = 2, TlvIsRead(tlvs[1], t), TlvIsRead(tlvs[2], u),
             o = (c \o t) \o u
      PROVE  Holds(o, 1, c) /\ Len(o) > Len(c) /\ Len(tlvs) # 0
  <2>1. /\ t \in Seq(Octet) /\ Len(t) \in Nat \ {0}
        /\ u \in Seq(Octet) /\ Len(u) \in Nat \ {0}
    BY <1>5, Zenon DEF TlvIsRead
  <2>2. PICK d : d = c \o t
    OBVIOUS
  <2>3. d \in Seq(Octet) /\ Len(d) = Len(c) + Len(t) /\ Holds(d, 1, c)
    BY <1>2, <2>1, <2>2, Zenon
  <2>4. o = d \o u
    BY <1>5, <2>2, Zenon
  <2>5. Holds(o, 1, c)
    BY <2>1, <2>3, <2>4, HoldsBefore, Zenon
  <2>6. Len(o) = Len(d) + Len(u)
    <3>1. \A q, r \in Seq(Octet) : Len(q \o r) = Len(q) + Len(r)
      OBVIOUS
    <3> QED  BY <2>1, <2>3, <2>4, <3>1, Zenon
  <2> QED  BY <1>1, <1>5, <2>1, <2>3, <2>5, <2>6
<1> QED
  BY <1>1, <1>3, <1>4, <1>5 DEF Behind

\* Where the messages of a Metadata PDU begin.
MessagesAt(pdu) ==
  1 + 5 + Len(pdu.pdu_header.source_entity_id) + Len(pdu.pdu_header.destination_entity_id)
    + Len(pdu.pdu_header.transaction_sequence_number) + 7
    + Len(pdu.payload.source_file_name) + Len(pdu.payload.destination_file_name)

LEMMA MessagesBegin ==
  ASSUME NEW pdu \in cfdpCfdpPDU, pdu.payload.kind = "metadata_pdu",
         NEW c \in CfdpPDU_ACN_Encode(pdu)
  PROVE  MessagesAt(pdu) = Len(c) + 1 /\ c \in Seq(Octet)
<1>1. PICK q, h, p, e : /\ q = pdu.payload /\ h = pdu.pdu_header
                        /\ p = CfdpPDU_Encode_payload(q)
                        /\ e = MetadataPDU_ACN_Encode(q)
  OBVIOUS
<1>2. PICK k, n : PduParts(c, pdu, k, n, p)
  BY <1>1, EncodedPdu, Zenon
<1>3. PICK a, b : a = Len(q.source_file_name) /\ b = Len(q.destination_file_name)
  OBVIOUS
<1>4. /\ q \in cfdpMetadataPDU /\ MetadataPDU_IsConstraintValid(q)
  <2>1. CfdpPDU_IsConstraintValid(pdu)
    BY EncodedPdu, Zenon
  <2>2. PayloadData_IsConstraintValid(q)
    BY <1>1, <2>1, Zenon DEF CfdpPDU_IsConstraintValid
  <2>3. q.kind = "metadata_pdu" /\ q \in cfdpMetadataPDU
    BY <1>1, PduTypes, Zenon
  <2> QED
    BY <2>2, <2>3 DEF PayloadData_IsConstraintValid, FileDirectivePDU_IsConstraintValid
<1>5. a \in Nat /\ b \in Nat
  BY <1>3, <1>4 DEF cfdpMetadataPDU
<1>6. e \in Seq(Octet) /\ Len(e) = 7 + a + b
  BY <1>1, <1>3, <1>4, MetadataRead, Zenon DEF Written
<1>7. p = <<7>> \o e
  BY <1>1 DEF CfdpPDU_Encode_payload, CfdpPDU_directive_code, CfdpPDU_Encode_metadata_pdu
<1>8. Len(p) = 8 + a + b
  <2>1. <<7>> \in Seq(Octet) /\ Len(<<7>>) = 1
    BY OneOctet DEF Octet
  <2>2. \A r, s \in Seq(Octet) : Len(r \o s) = Len(r) + Len(s)
    OBVIOUS
  <2>3. Len(p) = 1 + (7 + a + b)
    BY <1>6, <1>7, <2>1, <2>2, Zenon
  <2> QED  BY <1>5, <2>3
<1>9. /\ c \in Seq(Octet) /\ Len(c) = 4 + 2 * k + n + Len(p)
      /\ k \in IdSizes /\ n \in IdSizes
      /\ k = Len(h.source_entity_id) /\ n = Len(h.transaction_sequence_number)
      /\ k = Len(h.destination_entity_id)
  BY <1>1, <1>2, Zenon DEF PduParts
<1>10. k \in Nat /\ n \in Nat
  BY <1>9 DEF IdSizes
<1>11. MessagesAt(pdu) = 1 + 5 + k + k + n + 7 + a + b
  BY <1>1, <1>3, <1>9, Zenon DEF MessagesAt
<1>12. 1 + 5 + k + k + n + 7 + a + b = 4 + 2 * k + n + (8 + a + b) + 1
  BY <1>5, <1>10
<1> QED
  BY <1>8, <1>9, <1>11, <1>12, Zenon

\* A TLV is read where it stands, and none behind the last octet.
LEMMA MessagesHeard ==
  ASSUME NEW pdu \in cfdpCfdpPDU, pdu.payload.kind = "metadata_pdu",
         NEW c \in CfdpPDU_ACN_Encode(pdu),
         NEW tlvs \in Messages(ValidMessage), NEW o, Behind(o, c, tlvs)
  PROVE  decode_tlv_from_metadata_pdu(pdu, o) = tlvs
<1>1. PICK start, l : start = MessagesAt(pdu) /\ l = Len(o)
  OBVIOUS
<1>2. PICK m : m = Len(c)
  OBVIOUS
<1>3. start = m + 1 /\ c \in Seq(Octet) /\ m \in Nat
  <2>1. start = m + 1 /\ c \in Seq(Octet)
    BY <1>1, <1>2, MessagesBegin, Zenon
  <2> QED  BY <1>2, <2>1
<1> DEFINE a == [next |-> start, messages |-> <<>>]
           F(x) == LET tlv == IF x.next > Len(o) THEN {} ELSE TLV_ACN_Decode(o, x.next)
                       got == CHOOSE t \in tlv : TRUE
                   IN  IF tlv = {} THEN [x EXCEPT !.next = Len(o) + 1]
                       ELSE [next |-> got.next, messages |-> Append(x.messages, got.message)]
           Leads(s, q, k, b) ==
             F([next |-> s, messages |-> q]) = [next |-> k, messages |-> b]
           read[i \in 0 .. 2] == IF i = 0 THEN a ELSE F(read[i-1])
<1>4. decode_tlv_from_metadata_pdu(pdu, o) = read[2].messages
  BY <1>1 DEF decode_tlv_from_metadata_pdu, MessagesAt
<1>5. read = CHOOSE g : g = [i \in 0 .. 2 |-> IF i = 0 THEN a ELSE F(g[i-1])]
  OBVIOUS
<1>6. ASSUME NEW s \in Nat, NEW q, s > l
      PROVE  F([next |-> s, messages |-> q]) = [next |-> l + 1, messages |-> q]
  BY <1>1, <1>6
<1>7. ASSUME NEW s \in Nat, NEW q, ~(s > l), NEW y, NEW t, TlvIsRead(y, t), Holds(o, s, t),
             NEW k, k = s + Len(t), NEW b, b = Append(q, y)
      PROVE  Leads(s, q, k, b)
  <2>1. PICK r : r = [message |-> y, next |-> k]
    OBVIOUS
  <2>2. TLV_ACN_Decode(o, s) = {r}
    BY <1>7, <2>1, Zenon DEF TlvIsRead
  <2>3. {r} # {} /\ (CHOOSE x \in {r} : TRUE) = r
    OBVIOUS
  <2>4. r.next = k /\ r.message = y
    BY <2>1
  <2>5. PICK x : x = [next |-> s, messages |-> q]
    OBVIOUS
  <2>6. x.next = s /\ x.messages = q
    BY <2>5
  <2>7. (IF x.next > Len(o) THEN {} ELSE TLV_ACN_Decode(o, x.next)) = {r}
    BY <1>1, <1>7, <2>2, <2>6, Zenon
  <2>8. F(x) = [next |-> r.next, messages |-> Append(x.messages, r.message)]
    BY <2>3, <2>7, Zenon
  <2>9. F(x) = [next |-> k, messages |-> b]
    BY <1>7, <2>4, <2>6, <2>8, Zenon
  <2> QED  BY <2>5, <2>9, Zenon DEF Leads
<1> HIDE DEF read, F, Leads
<1>8. ASSUME NEW b, NEW d, b = F(a), d = F(b)
      PROVE  read[2] = d
  <2>1. PICK g : HasValues(g, 2, a, b, d)
    <3>1. 2 \in 0 .. 2
      OBVIOUS
    <3> QED  BY <3>1, TwoStepsExist, Zenon
  <2>2. g = [i \in 0 .. 2 |-> g[i]] /\ g[0] = a /\ g[1] = b /\ g[2] = d
    BY <2>1 DEF HasValues
  <2>3. \A i \in 0 .. 2 : g[i] = IF i = 0 THEN a ELSE F(g[i-1])
    <3> SUFFICES ASSUME NEW i \in 0 .. 2
                 PROVE  g[i] = IF i = 0 THEN a ELSE F(g[i-1])
      OBVIOUS
    <3>1. CASE i = 0
      BY <2>2, <3>1
    <3>2. CASE i = 1
      <4>1. i # 0 /\ i - 1 = 0
        BY <3>2
      <4> QED  BY <1>8, <2>2, <3>2, <4>1, Zenon
    <3>3. CASE i = 2
      <4>1. i # 0 /\ i - 1 = 1
        BY <3>3
      <4> QED  BY <1>8, <2>2, <3>3, <4>1, Zenon
    <3> QED  BY <3>1, <3>2, <3>3
  <2>4. g = [i \in 0 .. 2 |-> IF i = 0 THEN a ELSE F(g[i-1])]
    BY <2>2, <2>3, Zenon
  <2>5. read = [i \in 0 .. 2 |-> IF i = 0 THEN a ELSE F(read[i-1])]
    BY <1>5, <2>4, Zenon
  <2>6. \A i \in 0 .. 2 : read[i] = IF i = 0 THEN a ELSE F(read[i-1])
    BY <2>5, Zenon
  <2>7. /\ 0 \in 0 .. 2 /\ 1 \in 0 .. 2 /\ 2 \in 0 .. 2
        /\ 1 # 0 /\ 2 # 0 /\ 1 - 1 = 0 /\ 2 - 1 = 1
    OBVIOUS
  <2>8. read[0] = a
    BY <2>6, <2>7, Zenon
  <2>9. read[1] = F(read[1 - 1])
    BY <2>6, <2>7, Zenon
  <2>10. read[2] = F(read[2 - 1])
    BY <2>6, <2>7, Zenon
  <2> QED  BY <1>8, <2>7, <2>8, <2>9, <2>10, Zenon
<1>9. \A x, y : [next |-> x, messages |-> y].messages = y
  OBVIOUS
<1>10. CASE Len(tlvs) = 0 /\ o = c
  <2>1. start > l /\ start \in Nat /\ l + 1 \in Nat /\ l + 1 > l
    <3>1. l = m
      BY <1>1, <1>2, <1>10, Zenon
    <3> QED  BY <1>3, <3>1
  <2>2. F(a) = [next |-> l + 1, messages |-> <<>>]
    BY <1>6, <2>1, Zenon
  <2>3. F([next |-> l + 1, messages |-> <<>>]) = [next |-> l + 1, messages |-> <<>>]
    BY <1>6, <2>1, Zenon
  <2>4. read[2] = [next |-> l + 1, messages |-> <<>>]
    BY <1>8, <2>2, <2>3
  <2>5. tlvs = <<>>
    BY <1>10, MessageTypesOf
  <2> QED  BY <1>4, <1>9, <2>4, <2>5, Zenon
<1>11. ASSUME NEW t, Len(tlvs) = 1, TlvIsRead(tlvs[1], t), o = c \o t
       PROVE  decode_tlv_from_metadata_pdu(pdu, o) = tlvs
  <2>1. t \in Seq(Octet) /\ Len(t) \in Nat \ {0}
    BY <1>11, Zenon DEF TlvIsRead
  <2>2. PICK k \in Nat \ {0} : k = Len(t)
    BY <2>1
  <2>3. l = m + k
    <3>1. \A q, r \in Seq(Octet) : Len(q \o r) = Len(q) + Len(r)
      OBVIOUS
    <3> QED  BY <1>1, <1>2, <1>3, <1>11, <2>1, <2>2, <3>1, Zenon
  <2>4. Holds(o, m + 1, t)
    <3>1. Holds(t, 1, t)
      BY <2>1, HoldsItself, Zenon
    <3> QED  BY <1>2, <1>3, <1>11, <3>1, HoldsBehind, Zenon
  <2>5. ~(start > l) /\ start \in Nat /\ start + k > l /\ start + k \in Nat
    BY <1>3, <2>2, <2>3
  <2>6. F(a) = [next |-> start + k, messages |-> Append(<<>>, tlvs[1])]
    <3>1. Holds(o, start, t)
      BY <1>3, <2>4, Zenon
    <3>2. PICK z, b : z = start + k /\ b = Append(<<>>, tlvs[1])
      OBVIOUS
    <3>3. z = start + Len(t)
      BY <2>2, <3>2, Zenon
    <3>4. Leads(start, <<>>, z, b)
      BY <1>7, <1>11, <2>5, <3>1, <3>2, <3>3, Zenon
    <3> QED  BY <3>2, <3>4, Zenon DEF Leads
  <2>7. F([next |-> start + k, messages |-> Append(<<>>, tlvs[1])])
          = [next |-> l + 1, messages |-> Append(<<>>, tlvs[1])]
    BY <1>6, <2>5, Zenon
  <2>8. read[2] = [next |-> l + 1, messages |-> Append(<<>>, tlvs[1])]
    BY <1>8, <2>6, <2>7
  <2>9. Append(<<>>, tlvs[1]) = tlvs
    <3>1. tlvs \in Seq(ValidMessage)
      BY MessageTypesOf, Zenon
    <3> QED  BY <1>11, <3>1
  <2> QED  BY <1>4, <1>9, <2>8, <2>9, Zenon
<1>12. ASSUME NEW t, NEW u, Len(tlvs) = 2, TlvIsRead(tlvs[1], t), TlvIsRead(tlvs[2], u),
              o = (c \o t) \o u
       PROVE  decode_tlv_from_metadata_pdu(pdu, o) = tlvs
  <2>1. /\ t \in Seq(Octet) /\ Len(t) \in Nat \ {0}
        /\ u \in Seq(Octet) /\ Len(u) \in Nat \ {0}
    BY <1>12, Zenon DEF TlvIsRead
  <2>2. PICK k \in Nat \ {0}, n \in Nat \ {0} : k = Len(t) /\ n = Len(u)
    BY <2>1
  <2>3. PICK d : d = c \o t
    OBVIOUS
  <2>4. d \in Seq(Octet) /\ Len(d) = m + k /\ l = (m + k) + n
    <3>1. \A q, r \in Seq(Octet) : q \o r \in Seq(Octet) /\ Len(q \o r) = Len(q) + Len(r)
      OBVIOUS
    <3>2. d \in Seq(Octet) /\ Len(d) = m + k
      BY <1>2, <1>3, <2>1, <2>2, <2>3, <3>1, Zenon
    <3>3. o = d \o u
      BY <1>12, <2>3, Zenon
    <3> QED  BY <1>1, <2>1, <2>2, <3>1, <3>2, <3>3, Zenon
  <2>5. Holds(o, m + 1, t) /\ Holds(o, (m + k) + 1, u)
    <3>1. Holds(t, 1, t) /\ Holds(u, 1, u)
      BY <2>1, HoldsItself, Zenon
    <3>2. Holds(d, m + 1, t)
      BY <1>2, <1>3, <2>3, <3>1, HoldsBehind, Zenon
    <3>3. o = d \o u
      BY <1>12, <2>3, Zenon
    <3>4. Holds(o, m + 1, t)
      BY <2>1, <3>2, <3>3, HoldsBefore, Zenon
    <3>5. Holds(o, (m + k) + 1, u)
      BY <2>4, <3>1, <3>3, HoldsBehind, Zenon
    <3> QED  BY <3>4, <3>5
  <2>6. /\ ~(start > l) /\ start \in Nat /\ start + k \in Nat /\ ~(start + k > l)
        /\ start + k = (m + k) + 1
    BY <1>3, <2>2, <2>4
  <2>7. F(a) = [next |-> start + k, messages |-> Append(<<>>, tlvs[1])]
    <3>1. Holds(o, start, t)
      BY <1>3, <2>5, Zenon
    <3>2. PICK z, b : z = start + k /\ b = Append(<<>>, tlvs[1])
      OBVIOUS
    <3>3. z = start + Len(t)
      BY <2>2, <3>2, Zenon
    <3>4. Leads(start, <<>>, z, b)
      BY <1>7, <1>12, <2>6, <3>1, <3>2, <3>3, Zenon
    <3> QED  BY <3>2, <3>4, Zenon DEF Leads
  <2>8. F([next |-> start + k, messages |-> Append(<<>>, tlvs[1])])
          = [next |-> (start + k) + n, messages |-> Append(Append(<<>>, tlvs[1]), tlvs[2])]
    <3>1. Holds(o, start + k, u)
      BY <2>5, <2>6, Zenon
    <3>2. PICK s, q, z, b : /\ s = start + k /\ q = Append(<<>>, tlvs[1])
                            /\ z = (start + k) + n /\ b = Append(q, tlvs[2])
      OBVIOUS
    <3>3. z = s + Len(u)
      BY <2>2, <3>2, Zenon
    <3>4. s \in Nat /\ ~(s > l) /\ Holds(o, s, u)
      BY <2>6, <3>1, <3>2, Zenon
    <3>5. Leads(s, q, z, b)
      BY <1>7, <1>12, <3>2, <3>3, <3>4, Zenon
    <3>6. F([next |-> s, messages |-> q]) = [next |-> z, messages |-> b]
      BY <3>5, Zenon DEF Leads
    <3> QED  BY <3>2, <3>6, Zenon
  <2>9. read[2] = [next |-> (start + k) + n,
                   messages |-> Append(Append(<<>>, tlvs[1]), tlvs[2])]
    BY <1>8, <2>7, <2>8
  <2>10. Append(Append(<<>>, tlvs[1]), tlvs[2]) = tlvs
    <3>1. tlvs \in Seq(ValidMessage)
      BY MessageTypesOf, Zenon
    <3> QED  BY <1>12, <3>1
  <2> QED  BY <1>4, <1>9, <2>9, <2>10, Zenon
<1> QED
  BY <1>10, <1>11, <1>12, Zenon DEF Behind

-----------------------------------------------------------------------------
(* The length in the header of what is on the link. *)

LEMMA TwoOctetsAreRead ==
  ASSUME NEW o \in Seq(Octet), Len(o) >= 3
  PROVE  Unsigned(Slice(o, 2, 2)) = pdu_data_field_length(o)
<1>1. PICK s : s = SubSeq(o, 2, 3)
  OBVIOUS
<1>2. Slice(o, 2, 2) = s
  <2>1. 2 + 2 - 1 = 3
    OBVIOUS
  <2> QED  BY <1>1, <2>1, Zenon DEF Slice
<1>3. s \in Seq(Octet) /\ Len(s) = 2 /\ s[1] = o[2] /\ s[2] = o[3]
  <2>1. PICK n \in Nat : n = Len(o) /\ n >= 3
    OBVIOUS
  <2>2. \A i \in 2 .. 3 : o[i] \in Octet
    <3>1. \A i \in 2 .. 3 : i \in 1 .. Len(o)
      BY <2>1
    <3> QED  BY <3>1
  <2> QED  BY <1>1, <2>1, <2>2, SubSeqProperties
<1>4. PICK f : IsUnsigned(f, s) /\ Unsigned(s) = f[Len(s)]
  BY <1>3, UnsignedOctets, Zenon
<1>5. f[0] = 0 /\ \A i \in 1 .. 2 : f[i] = 256 * f[i - 1] + s[i]
  BY <1>3, <1>4, Zenon DEF IsUnsigned
<1>6. /\ 1 \in 1 .. 2 /\ 2 \in 1 .. 2 /\ 1 - 1 = 0 /\ 2 - 1 = 1
  OBVIOUS
<1>7. f[1] = 256 * f[0] + s[1] /\ f[2] = 256 * f[1] + s[2]
  <2>1. f[1] = 256 * f[1 - 1] + s[1] /\ f[2] = 256 * f[2 - 1] + s[2]
    BY <1>5, <1>6, Zenon
  <2> QED  BY <1>6, <2>1, Zenon
<1>8. s[1] \in Nat /\ s[2] \in Nat
  <2>1. Octet \subseteq Nat
    BY DEF Octet
  <2>2. \A t \in Seq(Octet) : \A i \in 1 .. Len(t) : t[i] \in Octet
    OBVIOUS
  <2>3. 1 \in 1 .. 2 /\ 2 \in 1 .. 2
    OBVIOUS
  <2> QED  BY <1>3, <2>1, <2>2, <2>3, Zenon
<1>9. f[1] = s[1]
  BY <1>5, <1>7, <1>8
<1>10. f[2] = 256 * o[2] + o[3]
  BY <1>3, <1>7, <1>9, Zenon
<1> QED
  BY <1>2, <1>3, <1>4, <1>10, Zenon DEF pdu_data_field_length

\* Where the PDU ends that a header announces.
EndOf(o) == CfdpPDU_Layout(o).payload_at - 1 + CfdpPDU_Layout(o).pdu_data_field_length

LEMMA EndOfEncoded ==
  ASSUME NEW pdu \in cfdpCfdpPDU, NEW c \in CfdpPDU_ACN_Encode(pdu), NEW o, Holds(o, 1, c)
  PROVE  EndOf(o) = Len(c) /\ c \in Seq(Octet)
<1>1. PICK k, n, p : PduParts(c, pdu, k, n, p)
  BY EncodedPdu, Zenon
<1>2. LaidOut(CfdpPDU_Layout(o), pdu, k, n, p, o, c)
  BY <1>1, PduLayout, Zenon
<1>3. EndOf(o) = (5 + 2 * k + n) - 1 + Len(p)
  BY <1>2, Zenon DEF LaidOut, EndOf
<1>4. /\ c \in Seq(Octet) /\ Len(c) = 4 + 2 * k + n + Len(p) /\ k \in IdSizes /\ n \in IdSizes
      /\ Len(p) \in PayloadSizes
  BY <1>1, Zenon DEF PduParts
<1>5. PICK m : m = Len(p)
  OBVIOUS
<1>6. k \in Nat /\ n \in Nat /\ m \in Nat
  <2>1. IdSizes \subseteq Nat /\ PayloadSizes \subseteq Nat
    BY DEF IdSizes, PayloadSizes
  <2> QED  BY <1>4, <1>5, <2>1, Zenon
<1>7. (5 + 2 * k + n) - 1 + m = 4 + 2 * k + n + m
  BY <1>6
<1> QED
  BY <1>3, <1>4, <1>5, <1>7, Zenon

\* What removing the determinant leaves as it was.
LEMMA DeterminantRemoved ==
  ASSUME NEW e \in Seq(Octet), NEW n \in Nat, Len(e) >= 4, HoldsDeterminant(e, n)
  PROVE  /\ RemoveDeterminant(e, n) \in Seq(Octet)
         /\ Len(RemoveDeterminant(e, n)) = Len(e) - 2
         /\ Len(RemoveDeterminant(e, n)) >= 4
         /\ RemoveDeterminant(e, n)[4] = e[4]
<1>1. PICK at : at = header_with_segment_offset_size(e)
  OBVIOUS
<1>2. at \in Nat /\ at >= 11 /\ Len(e) = at + 2 + n
  BY <1>1, HeaderSize DEF HoldsDeterminant, determinant_size
<1>3. PICK d : d = Remove(e, at)
  OBVIOUS
<1>4. PICK d1 : d1 = Decrement(d)
  OBVIOUS
<1>5. PICK r : r = Decrement(d1)
  OBVIOUS
<1>6. RemoveDeterminant(e, n) = r
  BY <1>2, <1>3, <1>4, <1>5, RemoveDeterminantAt, Zenon
<1>7. IsRemoved(d, e, at)
  <2>1. at + 2 <= Len(e)
    BY <1>2
  <2> QED  BY <1>2, <1>3, <2>1, RemoveElements, Zenon
<1>8. d \in Seq(Octet) /\ Len(d) = at + n /\ Len(d) >= 3 /\ d[4] = e[4]
  <2>1. /\ d \in Seq(Octet) /\ Len(d) = Len(e) - 2
        /\ \A i \in 1 .. Len(e) - 2 : d[i] = IF i <= at THEN e[i] ELSE e[i + 2]
    BY <1>7, Zenon DEF IsRemoved
  <2>2. 4 \in 1 .. Len(e) - 2 /\ 4 <= at
    BY <1>2
  <2>3. d[4] = e[4]
    BY <2>1, <2>2, Zenon
  <2> QED  BY <1>2, <2>1, <2>3
<1>9. d1 \in Seq(Octet) /\ Len(d1) = at + n /\ Len(d1) >= 3 /\ d1[4] = e[4]
  <2>1. IsDecremented(d1, d)
    BY <1>4, <1>8, DecrementElements, Zenon
  <2>2. 4 \in 1 .. Len(d) /\ 4 # 2 /\ 4 # 3
    BY <1>2, <1>8
  <2>3. d1 \in Seq(Octet) /\ Len(d1) = Len(d) /\ d1[4] = d[4]
    BY <2>1, <2>2, Zenon DEF IsDecremented
  <2> QED  BY <1>8, <2>3, Zenon
<1>10. r \in Seq(Octet) /\ Len(r) = at + n /\ r[4] = e[4]
  <2>1. IsDecremented(r, d1)
    BY <1>5, <1>9, DecrementElements, Zenon
  <2>2. 4 \in 1 .. Len(d1) /\ 4 # 2 /\ 4 # 3
    BY <1>2, <1>9
  <2>3. r \in Seq(Octet) /\ Len(r) = Len(d1) /\ r[4] = d1[4]
    BY <2>1, <2>2, Zenon DEF IsDecremented
  <2> QED  BY <1>9, <2>3, Zenon
<1>11. at + n = Len(e) - 2 /\ at + n >= 4
  BY <1>2
<1> QED
  BY <1>6, <1>10, <1>11, Zenon

LEMMA EndOfFileData ==
  ASSUME NEW pdu \in cfdpCfdpPDU, pdu.payload.kind = "file_data_pdu",
         NEW c \in CfdpPDU_ACN_Encode(pdu), NEW o, NEW tlvs, OnLink(o, c, pdu, tlvs)
  PROVE  EndOf(o) = Len(o) /\ o \in Seq(Octet)
<1>1. PICK n : n = Len(pdu.payload.file_data)
  OBVIOUS
<1>2. /\ c \in Seq(Octet) /\ Len(c) >= 4 /\ n \in Nat /\ HoldsDeterminant(c, n)
      /\ pdu_data_field_length(c) >= 2
  BY <1>1, EncoderWritesDeterminant, Zenon
<1>3. o = RemoveDeterminant(c, n)
  BY <1>1, Zenon DEF OnLink
<1>4. o \in Seq(Octet) /\ Len(o) = Len(c) - 2 /\ Len(o) >= 4 /\ o[4] = c[4]
  BY <1>2, <1>3, DeterminantRemoved, Zenon
<1>5. pdu_data_field_length(o) = pdu_data_field_length(c) - 2
  BY <1>2, <1>3, TransmittedLength, Zenon
<1>6. /\ CfdpPDU_Layout(o).pdu_data_field_length = CfdpPDU_Layout(c).pdu_data_field_length - 2
      /\ CfdpPDU_Layout(o).payload_at = CfdpPDU_Layout(c).payload_at
  <2>1. /\ Unsigned(Slice(o, 2, 2)) = pdu_data_field_length(o)
        /\ Unsigned(Slice(c, 2, 2)) = pdu_data_field_length(c)
    <3>1. Len(o) >= 3 /\ Len(c) >= 3
      BY <1>2, <1>4
    <3> QED  BY <1>2, <1>4, <3>1, TwoOctetsAreRead, Zenon
  <2>2. \A x : CfdpPDU_Layout(x).pdu_data_field_length = Unsigned(Slice(x, 2, 2))
    BY DEF CfdpPDU_Layout
  <2>3. \A x, y : x[4] = y[4] => CfdpPDU_Layout(x).payload_at = CfdpPDU_Layout(y).payload_at
    BY DEF CfdpPDU_Layout
  <2> QED  BY <1>4, <1>5, <2>1, <2>2, <2>3, Zenon
<1>7. PICK a, l : a = CfdpPDU_Layout(c).payload_at /\ l = CfdpPDU_Layout(c).pdu_data_field_length
  OBVIOUS
<1>8. a - 1 + l = Len(c)
  <2>1. EndOf(c) = Len(c)
    BY <1>2, HoldsItself, EndOfEncoded, Zenon
  <2> QED  BY <1>7, <2>1, Zenon DEF EndOf
<1>9. a \in Nat /\ l \in Nat
  <2>1. PICK k, m, p : PduParts(c, pdu, k, m, p)
    BY EncodedPdu, Zenon
  <2>2. LaidOut(CfdpPDU_Layout(c), pdu, k, m, p, c, c)
    BY <1>2, <2>1, HoldsItself, PduLayout, Zenon
  <2>3. a = 5 + 2 * k + m /\ l = Len(p)
    BY <1>7, <2>2, Zenon DEF LaidOut
  <2>4. k \in IdSizes /\ m \in IdSizes /\ Len(p) \in PayloadSizes
    BY <2>1, Zenon DEF PduParts
  <2>5. IdSizes \subseteq Nat /\ PayloadSizes \subseteq Nat
    BY DEF IdSizes, PayloadSizes
  <2>6. k \in Nat /\ m \in Nat /\ l \in Nat
    BY <2>3, <2>4, <2>5, Zenon
  <2> QED  BY <2>3, <2>6
<1>10. EndOf(o) = a - 1 + (l - 2)
  BY <1>6, <1>7, Zenon DEF EndOf
<1> QED
  BY <1>4, <1>8, <1>9, <1>10

-----------------------------------------------------------------------------
(* A datagram of an end, or of another implementation. *)

\* The header can be written.
HasAddress(header) == PDUHeader_IsConstraintValid(header) /\ CfdpPDU_EqualIdLengths(header)

\* What a datagram of a PDU and messages is.
Arrived(d, e, pdu, tlvs) ==
  /\ d.to = Other(e) /\ d.pdu = pdu /\ d.messages = tlvs
  /\ d.octets \in Seq(Octet)
  /\ ReadPdu(d.octets) = {pdu}
  /\ pdu.payload.kind = "metadata_pdu" => decode_tlv_from_metadata_pdu(pdu, d.octets) = tlvs
  /\ HasAddress(pdu.pdu_header)
  /\ IF tlvs = <<>> THEN EndOf(d.octets) = Len(d.octets)
     ELSE pdu.payload.kind = "file_data_pdu" \/ EndOf(d.octets) < Len(d.octets)

LEMMA DatagramArrives ==
  ASSUME NEW e, NEW pdu, NEW tlvs, MayTransmit(pdu, tlvs), NEW d \in Transmit(e, pdu, tlvs)
  PROVE  Arrived(d, e, pdu, tlvs)
<1>1. PICK o : o = d.octets
  OBVIOUS
<1>2. /\ d.to = Other(e) /\ d.pdu = pdu /\ d.messages = tlvs
      /\ \E c \in CfdpPDU_ACN_Encode(pdu) : OnLink(o, c, pdu, tlvs)
  <2>1. /\ d.to = Other(e) /\ d.pdu = pdu /\ d.messages = tlvs
        /\ \E c \in CfdpPDU_ACN_Encode(pdu) : OnLink(d.octets, c, pdu, tlvs)
    BY Datagram, Zenon
  <2> QED  BY <1>1, <2>1, Zenon
<1>3. PICK c \in CfdpPDU_ACN_Encode(pdu) : OnLink(o, c, pdu, tlvs)
  BY <1>2
<1>4. pdu \in cfdpCfdpPDU /\ tlvs \in Messages(ValidMessage)
  BY DEF MayTransmit
<1>5. HasAddress(pdu.pdu_header)
  BY <1>3, <1>4, EncodedPdu, Zenon DEF HasAddress, CfdpPDU_IsConstraintValid
<1>6. CASE pdu.payload.kind = "file_data_pdu"
  <2>1. ReadPdu(o) = {pdu} /\ EndOf(o) = Len(o) /\ o \in Seq(Octet)
    BY <1>3, <1>4, <1>6, FileDataHeard, EndOfFileData, Zenon
  <2>2. pdu.payload.kind # "metadata_pdu"
    BY <1>6
  <2> QED  BY <1>1, <1>2, <1>5, <1>6, <2>1, <2>2, Zenon DEF Arrived
<1>7. CASE pdu.payload.kind # "file_data_pdu"
  <2>1. Behind(o, c, tlvs)
    BY <1>3, <1>4, <1>7, MessagesAppended, Zenon DEF OnLink
  <2>2. c \in Seq(Octet)
    <3>1. PICK k, n, p : PduParts(c, pdu, k, n, p)
      BY <1>3, <1>4, EncodedPdu, Zenon
    <3> QED  BY <3>1, Zenon DEF PduParts
  <2>3. /\ Holds(o, 1, c) /\ Len(c) \in Nat
        /\ Len(tlvs) = 0 => Len(o) = Len(c)
        /\ Len(tlvs) # 0 => Len(o) > Len(c)
    BY <2>1, <2>2, BehindHolds, Zenon
  <2>4. o \in Seq(Octet)
    BY <2>3, Zenon DEF Holds
  <2>5. ReadPdu(o) = {pdu} /\ EndOf(o) = Len(c)
    BY <1>3, <1>4, <1>7, <2>3, OtherPduHeard, EndOfEncoded, Zenon
  <2>6. pdu.payload.kind = "metadata_pdu" => decode_tlv_from_metadata_pdu(pdu, o) = tlvs
    BY <1>3, <1>4, <2>1, MessagesHeard, Zenon
  <2>7. IF tlvs = <<>> THEN EndOf(o) = Len(o) ELSE EndOf(o) < Len(o)
    <3>1. tlvs = <<>> <=> Len(tlvs) = 0
      BY <1>4, MessageTypesOf
    <3>2. Len(o) \in Nat
      BY <2>4
    <3> QED  BY <2>3, <2>5, <3>1, <3>2
  <2> QED  BY <1>1, <1>2, <1>5, <2>4, <2>5, <2>6, <2>7, Zenon DEF Arrived
<1> QED
  BY <1>6, <1>7

-----------------------------------------------------------------------------
(* The PDUs and the messages of a transaction. *)

\* An identifier as it goes into a header.
IsIdentifier(id, v) ==
  /\ id \in Seq(Octet) /\ Len(id) \in 0 .. 4
  /\ bytes_to_ulong(LastOctets(id)) = v

LEMMA Identifier ==
  ASSUME NEW v \in uint32_t
  PROVE  IsIdentifier(uint64_to_bytes_big_endian(v), v)
<1>1. PICK id : id = uint64_to_bytes_big_endian(v)
  OBVIOUS
<1>2. v \in Nat /\ v < 256^4
  BY Uint32Read, Zenon
<1>3. id \in Seq(Octet) /\ Len(id) \in 0 .. 4 /\ Unsigned(id) = v
  BY <1>1, <1>2, IdentifierRead, Zenon
<1>4. ~(Len(id) > 4) /\ ~(Len(id) > 8)
  <2>1. \A n \in 0 .. 4 : ~(n > 4) /\ ~(n > 8)
    OBVIOUS
  <2> QED  BY <1>3, <2>1, Zenon
<1>5. LastOctets(id) = id
  BY <1>4, Zenon DEF LastOctets
<1>6. bytes_to_ulong(id) = v
  BY <1>3, <1>4, Zenon DEF bytes_to_ulong
<1> QED
  BY <1>1, <1>3, <1>5, <1>6, Zenon DEF IsIdentifier

LEMMA IdentifierLength ==
  ASSUME NEW v \in uint32_t \ {0}
  PROVE  Len(uint64_to_bytes_big_endian(v)) \in 1 .. 4
<1>1. PICK id : id = uint64_to_bytes_big_endian(v)
  OBVIOUS
<1>2. v \in Nat /\ v < 256^4 /\ v # 0
  BY Uint32Read, Zenon
<1>3. id \in Seq(Octet) /\ Len(id) \in 0 .. 4 /\ Unsigned(id) = v
  BY <1>1, <1>2, IdentifierRead, Zenon
<1>4. ASSUME Len(id) = 0
      PROVE  FALSE
  <2>1. PICK f : IsUnsigned(f, id) /\ Unsigned(id) = f[Len(id)]
    BY <1>3, UnsignedOctets, Zenon
  <2>2. f[0] = 0
    BY <2>1, Zenon DEF IsUnsigned
  <2>3. Unsigned(id) = f[0]
    BY <1>4, <2>1, Zenon
  <2> QED  BY <1>2, <1>3, <2>2, <2>3, Zenon
<1>5. PICK n : n = Len(id)
  OBVIOUS
<1>6. n \in 1 .. 4
  BY <1>3, <1>4, <1>5
<1> QED
  BY <1>1, <1>5, <1>6, Zenon

LEMMA TransactionTypes ==
  ASSUME NEW e, NEW t \in Transactions(e)
  PROVE  /\ t.source_entity_id = EntityId[e] /\ t.seq_number \in uint32_t \ {0}
         /\ t.destination_entity_id \in uint32_t
         /\ t.source_filename \in ShortName /\ t.destination_filename \in ShortName
         /\ t.file \in File /\ t.file_position \in Nat
         /\ t.messages \in Messages(message_to_user)
BY DEF Transactions

LEMMA FileTypes ==
  ASSUME NEW f \in File
  PROVE  /\ f \in Seq(Octet) /\ Len(f) \in uint32_t /\ FileChecksum(f) \in uint32_t
         /\ Len(f) \in Nat
BY DEF File

LEMMA NameTypes ==
  ASSUME NEW name \in ShortName
  PROVE  name \in Seq(Octet) /\ Len(name) <= 127 /\ Len(name) \in Nat
BY DEF ShortName

\* The header of a transaction of an end.
HeaderIs(h, t, e) ==
  /\ h \in cfdpPDUHeader
  /\ TransactionId(h) = IdOf(t)
  /\ TransactionId(h).source_entity_id = EntityId[e]

LEMMA Header ==
  ASSUME NEW e \in Ends, NEW t \in Transactions(e)
  PROVE  HeaderIs(create_pdu_header(t), t, e)
<1>1. PICK s, n, d : /\ s = uint64_to_bytes_big_endian(t.source_entity_id)
                     /\ n = uint64_to_bytes_big_endian(t.seq_number)
                     /\ d = uint64_to_bytes_big_endian(t.destination_entity_id)
  OBVIOUS
<1>2. PICK h : h = create_pdu_header(t)
  OBVIOUS
<1>3. /\ t.source_entity_id = EntityId[e] /\ t.source_entity_id \in uint32_t
      /\ t.seq_number \in uint32_t /\ t.destination_entity_id \in uint32_t
  <2>1. EntityId \in [Ends -> uint32_t \ {0}]
    BY EndsAssumption
  <2>2. EntityId[e] \in uint32_t
    BY <2>1
  <2>3. t.seq_number \in uint32_t
    BY TransactionTypes
  <2> QED  BY <2>2, <2>3, TransactionTypes, Zenon
<1>4. IsIdentifier(s, t.source_entity_id) /\ IsIdentifier(n, t.seq_number)
        /\ IsIdentifier(d, t.destination_entity_id)
  BY <1>1, <1>3, Identifier, Zenon
<1>5. s \in Seq(Octet) /\ n \in Seq(Octet) /\ d \in Seq(Octet)
  BY <1>4, Zenon DEF IsIdentifier
<1>6. h = [version |-> 1, direction |-> "toward_receiver",
           transmission_mode |-> "unacknowledged", crc_flag |-> "crc_not_present",
           source_entity_id |-> s, transaction_sequence_number |-> n,
           destination_entity_id |-> d]
  BY <1>1, <1>2, Zenon DEF create_pdu_header
<1>7. h \in cfdpPDUHeader
  <2>1. /\ "toward_receiver" \in DOMAIN Direction_ACN_Encode
        /\ "unacknowledged" \in DOMAIN TransmissionMode_ACN_Encode
        /\ "crc_not_present" \in DOMAIN CRCFlag_ACN_Encode
    BY DEF Direction_ACN_Encode, TransmissionMode_ACN_Encode, CRCFlag_ACN_Encode
  <2>2. 1 \in 0 .. 7
    OBVIOUS
  <2> QED  BY <1>5, <1>6, <2>1, <2>2 DEF cfdpPDUHeader
<1>8. h.source_entity_id = s /\ h.transaction_sequence_number = n
  BY <1>6
<1>9. TransactionId(h) = [source_entity_id |-> t.source_entity_id, seq_number |-> t.seq_number]
  BY <1>4, <1>8, Zenon DEF TransactionId, IsIdentifier
<1>10. TransactionId(h).source_entity_id = EntityId[e]
  BY <1>3, <1>9
<1> QED
  BY <1>2, <1>7, <1>9, <1>10, Zenon DEF HeaderIs, IdOf

\* A PDU of a transaction of an end.
IsPduOf(pdu, t, e, kind) ==
  /\ pdu \in cfdpCfdpPDU /\ pdu.payload.kind = kind
  /\ TransactionId(pdu.pdu_header) = IdOf(t)
  /\ TransactionId(pdu.pdu_header).source_entity_id = EntityId[e]

LEMMA PduOf ==
  ASSUME NEW e \in Ends, NEW t \in Transactions(e), NEW p \in cfdpPayloadData, NEW pdu,
         pdu = [pdu_header |-> create_pdu_header(t), payload |-> p]
  PROVE  IsPduOf(pdu, t, e, p.kind)
<1>1. PICK h : h = create_pdu_header(t)
  OBVIOUS
<1>2. HeaderIs(h, t, e)
  BY <1>1, Header, Zenon
<1>3. pdu = [pdu_header |-> h, payload |-> p]
  BY <1>1, Zenon
<1>4. pdu.pdu_header = h /\ pdu.payload = p
  BY <1>3
<1>5. h \in cfdpPDUHeader
  BY <1>2, Zenon DEF HeaderIs
<1>6. pdu \in cfdpCfdpPDU
  BY <1>3, <1>5 DEF cfdpCfdpPDU
<1> QED
  BY <1>2, <1>4, <1>6, Zenon DEF HeaderIs, IsPduOf

LEMMA Metadata ==
  ASSUME NEW e \in Ends, NEW t \in Transactions(e)
  PROVE  IsPduOf(MetadataPdu(t), t, e, "metadata_pdu")
<1> DEFINE p == [kind |-> "metadata_pdu", closure_requested |-> "requested",
                 checksum_type |-> "modular", file_size |-> Len(t.file),
                 source_file_name |-> t.source_filename,
                 destination_file_name |-> t.destination_filename]
<1>1. p \in cfdpMetadataPDU
  <2>1. t.source_filename \in Seq(Octet) /\ t.destination_filename \in Seq(Octet)
    BY TransactionTypes, NameTypes, Zenon
  <2>2. Len(t.file) \in uint32_t
    BY TransactionTypes, FileTypes, Zenon
  <2>3. "requested" \in DOMAIN ClosureRequested_ACN_Encode
    BY DEF ClosureRequested_ACN_Encode
  <2>4. "modular" \in DOMAIN ChecksumType_ACN_Encode
    BY DEF ChecksumType_ACN_Encode
  <2> QED  BY <2>1, <2>2, <2>3, <2>4 DEF cfdpMetadataPDU
<1>2. p \in cfdpPayloadData /\ p.kind = "metadata_pdu"
  BY <1>1 DEF cfdpPayloadData
<1>3. MetadataPdu(t) = [pdu_header |-> create_pdu_header(t), payload |-> p]
  BY Zenon DEF MetadataPdu
<1> HIDE DEF p
<1>4. IsPduOf(MetadataPdu(t), t, e, p.kind)
  BY <1>2, <1>3, PduOf, Zenon
<1> QED
  BY <1>2, <1>4, Zenon

LEMMA Eof ==
  ASSUME NEW e \in Ends, NEW t \in Transactions(e),
         NEW code \in DOMAIN ConditionCode_ACN_Encode
  PROVE  IsPduOf(EofPdu(t, code), t, e, "eof_pdu")
<1> DEFINE p == [kind |-> "eof_pdu", condition_code |-> code,
                 file_checksum |-> IF t.source_filename = <<>> THEN 0 ELSE FileChecksum(t.file),
                 file_size |-> Len(t.file)]
<1>1. p \in cfdpEofPDU
  <2>1. Len(t.file) \in uint32_t /\ FileChecksum(t.file) \in uint32_t
    BY TransactionTypes, FileTypes, Zenon
  <2>2. 0 \in uint32_t
    BY DEF uint32_t, Octet
  <2>3. PICK x : x = IF t.source_filename = <<>> THEN 0 ELSE FileChecksum(t.file)
    OBVIOUS
  <2>4. x \in uint32_t
    BY <2>1, <2>2, <2>3, Zenon
  <2>5. p = [kind |-> "eof_pdu", condition_code |-> code, file_checksum |-> x,
             file_size |-> Len(t.file)]
    BY <2>3, Zenon
  <2> QED  BY <2>1, <2>4, <2>5 DEF cfdpEofPDU
<1>2. p \in cfdpPayloadData /\ p.kind = "eof_pdu"
  BY <1>1 DEF cfdpPayloadData
<1>3. EofPdu(t, code) = [pdu_header |-> create_pdu_header(t), payload |-> p]
  BY Zenon DEF EofPdu
<1> HIDE DEF p
<1>4. IsPduOf(EofPdu(t, code), t, e, p.kind)
  BY <1>2, <1>3, PduOf, Zenon
<1> QED
  BY <1>2, <1>4, Zenon

\* A number that is not greater than one of 32 bits has 32 bits.
LEMMA SmallerNumber ==
  ASSUME NEW m \in uint32_t, NEW n \in Nat, n <= m
  PROVE  n \in uint32_t
<1>1. PICK p \in Nat \ {0} : p = 256^3
  BY Powers, PowerValues, ZenonT(60)
<1>2. m \in Nat /\ m \div p \in 0 .. 255
  BY <1>1, Zenon DEF uint32_t, Octet
<1>3. PICK a \in 0 .. 255, b \in 0 .. p - 1 : m = p * a + b
  <2>1. m \div p \in 0 .. 255 /\ m % p \in 0 .. p - 1 /\ m = p * (m \div p) + (m % p)
    BY <1>1, <1>2
  <2> QED  BY <2>1
<1>4. PICK c \in Nat, d \in 0 .. p - 1 : n = p * c + d /\ c = n \div p
  <2>1. n \div p \in Nat /\ n % p \in 0 .. p - 1 /\ n = p * (n \div p) + (n % p)
    BY <1>1
  <2> QED  BY <2>1
<1>5. c <= a
  <2> SUFFICES ASSUME c >= a + 1  PROVE FALSE
    BY <1>3, <1>4
  <2>1. p * c >= p * (a + 1)
    BY <1>1, <1>3, <1>4
  <2>2. p * (a + 1) = p * a + p
    BY <1>1, <1>3
  <2>3. PICK x \in Nat, y \in Nat : x = p * c /\ y = p * a
    BY <1>1, <1>3, <1>4
  <2>4. x >= y + p /\ n = x + d /\ m = y + b
    BY <1>3, <1>4, <2>1, <2>2, <2>3, Zenon
  <2> QED  BY <1>1, <1>3, <1>4, <2>3, <2>4
<1>6. n \div p \in Octet
  BY <1>3, <1>4, <1>5 DEF Octet
<1> QED
  BY <1>1, <1>6, Zenon DEF uint32_t

LEMMA CStringOctets ==
  ASSUME NEW s \in Seq(Octet)
  PROVE  CString(s) \in Seq(Octet)
<1> DEFINE nuls == {j \in 1 .. Len(s) : s[j] = 0}
           c == [i \in 1 .. Len(s) |-> IF \E j \in nuls : j <= i THEN 0 ELSE s[i]]
<1>1. CString(s) = c
  BY Zenon DEF CString
<1>2. PICK n \in Nat : n = Len(s)
  OBVIOUS
<1>3. \A i \in 1 .. n : s[i] \in Octet
  BY <1>2
<1>4. 0 \in Octet
  BY DEF Octet
<1>5. \A i \in 1 .. n : (IF \E j \in nuls : j <= i THEN 0 ELSE s[i]) \in Octet
  BY <1>3, <1>4, Zenon
<1>6. c \in [1 .. n -> Octet]
  BY <1>2, <1>5
<1> QED
  BY <1>1, <1>2, <1>6

LEMMA SegmentSizeIsNatural == SegmentSize \in Nat
BY BoundsAssumption

\* What is left of a file, and the segment that is sent of it.
LEMMA Segment ==
  ASSUME NEW e, NEW t \in Transactions(e), t.file_position <= Len(t.file)
  PROVE  /\ SegmentLength(t) \in Nat
         /\ t.file_position + SegmentLength(t) <= Len(t.file)
         /\ t.file_position + SegmentLength(t) \in Nat
<1>1. PICK l, p, s : l = Len(t.file) /\ p = t.file_position /\ s = SegmentSize
  OBVIOUS
<1>2. l \in Nat /\ p \in Nat /\ p <= l
  BY <1>1, TransactionTypes, FileTypes, Zenon
<1>3. s \in Nat
  BY <1>1, SegmentSizeIsNatural, Zenon
<1>4. SegmentLength(t) = IF l - p > s THEN s ELSE l - p
  BY <1>1, Zenon DEF SegmentLength
<1>5. PICK k : k = SegmentLength(t)
  OBVIOUS
<1>6. k \in Nat /\ p + k <= l /\ p + k \in Nat
  BY <1>2, <1>3, <1>4, <1>5
<1> QED
  BY <1>1, <1>5, <1>6, Zenon

LEMMA FileData ==
  ASSUME NEW e \in Ends, NEW t \in Transactions(e), t.file_position <= Len(t.file)
  PROVE  IsPduOf(FileDataPdu(t), t, e, "file_data_pdu")
<1>1. PICK f, k, s, o : /\ f = t.file /\ k = SegmentLength(t) /\ s = t.file_position
                        /\ o = f \o Zeros(SegmentSize)
  OBVIOUS
<1>2. f \in Seq(Octet) /\ Len(f) \in uint32_t /\ Len(f) \in Nat /\ s \in Nat /\ s <= Len(f)
  BY <1>1, TransactionTypes, FileTypes, Zenon
<1>3. k \in Nat /\ s + k <= Len(f)
  BY <1>1, Segment, Zenon
<1>4. Zeros(SegmentSize) \in Seq(Octet)
  BY SegmentSizeIsNatural, ZerosAreOctets, Zenon
<1>5. o \in Seq(Octet) /\ Len(o) >= Len(f)
  BY <1>1, <1>2, <1>4
<1>6. PICK d : d = Slice(o, s + 1, k)
  OBVIOUS
<1>7. d \in Seq(Octet)
  <2>1. PICK n \in Nat : n = Len(o) /\ n >= Len(f)
    BY <1>5
  <2>2. PICK a, b : a = s + 1 /\ b = s + 1 + k - 1
    OBVIOUS
  <2>3. a \in Nat /\ b \in Nat /\ a >= 1 /\ b <= n
    BY <1>2, <1>3, <2>1, <2>2
  <2>4. d = SubSeq(o, a, b)
    BY <1>6, <2>2, Zenon DEF Slice
  <2>5. \A i \in a .. b : o[i] \in Octet
    <3>1. \A i \in a .. b : i \in 1 .. n
      BY <2>3
    <3>2. \A i \in 1 .. n : o[i] \in Octet
      BY <1>5, <2>1
    <3> QED  BY <3>1, <3>2, Zenon
  <2>6. SubSeq(o, a, b) = [i \in 1 .. b - a + 1 |-> o[i + a - 1]] /\ b - a + 1 \in Nat
    BY <1>2, <1>3, <1>5, <2>2, <2>3
  <2>7. \A i \in 1 .. b - a + 1 : o[i + a - 1] \in Octet
    <3>1. \A i \in 1 .. b - a + 1 : i + a - 1 \in a .. b
      BY <2>3
    <3> QED  BY <2>5, <3>1, Zenon
  <2> QED  BY <2>4, <2>6, <2>7
<1>8. PICK c : c = CString(d)
  OBVIOUS
<1>9. c \in Seq(Octet)
  BY <1>7, <1>8, CStringOctets, Zenon
<1>10. s \in uint32_t
  BY <1>2, SmallerNumber, Zenon
<1> DEFINE p == [kind |-> "file_data_pdu", segment_offset |-> s, file_data |-> c]
<1>11. p \in cfdpFileDataPDU
  BY <1>9, <1>10 DEF cfdpFileDataPDU
<1>12. p \in cfdpPayloadData /\ p.kind = "file_data_pdu"
  BY <1>11 DEF cfdpPayloadData
<1>13. FileDataPdu(t) = [pdu_header |-> create_pdu_header(t), payload |-> p]
  BY <1>1, <1>6, <1>8, Zenon DEF FileDataPdu
<1> HIDE DEF p
<1>14. IsPduOf(FileDataPdu(t), t, e, p.kind)
  BY <1>12, <1>13, PduOf, Zenon
<1> QED
  BY <1>12, <1>14, Zenon

LEMMA DirectoryNames ==
  ASSUME NEW name \in directory_name
  PROVE  name \in Seq(Octet) /\ ListingFileName_IsConstraintValid(name)
BY DEF directory_name

LEMMA MessageIsValid ==
  ASSUME NEW e \in Ends, NEW t \in Transactions(e), NEW m \in message_to_user
  PROVE  MessageTlv(t, m) \in ValidMessage
<1>1. PICK type : type = m.message_to_user_type
  OBVIOUS
<1>2. CASE type = "DIRECTORY_LISTING_REQUEST"
  <2>1. m.directory_name \in directory_name /\ m.directory_file_name \in directory_name
    BY <1>1, <1>2 DEF message_to_user
  <2>2. PICK a, b : a = m.directory_name /\ b = m.directory_file_name
    OBVIOUS
  <2>3. /\ a \in Seq(Octet) /\ b \in Seq(Octet)
        /\ ListingFileName_IsConstraintValid(a) /\ ListingFileName_IsConstraintValid(b)
    BY <2>1, <2>2, DirectoryNames, Zenon
  <2>4. PICK x : x = [kind |-> "directory_listing_request", directory_name |-> a,
                      directory_file_name |-> b]
    OBVIOUS
  <2>5. MessageTlv(t, m) = x
    BY <1>1, <1>2, <2>2, <2>4 DEF MessageTlv
  <2>6. x \in cfdpDirectoryListingRequest
    BY <2>3, <2>4 DEF cfdpDirectoryListingRequest
  <2>7. TLV_IsConstraintValid(x)
    BY <2>3, <2>4 DEF TLV_IsConstraintValid, MessageToUser_IsConstraintValid,
       DirectoryListingRequest_IsConstraintValid
  <2> QED  BY <2>5, <2>6, <2>7 DEF ValidMessage, cfdpMessageToUser
<1>3. CASE type = "DIRECTORY_LISTING_RESPONSE"
  <2>1. /\ m.directory_name \in directory_name /\ m.directory_file_name \in directory_name
        /\ m.listing_response_code \in DOMAIN ListingResponseCode_ACN_Encode
    BY <1>1, <1>3 DEF message_to_user
  <2>2. PICK a, b, c : /\ a = m.directory_name /\ b = m.directory_file_name
                       /\ c = m.listing_response_code
    OBVIOUS
  <2>3. /\ a \in Seq(Octet) /\ b \in Seq(Octet) /\ c \in DOMAIN ListingResponseCode_ACN_Encode
        /\ ListingFileName_IsConstraintValid(a) /\ ListingFileName_IsConstraintValid(b)
    BY <2>1, <2>2, DirectoryNames, Zenon
  <2>4. PICK x : x = [kind |-> "directory_listing_response", listing_response_code |-> c,
                      directory_name |-> a, directory_file_name |-> b]
    OBVIOUS
  <2>5. MessageTlv(t, m) = x
    BY <1>1, <1>3, <2>2, <2>4 DEF MessageTlv
  <2>6. x \in cfdpDirectoryListingResponse
    BY <2>3, <2>4 DEF cfdpDirectoryListingResponse
  <2>7. TLV_IsConstraintValid(x)
    BY <2>3, <2>4 DEF TLV_IsConstraintValid, MessageToUser_IsConstraintValid,
       DirectoryListingResponse_IsConstraintValid
  <2> QED  BY <2>5, <2>6, <2>7 DEF ValidMessage, cfdpMessageToUser
<1>4. CASE type = "ORIGINATING_TRANSACTION_ID"
  <2>1. PICK s, n : /\ s = uint64_to_bytes_big_endian(t.source_entity_id)
                    /\ n = uint64_to_bytes_big_endian(t.seq_number)
    OBVIOUS
  <2>2. t.source_entity_id \in uint32_t \ {0} /\ t.seq_number \in uint32_t \ {0}
    <3>1. EntityId[e] \in uint32_t \ {0}
      BY EndsAssumption
    <3> QED  BY <3>1, TransactionTypes, Zenon
  <2>3. /\ s \in Seq(Octet) /\ n \in Seq(Octet) /\ Len(s) \in 1 .. 4 /\ Len(n) \in 1 .. 4
    <3>1. t.source_entity_id \in uint32_t /\ t.seq_number \in uint32_t
      BY <2>2
    <3>2. IsIdentifier(s, t.source_entity_id) /\ IsIdentifier(n, t.seq_number)
      BY <2>1, <3>1, Identifier, Zenon
    <3> QED  BY <2>1, <2>2, <3>2, IdentifierLength, Zenon DEF IsIdentifier
  <2>4. EntityId_IsConstraintValid(s) /\ TransactionSequenceNumber_IsConstraintValid(n)
    <3>1. \A k \in 1 .. 4 : k \in 1 .. 7
      OBVIOUS
    <3> QED
      BY <2>3, <3>1, Zenon
      DEF EntityId_IsConstraintValid, TransactionSequenceNumber_IsConstraintValid
  <2>5. PICK x : x = [kind |-> "originating_transaction_id", source_entity_id |-> s,
                      transaction_sequence_number |-> n]
    OBVIOUS
  <2>6. MessageTlv(t, m) = x
    BY <1>1, <1>4, <2>1, <2>5 DEF MessageTlv
  <2>7. x \in cfdpOriginatingTransactionId
    BY <2>3, <2>5 DEF cfdpOriginatingTransactionId
  <2>8. TLV_IsConstraintValid(x)
    BY <2>4, <2>5 DEF TLV_IsConstraintValid, MessageToUser_IsConstraintValid,
       OriginatingTransactionId_IsConstraintValid
  <2> QED  BY <2>6, <2>7, <2>8 DEF ValidMessage, cfdpMessageToUser
<1>5. type \in {"DIRECTORY_LISTING_REQUEST", "DIRECTORY_LISTING_RESPONSE",
                "ORIGINATING_TRANSACTION_ID"}
  BY <1>1 DEF message_to_user
<1> QED
  BY <1>2, <1>3, <1>4, <1>5, Zenon

LEMMA TlvsAreValid ==
  ASSUME NEW e \in Ends, NEW t \in Transactions(e)
  PROVE  Tlvs(t) \in Messages(ValidMessage)
<1>1. t.messages \in Messages(message_to_user)
  BY TransactionTypes, Zenon
<1>2. PICK n \in 0 .. 2 : n = Len(t.messages)
  BY <1>1, MessageTypesOf, Zenon
<1>3. \A i \in 1 .. n : t.messages[i] \in message_to_user
  BY <1>1, <1>2, MessageTypesOf, Zenon
<1>4. \A i \in 1 .. n : MessageTlv(t, t.messages[i]) \in ValidMessage
  BY <1>3, MessageIsValid, Zenon
<1>5. PICK s : s = [i \in 1 .. n |-> MessageTlv(t, t.messages[i])]
  OBVIOUS
<1>6. s \in [1 .. n -> ValidMessage]
  BY <1>4, <1>5
<1>7. s \in Seq(ValidMessage) /\ Len(s) = n
  BY <1>6
<1>8. s \in Messages(ValidMessage)
  BY <1>7 DEF Messages, MAX_NUMBER_OF_MESSAGES_TO_USER
<1> QED
  BY <1>2, <1>5, <1>8, Zenon DEF Tlvs

LEMMA NoMessages ==
  <<>> \in Messages(ValidMessage) /\ Len(<<>>) = 0
BY DEF Messages, MAX_NUMBER_OF_MESSAGES_TO_USER

-----------------------------------------------------------------------------
(* What an end sends, and a put. *)

AllTransmitted(e, out) == \A d \in out : Transmitted(e, d)

LEMMA Sent ==
  ASSUME NEW e, NEW t, NEW kind, NEW pdu, IsPduOf(pdu, t, e, kind),
         NEW tlvs \in Messages(ValidMessage), kind = "file_data_pdu" => tlvs = <<>>
  PROVE  AllTransmitted(e, Transmit(e, pdu, tlvs))
<1> SUFFICES ASSUME NEW d \in Transmit(e, pdu, tlvs)
             PROVE  Transmitted(e, d)
  BY Zenon DEF AllTransmitted
<1>1. d.pdu = pdu /\ d.messages = tlvs
  BY DEF Transmit
<1>2. d \in Transmit(e, d.pdu, d.messages)
  BY <1>1, Zenon
<1>3. /\ pdu \in cfdpCfdpPDU /\ pdu.payload.kind = kind
      /\ TransactionId(pdu.pdu_header).source_entity_id = EntityId[e]
  BY Zenon DEF IsPduOf
<1>4. /\ d.pdu \in cfdpCfdpPDU /\ d.messages \in Messages(ValidMessage)
      /\ d.pdu.payload.kind = "file_data_pdu" => d.messages = <<>>
      /\ TransactionId(d.pdu.pdu_header).source_entity_id = EntityId[e]
  BY <1>1, <1>3, Zenon
<1> QED
  BY <1>2, <1>4, Zenon DEF Transmitted, MayTransmit

LEMMA MetadataSent ==
  ASSUME NEW e \in Ends, NEW t \in Transactions(e)
  PROVE  AllTransmitted(e, SendMetadata(e, t))
<1>1. "metadata_pdu" # "file_data_pdu"
  OBVIOUS
<1>2. PICK pdu, tlvs : pdu = MetadataPdu(t) /\ tlvs = Tlvs(t)
  OBVIOUS
<1>3. IsPduOf(pdu, t, e, "metadata_pdu") /\ tlvs \in Messages(ValidMessage)
  BY <1>2, Metadata, TlvsAreValid, Zenon
<1>4. "metadata_pdu" = "file_data_pdu" => tlvs = <<>>
  BY <1>1
<1>5. AllTransmitted(e, Transmit(e, pdu, tlvs))
  BY <1>3, <1>4, Sent, Zenon
<1> QED
  BY <1>2, <1>5, Zenon DEF SendMetadata

LEMMA EofSent ==
  ASSUME NEW e \in Ends, NEW t \in Transactions(e), NEW code \in DOMAIN ConditionCode_ACN_Encode
  PROVE  AllTransmitted(e, SendEof(e, t, code))
<1>1. "eof_pdu" # "file_data_pdu"
  OBVIOUS
<1> QED
  BY <1>1, Eof, NoMessages, Sent, Zenon DEF SendEof

LEMMA EofCodes ==
  /\ "no_error" \in DOMAIN ConditionCode_ACN_Encode
  /\ "cancel_request_received" \in DOMAIN ConditionCode_ACN_Encode
BY DEF ConditionCode_ACN_Encode

LEMMA FileDataSent ==
  ASSUME NEW e \in Ends, NEW t \in Transactions(e), t.file_position <= Len(t.file)
  PROVE  AllTransmitted(e, SendFileData(e, t))
BY FileData, NoMessages, Sent, Zenon DEF SendFileData

LEMMA TruncatedName ==
  ASSUME NEW s \in Seq(Octet)
  PROVE  Truncated(s, 127) \in ShortName
<1>1. PICK n \in Nat : n = Len(s)
  OBVIOUS
<1>2. CASE n > 127
  <2>1. Truncated(s, 127) = SubSeq(s, 1, 127)
    BY <1>1, <1>2 DEF Truncated
  <2>2. PICK g : g = SubSeq(s, 1, 127)
    OBVIOUS
  <2>3. g = [i \in 1 .. 127 |-> s[i]] /\ Len(g) = 127
    BY <1>1, <1>2, <2>2
  <2>4. \A i \in 1 .. 127 : s[i] \in Octet
    BY <1>1, <1>2
  <2>5. g \in [1 .. 127 -> Octet]
    BY <2>3, <2>4
  <2>6. g \in Seq(Octet)
    <3>1. PICK k \in Nat : k = 127
      OBVIOUS
    <3>2. g \in [1 .. k -> Octet]
      BY <2>5, <3>1, Zenon
    <3> QED  BY <3>2
  <2>7. Len(g) <= 127
    BY <2>3
  <2> QED  BY <2>1, <2>2, <2>6, <2>7, Zenon DEF ShortName
<1>3. CASE ~(n > 127)
  BY <1>1, <1>3 DEF Truncated, ShortName
<1> QED
  BY <1>2, <1>3

LEMMA RequestTypes ==
  ASSUME NEW r \in PutRequest
  PROVE  /\ r.destination_entity_id \in uint32_t /\ r.end \in Ends
         /\ r.source_filename \in Seq(Octet) /\ r.destination_filename \in Seq(Octet)
         /\ r.file \in File /\ r.messages \in Messages(message_to_user)
BY DEF PutRequest

IsFresh(t, e, number) ==
  t \in Transactions(e) /\ t.seq_number = number /\ t.file_position = 0

LEMMA TransactionOfRequest ==
  ASSUME NEW e \in Ends, NEW number \in uint32_t \ {0}, NEW r \in PutRequest,
         NEW t, t = Transaction(e, number, r)
  PROVE  IsFresh(t, e, number)
<1>1. PICK a, b : /\ a = Truncated(r.source_filename, 127)
                  /\ b = Truncated(r.destination_filename, 127)
  OBVIOUS
<1>2. a \in ShortName /\ b \in ShortName
  BY <1>1, RequestTypes, TruncatedName, Zenon
<1>3. t = [source_entity_id |-> EntityId[e], seq_number |-> number,
           destination_entity_id |-> r.destination_entity_id,
           source_filename |-> a, destination_filename |-> b,
           file |-> r.file, file_position |-> 0, messages |-> r.messages]
  BY <1>1, Zenon DEF Transaction
<1>4. r.destination_entity_id \in uint32_t /\ r.file \in File
        /\ r.messages \in Messages(message_to_user)
  BY RequestTypes, Zenon
<1>5. t.seq_number = number /\ t.file_position = 0
  BY <1>3
<1>6. PICK d, f, m : /\ d = r.destination_entity_id /\ f = r.file /\ m = r.messages
  OBVIOUS
<1>7. t = [source_entity_id |-> EntityId[e], seq_number |-> number,
           destination_entity_id |-> d, source_filename |-> a, destination_filename |-> b,
           file |-> f, file_position |-> 0, messages |-> m]
  BY <1>3, <1>6, Zenon
<1>8. d \in uint32_t /\ f \in File /\ m \in Messages(message_to_user)
  BY <1>4, <1>6, Zenon
<1>9. EntityId[e] \in {EntityId[e]} /\ 0 \in Nat
  OBVIOUS
<1>10. t \in Transactions(e)
  BY <1>2, <1>7, <1>8, <1>9, SMT DEF Transactions
<1> QED
  BY <1>5, <1>10, Zenon DEF IsFresh

\* The result of a put.
PutIs(e, put, number) ==
  /\ SenderIs(e, put.sender) /\ put.number = number
  /\ AllTransmitted(e, put.out)
  /\ put.out = {} => ~HasAddress(MetadataPdu(put.sender.transaction).pdu_header)
  /\ MetadataPdu(put.sender.transaction) \in cfdpCfdpPDU

\* Only an identifier can keep a Metadata PDU from being encoded.
LEMMA MetadataRefused ==
  ASSUME NEW e \in Ends, NEW t \in Transactions(e), SendMetadata(e, t) = {}
  PROVE  ~HasAddress(MetadataPdu(t).pdu_header)
<1>1. PICK pdu : pdu = MetadataPdu(t)
  OBVIOUS
<1>2. IsPduOf(pdu, t, e, "metadata_pdu")
  BY <1>1, Metadata, Zenon
<1>3. CfdpPDU_ACN_Encode(pdu) = {}
  BY <1>1 DEF SendMetadata, Transmit
<1>4. ~(CfdpPDU_IsConstraintValid(pdu) /\ CfdpPDU_EqualIdLengths(pdu.pdu_header))
  <2>1. \A x : {x} # {}
    OBVIOUS
  <2> QED  BY <1>3, <2>1, Zenon DEF CfdpPDU_ACN_Encode
<1>5. PayloadData_IsConstraintValid(pdu.payload)
  <2>1. PICK q : q = pdu.payload
    OBVIOUS
  <2>2. /\ q.kind = "metadata_pdu" /\ q.source_file_name = t.source_filename
        /\ q.destination_file_name = t.destination_filename
        /\ q.closure_requested = "requested" /\ q.checksum_type = "modular"
    BY <1>1, <2>1 DEF MetadataPdu
  <2>3. /\ Len(t.source_filename) <= 127 /\ Len(t.source_filename) \in Nat
        /\ Len(t.destination_filename) <= 127 /\ Len(t.destination_filename) \in Nat
    BY TransactionTypes, NameTypes, Zenon
  <2>4. /\ FileName_IsConstraintValid(q.source_file_name)
        /\ FileName_IsConstraintValid(q.destination_file_name)
    <3>1. \A n \in Nat : n <= 127 => n <= 128
      OBVIOUS
    <3> QED  BY <2>2, <2>3, <3>1, ZenonT(60) DEF FileName_IsConstraintValid
  <2>5. MetadataPDU_IsConstraintValid(q)
    BY <2>2, <2>4
    DEF MetadataPDU_IsConstraintValid, ClosureRequested_ACN_Encode, ChecksumType_ACN_Encode
  <2> QED
    BY <2>1, <2>2, <2>5 DEF PayloadData_IsConstraintValid, FileDirectivePDU_IsConstraintValid
<1> QED
  BY <1>1, <1>4, <1>5, Zenon DEF HasAddress, CfdpPDU_IsConstraintValid

LEMMA PutResult ==
  ASSUME NEW e \in Ends, NEW number \in uint32_t \ {0}, NEW r \in PutRequest
  PROVE  PutIs(e, cfdp_core_put(e, number, r), number)
<1>1. PICK t, metadata, put : /\ t = Transaction(e, number, r)
                              /\ metadata = SendMetadata(e, t)
                              /\ put = cfdp_core_put(e, number, r)
  OBVIOUS
<1>2. t \in Transactions(e) /\ t.seq_number = number /\ t.file_position = 0
  <2>1. IsFresh(t, e, number)
    BY <1>1, TransactionOfRequest, Zenon
  <2> QED  BY <2>1, Zenon DEF IsFresh
<1>3. AllTransmitted(e, metadata)
  BY <1>1, <1>2, MetadataSent, Zenon
<1>4. AllTransmitted(e, SendEof(e, t, "no_error"))
  BY <1>2, EofCodes, EofSent, Zenon
<1>5. put = Opened(e, t, metadata)
  BY <1>1, Zenon DEF cfdp_core_put
<1>6. PICK stays : stays = (metadata # {} /\ IsFileTransfer(t))
  OBVIOUS
<1>7. PICK s, x : /\ s = [state |-> IF stays THEN "SEND_FILE" ELSE "COMPLETED",
                          id |-> IdOf(t), transaction |-> t]
                  /\ x = metadata \cup (IF metadata = {} \/ stays THEN {}
                                        ELSE SendEof(e, t, "no_error"))
  OBVIOUS
<1>8. put = [sender |-> s, number |-> t.seq_number, out |-> x]
  BY <1>5, <1>6, <1>7, Zenon DEF Opened
<1>9. put.sender = s /\ put.number = number /\ put.out = x
  BY <1>2, <1>8
<1>10. SenderIs(e, s)
  <2>1. s.transaction = t /\ s.id = IdOf(t) /\ s.state \in {"SEND_FILE", "COMPLETED"}
    BY <1>7
  <2>2. IdOf(t) \in Ids
    <3>1. t.source_entity_id \in Nat /\ t.seq_number \in Nat
      <4>1. EntityId[e] \in uint32_t
        BY EndsAssumption
      <4>2. t.source_entity_id \in uint32_t /\ t.seq_number \in uint32_t
        <5>1. t.source_entity_id = EntityId[e] /\ t.seq_number \in uint32_t \ {0}
          BY <1>2, TransactionTypes, Zenon
        <5> QED  BY <4>1, <5>1
      <4> QED  BY <4>2, Uint32Read, Zenon
    <3> QED  BY <3>1 DEF IdOf, Ids
  <2>3. t.file_position <= Len(t.file)
    <3>1. Len(t.file) \in Nat
      BY <1>2, TransactionTypes, FileTypes, Zenon
    <3> QED  BY <1>2, <3>1
  <2>4. s \in [state : {"SEND_FILE", "COMPLETED"}, id : Ids,
               transaction : Transactions(e) \cup {NoTransaction}]
    <3>1. PICK i : i = IdOf(t)
      OBVIOUS
    <3>2. i \in Ids
      BY <2>2, <3>1, Zenon
    <3>3. s = [state |-> s.state, id |-> i, transaction |-> t]
      BY <1>7, <3>1
    <3> QED  BY <1>2, <2>1, <3>2, <3>3
  <2> QED  BY <1>2, <2>1, <2>3, <2>4, Zenon DEF SenderIs
<1>11. AllTransmitted(e, x)
  BY <1>3, <1>4, <1>7, Zenon DEF AllTransmitted
<1>12. x = {} => ~HasAddress(MetadataPdu(t).pdu_header)
  <2>1. x = {} => metadata = {}
    BY <1>7
  <2> QED  BY <1>1, <1>2, <2>1, MetadataRefused, Zenon
<1>13. s.transaction = t
  BY <1>7
<1>14. MetadataPdu(t) \in cfdpCfdpPDU
  BY <1>2, Metadata, Zenon DEF IsPduOf
<1> QED
  BY <1>1, <1>9, <1>10, <1>11, <1>12, <1>13, <1>14, Zenon DEF PutIs

-----------------------------------------------------------------------------
(* The answers to the messages of a PDU. *)

\* The number of an end after at most k puts.
Counted(e, number, k) ==
  /\ number \in Nat
  /\ transaction_sequence_number[e] <= number
  /\ number <= transaction_sequence_number[e] + k

\* What has become of an end after k messages.
DoneIs(e, x, k) ==
  /\ x = [sender |-> x.sender, receiver |-> x.receiver, number |-> x.number,
          out |-> x.out, told |-> x.told, ok |-> x.ok]
  /\ SenderIs(e, x.sender) /\ AllTransmitted(e, x.out)
  /\ Counted(e, x.number, k)

LEMMA NumberedIsNatural ==
  ASSUME NEW e \in Ends, NEW number, Numbered(e, number)
  PROVE  /\ number \in Nat /\ FirstNumber \in Nat /\ MaxPuts[e] \in Nat
         /\ FirstNumber <= number /\ number <= FirstNumber + MaxPuts[e]
BY BoundsAssumption DEF Numbered

LEMMA HighestNumber == \A e \in Ends : FirstNumber + MaxPuts[e] + 2 \in uint32_t
BY BoundsAssumption

LEMMA NextNumber ==
  ASSUME NEW e \in Ends, Numbered(e, transaction_sequence_number[e]),
         NEW k \in 0 .. 1, NEW n, Counted(e, n, k)
  PROVE  n + 1 \in uint32_t \ {0} /\ Counted(e, n + 1, k + 1)
<1>1. PICK s, f, p : s = transaction_sequence_number[e] /\ f = FirstNumber /\ p = MaxPuts[e]
  OBVIOUS
<1>2. s \in Nat /\ f \in Nat /\ p \in Nat /\ f <= s /\ s <= f + p
  BY <1>1, NumberedIsNatural, Zenon
<1>3. n \in Nat /\ s <= n /\ n <= s + k
  BY <1>1, Zenon DEF Counted
<1>4. PICK m : m = f + p + 2
  OBVIOUS
<1>5. m \in uint32_t
  BY <1>1, <1>4, HighestNumber, Zenon
<1>6. PICK l : l = n + 1
  OBVIOUS
<1>7. l \in Nat /\ l <= m /\ l # 0 /\ s <= l /\ l <= s + (k + 1)
  BY <1>2, <1>3, <1>4, <1>6
<1>8. l \in uint32_t
  BY <1>5, <1>7, SmallerNumber, Zenon
<1>9. l \in uint32_t \ {0}
  BY <1>7, <1>8
<1>10. Counted(e, l, k + 1)
  BY <1>1, <1>7, Zenon DEF Counted
<1> QED
  BY <1>6, <1>9, <1>10, Zenon

\* The put that answers a listing request is one that an end may make.
LEMMA ListingResponseIsRequest ==
  ASSUME NEW e \in Ends, NEW id \in Ids, NEW m \in ValidMessage,
         m.kind = "directory_listing_request"
  PROVE  ListingResponse(e, id, m) \in PutRequest
<1>1. m \in cfdpDirectoryListingRequest /\ TLV_IsConstraintValid(m)
  BY DEF ValidMessage, cfdpMessageToUser, cfdpOriginatingTransactionId,
     cfdpDirectoryListingRequest, cfdpDirectoryListingResponse
<1>2. PICK a, b, s, n : /\ a = m.directory_name /\ b = m.directory_file_name
                        /\ s = id.source_entity_id /\ n = id.seq_number
  OBVIOUS
<1>3. a \in directory_name /\ b \in directory_name /\ b \in Seq(Octet)
  <2>1. a \in Seq(Octet) /\ b \in Seq(Octet)
    BY <1>1, <1>2 DEF cfdpDirectoryListingRequest
  <2>2. ListingFileName_IsConstraintValid(a) /\ ListingFileName_IsConstraintValid(b)
    BY <1>1, <1>2 DEF TLV_IsConstraintValid, MessageToUser_IsConstraintValid,
       DirectoryListingRequest_IsConstraintValid
  <2> QED  BY <2>1, <2>2 DEF directory_name
<1>4. s \in Nat /\ n \in Nat
  BY <1>2 DEF Ids
<1> DEFINE x == [message_to_user_type |-> "DIRECTORY_LISTING_RESPONSE",
                 listing_response_code |-> "successful",
                 directory_name |-> a, directory_file_name |-> b]
           y == [message_to_user_type |-> "ORIGINATING_TRANSACTION_ID",
                 source_entity_id |-> s, seq_number |-> n]
<1>5. x \in message_to_user
  <2>1. "successful" \in DOMAIN ListingResponseCode_ACN_Encode
    BY DEF ListingResponseCode_ACN_Encode
  <2> QED  BY <1>3, <2>1 DEF message_to_user
<1>6. y \in message_to_user
  BY <1>4 DEF message_to_user
<1>7. <<46, 108, 105, 115, 116, 105, 110, 103>> \in Seq(Octet)
  BY DEF Octet
<1>8. ListingResponse(e, id, m)
        = [end |-> e, destination_entity_id |-> EntityId[e],
           source_filename |-> <<46, 108, 105, 115, 116, 105, 110, 103>>,
           destination_filename |-> b, file |-> ListingFile, messages |-> <<x, y>>]
  BY <1>2, Zenon DEF ListingResponse
<1> HIDE DEF x, y
<1>9. <<x, y>> \in Messages(message_to_user)
  <2>1. <<x, y>> \in Seq(message_to_user) /\ Len(<<x, y>>) = 2
    BY <1>5, <1>6
  <2> QED  BY <2>1 DEF Messages, MAX_NUMBER_OF_MESSAGES_TO_USER
<1>10. EntityId[e] \in uint32_t /\ ListingFile \in File
  BY EndsAssumption, RequestsAssumption
<1>11. PICK i, f, q, c : /\ i = EntityId[e] /\ f = ListingFile /\ q = <<x, y>>
                         /\ c = <<46, 108, 105, 115, 116, 105, 110, 103>>
  OBVIOUS
<1>12. i \in uint32_t /\ f \in File /\ q \in Messages(message_to_user) /\ c \in Seq(Octet)
  BY <1>7, <1>9, <1>10, <1>11, Zenon
<1>13. ListingResponse(e, id, m) =
         [end |-> e, destination_entity_id |-> i, source_filename |-> c,
          destination_filename |-> b, file |-> f, messages |-> q]
  BY <1>8, <1>11, Zenon
<1> QED
  BY <1>3, <1>12, <1>13, SMT DEF PutRequest

\* A put after k messages.
LEMMA PutAfter ==
  ASSUME NEW e \in Ends, Numbered(e, transaction_sequence_number[e]),
         NEW k \in 0 .. 1, NEW x, DoneIs(e, x, k), NEW r \in PutRequest
  PROVE  DoneIs(e, After(x, cfdp_core_put(e, x.number + 1, r)), k + 1)
<1>1. PICK n : n = x.number + 1
  OBVIOUS
<1>2. n \in uint32_t \ {0} /\ Counted(e, n, k + 1)
  BY <1>1, NextNumber, Zenon DEF DoneIs
<1>3. PICK put : put = cfdp_core_put(e, n, r)
  OBVIOUS
<1>4. PutIs(e, put, n)
  BY <1>2, <1>3, PutResult, Zenon
<1>5. SenderIs(e, put.sender) /\ put.number = n /\ AllTransmitted(e, put.out)
  BY <1>4, Zenon DEF PutIs
<1>6. PICK y : y = After(x, put)
  OBVIOUS
<1>7. x = [sender |-> x.sender, receiver |-> x.receiver, number |-> x.number,
           out |-> x.out, told |-> x.told, ok |-> x.ok] /\ AllTransmitted(e, x.out)
  BY Zenon DEF DoneIs
<1>8. y = [sender |-> put.sender, receiver |-> x.receiver, number |-> put.number,
           out |-> x.out \cup put.out, told |-> x.told, ok |-> x.ok]
  BY <1>6, <1>7 DEF After
<1>9. /\ y.sender = put.sender /\ y.number = put.number /\ y.out = x.out \cup put.out
      /\ y = [sender |-> y.sender, receiver |-> y.receiver, number |-> y.number,
              out |-> y.out, told |-> y.told, ok |-> y.ok]
  BY <1>8
<1>10. AllTransmitted(e, x.out \cup put.out)
  BY <1>5, <1>7, Zenon DEF AllTransmitted
<1>11. DoneIs(e, y, k + 1)
  BY <1>2, <1>5, <1>9, <1>10, Zenon DEF DoneIs
<1> QED
  BY <1>1, <1>3, <1>6, <1>11, Zenon

\* More than was counted.
LEMMA DoneStays ==
  ASSUME NEW e \in Ends, Numbered(e, transaction_sequence_number[e]),
         NEW k \in 0 .. 1, NEW x, DoneIs(e, x, k)
  PROVE  /\ DoneIs(e, x, k + 1)
         /\ DoneIs(e, [x EXCEPT !.ok = FALSE], k + 1)
         /\ \A y : DoneIs(e, [x EXCEPT !.told = y], k + 1)
<1>1. PICK s : s = transaction_sequence_number[e]
  OBVIOUS
<1>2. s \in Nat
  BY <1>1, NumberedIsNatural, Zenon
<1>3. Counted(e, x.number, k + 1)
  <2>1. PICK n : n = x.number
    OBVIOUS
  <2>2. n \in Nat /\ s <= n /\ n <= s + k
    BY <1>1, <2>1, Zenon DEF DoneIs, Counted
  <2>3. n <= s + (k + 1)
    BY <1>2, <2>2
  <2> QED  BY <1>1, <2>1, <2>2, <2>3, Zenon DEF Counted
<1>4. /\ x = [sender |-> x.sender, receiver |-> x.receiver, number |-> x.number,
              out |-> x.out, told |-> x.told, ok |-> x.ok]
      /\ SenderIs(e, x.sender) /\ AllTransmitted(e, x.out)
  BY Zenon DEF DoneIs
<1>5. DoneIs(e, x, k + 1)
  BY <1>3, <1>4, Zenon DEF DoneIs
<1>6. ASSUME NEW y, y = [x EXCEPT !.ok = FALSE]
      PROVE  DoneIs(e, y, k + 1)
  <2>1. /\ y.sender = x.sender /\ y.number = x.number /\ y.out = x.out
        /\ y = [sender |-> y.sender, receiver |-> y.receiver, number |-> y.number,
                out |-> y.out, told |-> y.told, ok |-> y.ok]
    BY <1>4, <1>6
  <2> QED  BY <1>3, <1>4, <2>1, Zenon DEF DoneIs
<1>7. ASSUME NEW z, NEW y, y = [x EXCEPT !.told = z]
      PROVE  DoneIs(e, y, k + 1)
  <2>1. /\ y.sender = x.sender /\ y.number = x.number /\ y.out = x.out
        /\ y = [sender |-> y.sender, receiver |-> y.receiver, number |-> y.number,
                out |-> y.out, told |-> y.told, ok |-> y.ok]
    BY <1>4, <1>7
  <2> QED  BY <1>3, <1>4, <2>1, Zenon DEF DoneIs
<1> QED
  BY <1>5, <1>6, <1>7, Zenon

LEMMA MessagesAnswered ==
  ASSUME NEW e \in Ends, Numbered(e, transaction_sequence_number[e]),
         DoneIs(e, Unchanged(e), 0), NEW id \in Ids,
         NEW messages \in Messages(ValidMessage), NEW works
  PROVE  DoneIs(e, transaction_process_messages_to_user(e, id, messages, works), Len(messages))
<1>1. PICK n \in 0 .. 2 : n = Len(messages)
  BY MessageTypesOf, Zenon
<1> DEFINE a == Unchanged(e)
           F(before, i) ==
             LET m == messages[i]
             IN  CASE ~before.ok -> before
                   [] before.ok /\ m.kind = "directory_listing_request" ->
                        IF i <= works
                        THEN After(before, cfdp_core_put(e, before.number + 1,
                                                         ListingResponse(e, id, m)))
                        ELSE [before EXCEPT !.ok = FALSE]
                   [] before.ok /\ m.kind = "directory_listing_response" ->
                        [before EXCEPT !.told = @ \o ListingIndication(m)]
                   [] OTHER -> before
           answered[i \in 0 .. Len(messages)] ==
             IF i = 0 THEN a ELSE F(answered[i-1], i)
<1>2. transaction_process_messages_to_user(e, id, messages, works) = answered[Len(messages)]
  BY DEF transaction_process_messages_to_user
<1>3. answered = CHOOSE g : g = [i \in 0 .. n |-> IF i = 0 THEN a ELSE F(g[i-1], i)]
  BY <1>1
<1>4. ASSUME NEW k \in 0 .. 1, NEW i \in 1 .. n, NEW x, DoneIs(e, x, k)
      PROVE  DoneIs(e, F(x, i), k + 1)
  <2>1. messages[i] \in ValidMessage
    BY <1>1, MessageTypesOf, Zenon
  <2>2. PICK m \in ValidMessage : m = messages[i]
    BY <2>1
  <2>3. /\ DoneIs(e, x, k + 1) /\ DoneIs(e, [x EXCEPT !.ok = FALSE], k + 1)
        /\ \A y : DoneIs(e, [x EXCEPT !.told = y], k + 1)
    BY <1>4, DoneStays, Zenon
  <2>4. PICK y, z, w, v : /\ y = After(x, cfdp_core_put(e, x.number + 1,
                                                     ListingResponse(e, id, m)))
                       /\ z = [x EXCEPT !.ok = FALSE]
                       /\ w = [x EXCEPT !.told = @ \o ListingIndication(m)]
                       /\ v = F(x, i)
    OBVIOUS
  <2>5. m.kind = "directory_listing_request" => DoneIs(e, y, k + 1)
    BY <1>4, <2>4, ListingResponseIsRequest, PutAfter, Zenon
  <2>6. DoneIs(e, z, k + 1)
    BY <2>3, <2>4, Zenon
  <2>7. DoneIs(e, w, k + 1)
    BY <2>3, <2>4, Zenon
  <2>8. v = CASE ~x.ok -> x
              [] x.ok /\ m.kind = "directory_listing_request" -> IF i <= works THEN y ELSE z
              [] x.ok /\ m.kind = "directory_listing_response" -> w
              [] OTHER -> x
    BY <2>2, <2>4, Zenon
  <2>9. v \in {x, z, w} \/ (m.kind = "directory_listing_request" /\ v = y)
    BY <2>8
  <2>10. DoneIs(e, v, k + 1)
    BY <2>3, <2>5, <2>6, <2>7, <2>9, Zenon
  <2> QED  BY <2>4, <2>10, Zenon
<1> HIDE DEF answered, F, a
<1>5. PICK b, d : b = F(a, 1) /\ d = F(b, 2)
  OBVIOUS
<1>6. PICK g : HasValues(g, n, a, b, d)
  BY <1>1, TwoStepsExist, Zenon
<1>7. g = [i \in 0 .. n |-> g[i]] /\ g[0] = a /\ (1 <= n => g[1] = b) /\ (2 <= n => g[2] = d)
  BY <1>6, Zenon DEF HasValues
<1>8. \A i \in 0 .. n : g[i] = IF i = 0 THEN a ELSE F(g[i-1], i)
  <2> SUFFICES ASSUME NEW i \in 0 .. n
               PROVE  g[i] = IF i = 0 THEN a ELSE F(g[i-1], i)
    OBVIOUS
  <2>1. CASE i = 0
    BY <1>7, <2>1
  <2>2. CASE i = 1
    <3>1. 1 <= n /\ i # 0 /\ i - 1 = 0
      BY <2>2
    <3> QED  BY <1>5, <1>7, <2>2, <3>1, Zenon
  <2>3. CASE i = 2
    <3>1. 1 <= n /\ 2 <= n /\ i # 0 /\ i - 1 = 1
      BY <2>3
    <3> QED  BY <1>5, <1>7, <2>3, <3>1, Zenon
  <2> QED  BY <2>1, <2>2, <2>3
<1>9. g = [i \in 0 .. n |-> IF i = 0 THEN a ELSE F(g[i-1], i)]
  BY <1>7, <1>8, Zenon
<1>10. answered = [i \in 0 .. n |-> IF i = 0 THEN a ELSE F(answered[i-1], i)]
  BY <1>3, <1>9, Zenon
<1>11. \A i \in 0 .. n : answered[i] = IF i = 0 THEN a ELSE F(answered[i-1], i)
  BY <1>10, Zenon
<1>12. DoneIs(e, answered[0], 0)
  <2>1. 0 \in 0 .. n
    OBVIOUS
  <2> QED  BY <1>11, <2>1, Zenon DEF a
<1>13. 1 <= n => DoneIs(e, answered[1], 1)
  <2> SUFFICES ASSUME 1 <= n  PROVE DoneIs(e, answered[1], 1)
    OBVIOUS
  <2>1. 1 \in 0 .. n /\ 1 # 0 /\ 1 - 1 = 0 /\ 1 \in 1 .. n /\ 0 \in 0 .. 1 /\ 0 + 1 = 1
    OBVIOUS
  <2>2. answered[1] = F(answered[1 - 1], 1)
    BY <1>11, <2>1, Zenon
  <2> QED  BY <1>4, <1>12, <2>1, <2>2, Zenon
<1>14. 2 <= n => DoneIs(e, answered[2], 2)
  <2> SUFFICES ASSUME 2 <= n  PROVE DoneIs(e, answered[2], 2)
    OBVIOUS
  <2>1. 2 \in 0 .. n /\ 2 # 0 /\ 2 - 1 = 1 /\ 2 \in 1 .. n /\ 1 \in 0 .. 1 /\ 1 + 1 = 2 /\ 1 <= n
    OBVIOUS
  <2>2. answered[2] = F(answered[2 - 1], 2)
    BY <1>11, <2>1, Zenon
  <2> QED  BY <1>4, <1>13, <2>1, <2>2, Zenon
<1>15. n = 0 \/ n = 1 \/ n = 2
  OBVIOUS
<1>16. DoneIs(e, answered[n], n)
  <2>1. CASE n = 0
    BY <1>12, <2>1
  <2>2. CASE n = 1
    BY <1>13, <2>2
  <2>3. CASE n = 2
    BY <1>14, <2>3
  <2> QED  BY <1>15, <2>1, <2>2, <2>3
<1> QED
  BY <1>1, <1>2, <1>16, Zenon

-----------------------------------------------------------------------------
(* What a PDU does to the end that receives it. *)

EndIs(e) ==
  /\ Numbered(e, transaction_sequence_number[e])
  /\ SenderIs(e, sender[e]) /\ ReceiverIs(e, receiver[e])

\* An end after a PDU.
ReceivedIs(e, x) ==
  /\ SenderIs(e, x.sender) /\ ReceiverIs(e, x.receiver)
  /\ AllTransmitted(e, x.out)
  /\ x.number \in Nat /\ transaction_sequence_number[e] <= x.number

LEMMA NothingDone ==
  ASSUME NEW e \in Ends, EndIs(e)
  PROVE  /\ DoneIs(e, Unchanged(e), 0) /\ ReceivedIs(e, Unchanged(e))
         /\ \A r : ReceiverIs(e, r) => ReceivedIs(e, [Unchanged(e) EXCEPT !.receiver = r])
<1>1. PICK x : x = Unchanged(e)
  OBVIOUS
<1>2. x = [sender |-> sender[e], receiver |-> receiver[e],
           number |-> transaction_sequence_number[e], out |-> {}, told |-> <<>>, ok |-> TRUE]
  BY <1>1, Zenon DEF Unchanged
<1>3. /\ x.sender = sender[e] /\ x.receiver = receiver[e] /\ x.out = {}
      /\ x.number = transaction_sequence_number[e]
      /\ x = [sender |-> x.sender, receiver |-> x.receiver, number |-> x.number,
              out |-> x.out, told |-> x.told, ok |-> x.ok]
  BY <1>2
<1>4. SenderIs(e, sender[e]) /\ ReceiverIs(e, receiver[e])
        /\ Numbered(e, transaction_sequence_number[e])
  BY Zenon DEF EndIs
<1>5. AllTransmitted(e, {})
  BY Zenon DEF AllTransmitted
<1>6. PICK n : n = x.number
  OBVIOUS
<1>7. n \in Nat /\ transaction_sequence_number[e] = n
  BY <1>3, <1>4, <1>6, NumberedIsNatural, Zenon
<1>8. n <= n /\ n <= n + 0
  BY <1>7
<1>9. Counted(e, x.number, 0)
  BY <1>6, <1>7, <1>8, Zenon DEF Counted
<1>10. DoneIs(e, x, 0)
  BY <1>3, <1>4, <1>5, <1>9, Zenon DEF DoneIs
<1>11. ReceivedIs(e, x)
  BY <1>3, <1>4, <1>5, <1>6, <1>7, <1>8, Zenon DEF ReceivedIs
<1>12. ASSUME NEW r, ReceiverIs(e, r), NEW y, y = [x EXCEPT !.receiver = r]
       PROVE  ReceivedIs(e, y)
  <2>1. y.sender = x.sender /\ y.receiver = r /\ y.out = x.out /\ y.number = x.number
    BY <1>2, <1>12
  <2> QED
    BY <1>3, <1>4, <1>5, <1>6, <1>7, <1>8, <1>12, <2>1, Zenon DEF ReceivedIs
<1> QED
  BY <1>1, <1>10, <1>11, <1>12, Zenon

\* A receiver that is closed, or that waits on for what it is open for.
LEMMA ReceiverMoves ==
  ASSUME NEW e, NEW r, ReceiverIs(e, r)
  PROVE  /\ ReceiverIs(e, [r EXCEPT !.state = "COMPLETED"])
         /\ r.state # "COMPLETED" => ReceiverIs(e, [r EXCEPT !.state = "WAIT_FOR_EOF"])
<1>1. /\ r \in [state : {"WAIT_FOR_MD", "WAIT_FOR_EOF", "COMPLETED"}, id : Ids,
                is_file_transfer : BOOLEAN]
      /\ r.state # "COMPLETED" => r.id.source_entity_id \notin {0, EntityId[e]}
  BY Zenon DEF ReceiverIs
<1>2. ASSUME NEW s \in {"WAIT_FOR_EOF", "COMPLETED"}, NEW q, q = [r EXCEPT !.state = s]
      PROVE  /\ q \in [state : {"WAIT_FOR_MD", "WAIT_FOR_EOF", "COMPLETED"}, id : Ids,
                       is_file_transfer : BOOLEAN]
             /\ q.state = s /\ q.id = r.id
  BY <1>1, <1>2
<1>3. ASSUME NEW q, q = [r EXCEPT !.state = "COMPLETED"]
      PROVE  ReceiverIs(e, q)
  BY <1>2, <1>3, Zenon DEF ReceiverIs
<1>4. ASSUME NEW q, q = [r EXCEPT !.state = "WAIT_FOR_EOF"], r.state # "COMPLETED"
      PROVE  ReceiverIs(e, q)
  BY <1>1, <1>2, <1>4, Zenon DEF ReceiverIs
<1> QED
  BY <1>3, <1>4, Zenon

LEMMA Delivered ==
  ASSUME NEW e \in Ends, EndIs(e), NEW r, ReceiverIs(e, r), NEW pdu,
         NEW messages \in Messages(ValidMessage), NEW works
  PROVE  ReceivedIs(e, deliver_pdu_to_receiver_machine(e, r, pdu, messages, works))
<1>1. PICK kind : kind = pdu.payload.kind
  OBVIOUS
<1>2. PICK done, y1, y2, y3, y4, y :
        /\ done = transaction_process_messages_to_user(e, r.id, messages, works)
        /\ y1 = MetadataServed(r, done)
        /\ y2 = [Unchanged(e) EXCEPT !.receiver =
                   [r EXCEPT !.state = IF r.is_file_transfer /\ works = 0
                                       THEN "COMPLETED" ELSE "WAIT_FOR_EOF"]]
        /\ y3 = [Unchanged(e) EXCEPT !.receiver = [r EXCEPT !.state = "COMPLETED"]]
        /\ y4 = [Unchanged(e) EXCEPT !.receiver = r]
        /\ y = deliver_pdu_to_receiver_machine(e, r, pdu, messages, works)
  OBVIOUS
<1>3. /\ ReceiverIs(e, [r EXCEPT !.state = "COMPLETED"])
      /\ r.state # "COMPLETED" => ReceiverIs(e, [r EXCEPT !.state = "WAIT_FOR_EOF"])
  BY ReceiverMoves, Zenon
<1>4. ASSUME r.state # "COMPLETED"
      PROVE  ReceivedIs(e, y1)
  <2>1. r.id \in Ids
    BY DEF ReceiverIs
  <2>2. DoneIs(e, done, Len(messages))
    BY <1>2, <2>1, NothingDone, MessagesAnswered, Zenon DEF EndIs
  <2>3. /\ done = [sender |-> done.sender, receiver |-> done.receiver, number |-> done.number,
                   out |-> done.out, told |-> done.told, ok |-> done.ok]
        /\ SenderIs(e, done.sender) /\ AllTransmitted(e, done.out)
        /\ Counted(e, done.number, Len(messages))
    BY <2>2, Zenon DEF DoneIs
  <2>4. PICK q : q = [r EXCEPT !.state = IF done.ok THEN "WAIT_FOR_EOF" ELSE "COMPLETED"]
    OBVIOUS
  <2>5. ReceiverIs(e, q)
    <3>1. CASE done.ok
      BY <1>3, <1>4, <2>4, <3>1, Zenon
    <3>2. CASE ~done.ok
      BY <1>3, <2>4, <3>2, Zenon
    <3> QED  BY <3>1, <3>2
  <2>6. y1 = [done EXCEPT !.receiver = q]
    BY <1>2, <2>4, Zenon DEF MetadataServed
  <2>7. y1.sender = done.sender /\ y1.receiver = q /\ y1.out = done.out
          /\ y1.number = done.number
    BY <2>3, <2>6
  <2>8. y1.number \in Nat /\ transaction_sequence_number[e] <= y1.number
    BY <2>3, <2>7, Zenon DEF Counted
  <2> QED  BY <2>3, <2>5, <2>7, <2>8, Zenon DEF ReceivedIs
<1>5. ASSUME r.state # "COMPLETED"
      PROVE  ReceivedIs(e, y2)
  <2>1. PICK q : q = [r EXCEPT !.state = IF r.is_file_transfer /\ works = 0
                                         THEN "COMPLETED" ELSE "WAIT_FOR_EOF"]
    OBVIOUS
  <2>2. ReceiverIs(e, q)
    <3>1. CASE r.is_file_transfer /\ works = 0
      BY <1>3, <2>1, <3>1, Zenon
    <3>2. CASE ~(r.is_file_transfer /\ works = 0)
      BY <1>3, <1>5, <2>1, <3>2, Zenon
    <3> QED  BY <3>1, <3>2
  <2> QED  BY <1>2, <2>1, <2>2, NothingDone, Zenon
<1>6. ReceivedIs(e, y3)
  BY <1>2, <1>3, NothingDone, Zenon
<1>7. ReceivedIs(e, y4)
  BY <1>2, NothingDone, Zenon
<1>8. y = CASE r.state = "WAIT_FOR_MD" /\ kind = "metadata_pdu" -> y1
            [] r.state = "WAIT_FOR_EOF" /\ kind = "file_data_pdu" -> y2
            [] kind = "eof_pdu" -> y3
            [] OTHER -> y4
  BY <1>1, <1>2, Zenon DEF deliver_pdu_to_receiver_machine
<1>9. \/ y = y1 /\ r.state = "WAIT_FOR_MD"
      \/ y = y2 /\ r.state = "WAIT_FOR_EOF"
      \/ y = y3
      \/ y = y4
  BY <1>8
<1>10. "WAIT_FOR_MD" # "COMPLETED" /\ "WAIT_FOR_EOF" # "COMPLETED"
  OBVIOUS
<1>11. ReceivedIs(e, y)
  <2>1. CASE y = y1 /\ r.state = "WAIT_FOR_MD"
    BY <1>4, <2>1
  <2>2. CASE y = y2 /\ r.state = "WAIT_FOR_EOF"
    BY <1>5, <2>2
  <2> QED  BY <1>6, <1>7, <1>9, <2>1, <2>2, Zenon
<1> QED
  BY <1>2, <1>11, Zenon

\* The transaction a header names.
LEMMA TransactionIdType ==
  ASSUME NEW h \in cfdpPDUHeader
  PROVE  TransactionId(h) \in Ids
<1>1. \A s \in Seq(Octet) : LastOctets(s) \in Seq(Octet)
  <2> SUFFICES ASSUME NEW s \in Seq(Octet)
               PROVE  LastOctets(s) \in Seq(Octet)
    OBVIOUS
  <2>1. PICK n \in Nat : n = Len(s)
    OBVIOUS
  <2>2. CASE n > 4
    <3>1. LastOctets(s) = SubSeq(s, n - 3, n - 3 + 4 - 1)
      BY <2>1, <2>2 DEF LastOctets, Slice
    <3>2. PICK a, b : a = n - 3 /\ b = n - 3 + 4 - 1
      OBVIOUS
    <3>3. a \in Nat /\ b = n /\ a >= 2 /\ b - a + 1 = 4
      BY <2>1, <2>2, <3>2
    <3>4. PICK g : g = SubSeq(s, a, b)
      OBVIOUS
    <3>5. g = [i \in 1 .. 4 |-> s[i + a - 1]] /\ Len(g) = 4
      BY <2>1, <2>2, <3>3, <3>4
    <3>6. \A i \in 1 .. 4 : i + a - 1 \in 1 .. n
      BY <2>1, <2>2, <3>2
    <3>7. \A i \in 1 .. n : s[i] \in Octet
      BY <2>1
    <3>8. \A i \in 1 .. 4 : s[i + a - 1] \in Octet
      BY <3>6, <3>7, Zenon
    <3>9. g \in [1 .. 4 -> Octet]
      BY <3>5, <3>8, Zenon
    <3>10. g \in Seq(Octet)
      <4>1. PICK k \in Nat : k = 4
        OBVIOUS
      <4>2. g \in [1 .. k -> Octet]
        BY <3>9, <4>1, Zenon
      <4> QED  BY <4>2
    <3> QED  BY <3>1, <3>2, <3>4, <3>10, Zenon
  <2>3. CASE ~(n > 4)
    BY <2>1, <2>3, Zenon DEF LastOctets
  <2> QED  BY <2>2, <2>3
<1>2. \A s \in Seq(Octet) : ~(Len(s) > 8) => bytes_to_ulong(s) \in Nat
  <2> SUFFICES ASSUME NEW s \in Seq(Octet), ~(Len(s) > 8)
               PROVE  bytes_to_ulong(s) \in Nat
    OBVIOUS
  <2>1. bytes_to_ulong(s) = Unsigned(s)
    BY Zenon DEF bytes_to_ulong
  <2>2. PICK f : IsUnsigned(f, s) /\ Unsigned(s) = f[Len(s)]
    BY UnsignedOctets, Zenon
  <2>3. f \in [0 .. Len(s) -> Nat]
    BY <2>2, Zenon DEF IsUnsigned
  <2>4. Len(s) \in 0 .. Len(s)
    OBVIOUS
  <2> QED  BY <2>1, <2>2, <2>3, <2>4, Zenon
<1>3. \A s \in Seq(Octet) : ~(Len(LastOctets(s)) > 8)
  <2> SUFFICES ASSUME NEW s \in Seq(Octet)
               PROVE  ~(Len(LastOctets(s)) > 8)
    OBVIOUS
  <2>1. CASE Len(s) > 4
    <3>1. LastOctets(s) = SubSeq(s, Len(s) - 3, Len(s) - 3 + 4 - 1)
      BY <2>1 DEF LastOctets, Slice
    <3>2. Len(LastOctets(s)) = 4
      BY <2>1, <3>1
    <3> QED  BY <3>2
  <2>2. CASE ~(Len(s) > 4)
    BY <2>2 DEF LastOctets
  <2> QED  BY <2>1, <2>2
<1>4. h.source_entity_id \in Seq(Octet) /\ h.transaction_sequence_number \in Seq(Octet)
  BY DEF cfdpPDUHeader
<1>5. PICK a, b : /\ a = bytes_to_ulong(LastOctets(h.source_entity_id))
                  /\ b = bytes_to_ulong(LastOctets(h.transaction_sequence_number))
  OBVIOUS
<1>6. a \in Nat /\ b \in Nat
  BY <1>1, <1>2, <1>3, <1>4, <1>5, Zenon
<1>7. TransactionId(h) = [source_entity_id |-> a, seq_number |-> b]
  BY <1>5, Zenon DEF TransactionId
<1> QED
  BY <1>6, <1>7 DEF Ids

\* A PDU that opens a transaction at an end does so in the name of another.
ForMe(e, pdu) ==
  /\ pdu \in cfdpCfdpPDU
  /\ Opens(pdu) => TransactionId(pdu.pdu_header).source_entity_id \notin {0, EntityId[e]}

LEMMA NewReceiverIs ==
  ASSUME NEW e, NEW pdu, ForMe(e, pdu), Opens(pdu)
  PROVE  ReceiverIs(e, NewReceiver(pdu))
<1>1. PICK id, r : id = TransactionId(pdu.pdu_header) /\ r = NewReceiver(pdu)
  OBVIOUS
<1>2. id \in Ids /\ id.source_entity_id \notin {0, EntityId[e]}
  BY <1>1, PduTypes, TransactionIdType, Zenon DEF ForMe
<1>3. PICK b : b = /\ pdu.payload.kind = "metadata_pdu"
                   /\ pdu.payload.source_file_name # <<>>
                   /\ pdu.payload.destination_file_name # <<>>
  OBVIOUS
<1>4. b \in BOOLEAN
  BY <1>3
<1>5. r = [state |-> "WAIT_FOR_MD", id |-> id, is_file_transfer |-> b]
  BY <1>1, <1>3, Zenon DEF NewReceiver
<1>6. r \in [state : {"WAIT_FOR_MD", "WAIT_FOR_EOF", "COMPLETED"}, id : Ids,
             is_file_transfer : BOOLEAN] /\ r.id = id
  BY <1>2, <1>4, <1>5
<1> QED
  BY <1>1, <1>2, <1>6, Zenon DEF ReceiverIs

LEMMA Received ==
  ASSUME NEW e \in Ends, EndIs(e), NEW pdu, ForMe(e, pdu),
         NEW messages, messages = Unread \/ messages \in Messages(ValidMessage), NEW works
  PROVE  ReceivedIs(e, cfdp_core_received_pdu(e, pdu, messages, works))
<1>1. PICK tlvs : tlvs = IF messages = Unread THEN <<>> ELSE messages
  OBVIOUS
<1>2. tlvs \in Messages(ValidMessage)
  BY <1>1, NoMessages, Zenon
<1>3. PICK x1, x2, x3, x :
        /\ x1 = deliver_pdu_to_receiver_machine(e, receiver[e], pdu, <<>>, works)
        /\ x2 = handle_pdu_to_new_receiver_machine(e, pdu, messages, works)
        /\ x3 = Unchanged(e)
        /\ x = cfdp_core_received_pdu(e, pdu, messages, works)
  OBVIOUS
<1>4. ReceivedIs(e, x1)
  <2>1. ReceiverIs(e, receiver[e])
    BY Zenon DEF EndIs
  <2> QED  BY <1>3, <2>1, NoMessages, Delivered, Zenon
<1>5. ReceivedIs(e, x3)
  BY <1>3, NothingDone, Zenon
<1>6. ReceivedIs(e, x2)
  <2>1. CASE Opens(pdu)
    <3>1. x2 = deliver_pdu_to_receiver_machine(e, NewReceiver(pdu), pdu, tlvs, works)
      BY <1>1, <1>3, <2>1, Zenon DEF handle_pdu_to_new_receiver_machine
    <3> QED  BY <1>2, <2>1, <3>1, NewReceiverIs, Delivered, Zenon
  <2>2. CASE ~Opens(pdu)
    BY <1>3, <1>5, <2>2, Zenon DEF handle_pdu_to_new_receiver_machine
  <2> QED  BY <2>1, <2>2
<1>7. x \in {x1, x2, x3}
  <2>1. x = CASE Route(e, pdu) = "receiver" -> x1
              [] Route(e, pdu) = "new receiver" -> x2
              [] OTHER -> x3
    BY <1>3, Zenon DEF cfdp_core_received_pdu
  <2> QED  BY <2>1
<1> QED
  BY <1>3, <1>4, <1>5, <1>6, <1>7, Zenon

\* An end as it was.
Stays(e, x) ==
  /\ x.sender = sender[e] /\ x.receiver = receiver[e]
  /\ x.number = transaction_sequence_number[e] /\ x.out = {} /\ x.told = <<>>

LEMMA Class2Stays ==
  ASSUME NEW e, NEW pdu, IsClass2(pdu), NEW messages, NEW works
  PROVE  Stays(e, cfdp_core_received_pdu(e, pdu, messages, works))
<1>1. PICK x1, x2, x3, x :
        /\ x1 = deliver_pdu_to_receiver_machine(e, receiver[e], pdu, <<>>, works)
        /\ x2 = handle_pdu_to_new_receiver_machine(e, pdu, messages, works)
        /\ x3 = Unchanged(e)
        /\ x = cfdp_core_received_pdu(e, pdu, messages, works)
  OBVIOUS
<1>2. x = CASE Route(e, pdu) = "receiver" -> x1
            [] Route(e, pdu) = "new receiver" -> x2
            [] OTHER -> x3
  BY <1>1, Zenon DEF cfdp_core_received_pdu
<1>3. Stays(e, x3)
  BY <1>1 DEF Stays, Unchanged
<1>4. CASE pdu.pdu_header.transmission_mode = "acknowledged"
  <2>1. Route(e, pdu) = "none"
    BY <1>4 DEF Route, AcceptsMode
  <2>2. x = x3
    BY <1>2, <2>1
  <2> QED  BY <1>1, <1>3, <2>2, Zenon
<1>5. CASE pdu.payload.kind \in {"finished_pdu", "ack_pdu"}
  <2>1. x1 = [Unchanged(e) EXCEPT !.receiver = receiver[e]]
    BY <1>1, <1>5 DEF deliver_pdu_to_receiver_machine
  <2>2. Stays(e, x1)
    BY <2>1 DEF Stays, Unchanged
  <2>3. x2 = Unchanged(e)
    BY <1>1, <1>5 DEF handle_pdu_to_new_receiver_machine, Opens
  <2>4. x = x1 \/ x = x2 \/ x = x3
    BY <1>2
  <2> QED  BY <1>1, <1>3, <2>2, <2>3, <2>4, Zenon
<1> QED
  BY <1>4, <1>5 DEF IsClass2

-----------------------------------------------------------------------------
(* What an end hears. *)

LEMMA Others ==
  /\ \A e \in Ends : /\ Other(e) \in Ends /\ Other(e) # e /\ Other(Other(e)) = e
  /\ \A e \in Ends : EntityId[e] # 0
  /\ \A e, o \in Ends : EntityId[e] = EntityId[o] => e = o
<1>1. PICK a, b \in Ends : a # b /\ Ends = {a, b}
  BY EndsAssumption, Zenon
<1>2. \A e \in Ends : Other(e) \in Ends /\ Other(e) # e
  <2> SUFFICES ASSUME NEW e \in Ends
               PROVE  Other(e) \in Ends /\ Other(e) # e
    OBVIOUS
  <2>1. \E o \in Ends : o # e
    BY <1>1
  <2> QED  BY <2>1 DEF Other
<1>3. \A e \in Ends : Other(Other(e)) = e
  BY <1>1, <1>2
<1>4. EntityId \in [Ends -> uint32_t \ {0}]
  BY EndsAssumption
<1>5. \A e \in Ends : EntityId[e] # 0
  BY <1>4
<1>6. \A e, o \in Ends : EntityId[e] = EntityId[o] => e = o
  BY EndsAssumption, Zenon
<1> QED
  BY <1>2, <1>3, <1>5, <1>6

\* What an end reads of a datagram is what was sent.
Reads(d) ==
  /\ d.to \in Ends /\ d.messages \in Messages(ValidMessage)
  /\ ReadPdu(d.octets) = {d.pdu}
  /\ d.pdu.payload.kind = "metadata_pdu" =>
       decode_tlv_from_metadata_pdu(d.pdu, d.octets) = d.messages
  /\ HasAddress(d.pdu.pdu_header) /\ ForMe(d.to, d.pdu)

LEMMA ArrivedReads ==
  ASSUME NEW e, NEW d, NEW pdu, NEW tlvs, MayTransmit(pdu, tlvs), Arrived(d, e, pdu, tlvs),
         Other(e) \in Ends, ForMe(Other(e), pdu)
  PROVE  Reads(d)
<1>1. /\ d.to = Other(e) /\ d.pdu = pdu /\ d.messages = tlvs
      /\ ReadPdu(d.octets) = {pdu} /\ HasAddress(pdu.pdu_header)
      /\ pdu.payload.kind = "metadata_pdu" =>
           decode_tlv_from_metadata_pdu(pdu, d.octets) = tlvs
  BY Zenon DEF Arrived
<1>2. tlvs \in Messages(ValidMessage)
  BY Zenon DEF MayTransmit
<1> QED
  BY <1>1, <1>2, Zenon DEF Reads

LEMMA TransmittedReads ==
  ASSUME NEW e \in Ends, NEW d, Transmitted(e, d)
  PROVE  Reads(d)
<1>1. PICK pdu, tlvs : pdu = d.pdu /\ tlvs = d.messages
  OBVIOUS
<1>2. /\ MayTransmit(pdu, tlvs) /\ d \in Transmit(e, pdu, tlvs)
      /\ TransactionId(pdu.pdu_header).source_entity_id = EntityId[e]
  BY <1>1, Zenon DEF Transmitted
<1>3. Arrived(d, e, pdu, tlvs)
  BY <1>2, DatagramArrives, Zenon
<1>4. Other(e) \in Ends /\ Other(e) # e
  BY Others
<1>5. EntityId[e] # 0 /\ EntityId[e] # EntityId[Other(e)]
  BY <1>4, Others, Zenon
<1>6. TransactionId(pdu.pdu_header).source_entity_id \notin {0, EntityId[Other(e)]}
  BY <1>2, <1>5
<1>7. ForMe(Other(e), pdu)
  BY <1>2, <1>6, Zenon DEF ForMe, MayTransmit
<1> QED
  BY <1>2, <1>3, <1>4, <1>7, ArrivedReads, Zenon

LEMMA ForeignReads ==
  ASSUME NEW f \in Foreign, NEW d \in Transmit(Other(f.end), f.pdu, f.messages)
  PROVE  Reads(d)
<1>1. PICK o, e, pdu, tlvs : o = f.end /\ e = Other(o) /\ pdu = f.pdu /\ tlvs = f.messages
  OBVIOUS
<1>2. o \in Ends /\ pdu \in cfdpCfdpPDU /\ tlvs \in Messages(ValidMessage)
  <2>1. f \in [end : Ends, pdu : cfdpCfdpPDU, messages : Messages(ValidMessage)]
    BY ForeignAssumption, Zenon
  <2> QED  BY <1>1, <2>1
<1>3. Opens(pdu) => TransactionId(pdu.pdu_header).source_entity_id \notin {0, EntityId[o]}
  BY <1>1, ForeignAssumption, Zenon DEF Opens
<1>4. MayTransmit(pdu, tlvs) /\ ForMe(o, pdu)
  BY <1>2, <1>3, Zenon DEF MayTransmit, ForMe
<1>5. Other(e) = o
  BY <1>1, <1>2, Others, Zenon
<1>6. Arrived(d, e, pdu, tlvs)
  BY <1>1, <1>4, DatagramArrives, Zenon
<1> QED
  BY <1>2, <1>4, <1>5, <1>6, ArrivedReads, Zenon

LEMMA UnknownIsSilent ==
  ASSUME NEW d \in Unknown
  PROVE  /\ d.to \in Ends /\ ReadPdu(d.octets) = {} /\ d.messages = Unread
         /\ d.pdu \in [pdu_header : cfdpPDUHeader, payload : {Undecodable}]
         /\ HasAddress(d.pdu.pdu_header)
<1>1. d \in [to : Ends, messages : {Unread}, octets : Seq(Octet),
             pdu : [pdu_header : cfdpPDUHeader, payload : {Undecodable}]]
  BY UnknownAssumption, Zenon
<1>2. ReadPdu(d.octets) = {} /\ HasAddress(d.pdu.pdu_header)
  BY UnknownAssumption, Zenon DEF HasAddress
<1>3. d.to \in Ends /\ d.messages = Unread
        /\ d.pdu \in [pdu_header : cfdpPDUHeader, payload : {Undecodable}]
  BY <1>1
<1> QED
  BY <1>2, <1>3

-----------------------------------------------------------------------------
(* The invariant holds initially and through every step. *)

LEMMA SenderMoves ==
  ASSUME NEW e \in Ends, NEW s, SenderIs(e, s)
  PROVE  /\ SenderIs(e, [s EXCEPT !.state = "COMPLETED"])
         /\ s.state = "SEND_FILE" =>
              SenderIs(e, [s EXCEPT !.transaction.file_position =
                             @ + SegmentLength(s.transaction)])
<1>1. PICK t : t = s.transaction
  OBVIOUS
<1>2. /\ s \in [state : {"SEND_FILE", "COMPLETED"}, id : Ids,
                transaction : Transactions(e) \cup {NoTransaction}]
      /\ s.id = IdOf(t) /\ t.file_position <= Len(t.file)
      /\ s.state = "SEND_FILE" => t \in Transactions(e)
  BY <1>1, Zenon DEF SenderIs
<1>3. ASSUME NEW q, q = [s EXCEPT !.state = "COMPLETED"]
      PROVE  SenderIs(e, q)
  <2>1. /\ q \in [state : {"SEND_FILE", "COMPLETED"}, id : Ids,
                  transaction : Transactions(e) \cup {NoTransaction}]
        /\ q.id = s.id /\ q.transaction = t /\ q.state # "SEND_FILE"
    BY <1>1, <1>2, <1>3
  <2> QED  BY <1>2, <2>1, Zenon DEF SenderIs
<1>4. ASSUME s.state = "SEND_FILE", NEW u,
             u = [t EXCEPT !.file_position = @ + SegmentLength(t)],
             NEW q, q = [s EXCEPT !.transaction = u]
      PROVE  SenderIs(e, q)
  <2>1. t \in Transactions(e)
    BY <1>2, <1>4
  <2>2. PICK n : n = t.file_position + SegmentLength(t)
    OBVIOUS
  <2>3. n <= Len(t.file) /\ n \in Nat
    BY <1>2, <2>1, <2>2, Segment, Zenon
  <2>4. u = [t EXCEPT !.file_position = n]
    BY <1>4, <2>2
  <2>5. /\ u \in Transactions(e) /\ u.file_position = n /\ u.file = t.file
        /\ u.source_entity_id = t.source_entity_id /\ u.seq_number = t.seq_number
    BY <2>1, <2>3, <2>4 DEF Transactions
  <2>6. IdOf(u) = IdOf(t)
    BY <2>5, Zenon DEF IdOf
  <2>7. /\ q \in [state : {"SEND_FILE", "COMPLETED"}, id : Ids,
                  transaction : Transactions(e) \cup {NoTransaction}]
        /\ q.id = s.id /\ q.transaction = u
    BY <1>2, <1>4, <2>5
  <2>8. q.id = IdOf(q.transaction)
    BY <1>2, <2>6, <2>7, Zenon
  <2>9. q.transaction.file_position <= Len(q.transaction.file)
    BY <2>3, <2>5, <2>7, Zenon
  <2> QED  BY <2>5, <2>7, <2>8, <2>9, Zenon DEF SenderIs
<1>5. ASSUME s.state = "SEND_FILE"
      PROVE  SenderIs(e, [s EXCEPT !.transaction.file_position =
                            @ + SegmentLength(s.transaction)])
  <2>1. PICK u, q : /\ u = [t EXCEPT !.file_position = @ + SegmentLength(t)]
                    /\ q = [s EXCEPT !.transaction = u]
    OBVIOUS
  <2>2. SenderIs(e, q)
    BY <1>4, <1>5, <2>1, Zenon
  <2>3. q = [s EXCEPT !.transaction.file_position = @ + SegmentLength(s.transaction)]
    BY <1>1, <1>2, <2>1
  <2> QED  BY <2>2, <2>3, Zenon
<1> QED
  BY <1>3, <1>5, Zenon

\* A step of an end e that leaves it with s, r and n, and sends out.
Changes(e, s, r, n, out) ==
  /\ transaction_sequence_number' = [transaction_sequence_number EXCEPT ![e] = n]
  /\ sender' = [sender EXCEPT ![e] = s] /\ receiver' = [receiver EXCEPT ![e] = r]
  /\ wire' \subseteq wire \cup out
  /\ heard' = Silence \/ heard'.at \in Ends

LEMMA InvIs ==
  ASSUME IInv
  PROVE  /\ transaction_sequence_number = [e \in Ends |-> transaction_sequence_number[e]]
         /\ sender = [e \in Ends |-> sender[e]] /\ receiver = [e \in Ends |-> receiver[e]]
         /\ \A e \in Ends : EndIs(e)
         /\ \A d \in wire : \E e \in Ends : Transmitted(e, d)
BY Zenon DEF IInv, EndIs

LEMMA Preserved ==
  ASSUME IInv, WithinBounds, NEW e \in Ends, NEW s, NEW r, NEW n, NEW out,
         Changes(e, s, r, n, out), SenderIs(e, s), ReceiverIs(e, r),
         n \in Nat, transaction_sequence_number[e] <= n, AllTransmitted(e, out)
  PROVE  IInv'
<1>1. /\ transaction_sequence_number' = [transaction_sequence_number EXCEPT ![e] = n]
      /\ sender' = [sender EXCEPT ![e] = s] /\ receiver' = [receiver EXCEPT ![e] = r]
      /\ wire' \subseteq wire \cup out
      /\ heard' = Silence \/ heard'.at \in Ends
  BY Zenon DEF Changes
<1>2. /\ transaction_sequence_number = [o \in Ends |-> transaction_sequence_number[o]]
      /\ sender = [o \in Ends |-> sender[o]] /\ receiver = [o \in Ends |-> receiver[o]]
      /\ \A o \in Ends : EndIs(o)
      /\ \A d \in wire : \E o \in Ends : Transmitted(o, d)
  BY InvIs, Zenon
<1>3. \A o \in Ends :
        /\ transaction_sequence_number'[o] = IF o = e THEN n ELSE transaction_sequence_number[o]
        /\ sender'[o] = IF o = e THEN s ELSE sender[o]
        /\ receiver'[o] = IF o = e THEN r ELSE receiver[o]
  BY <1>1, <1>2
<1>4. /\ transaction_sequence_number' = [o \in Ends |-> transaction_sequence_number'[o]]
      /\ sender' = [o \in Ends |-> sender'[o]] /\ receiver' = [o \in Ends |-> receiver'[o]]
  BY <1>1, <1>2
<1>5. ASSUME NEW o \in Ends
      PROVE  SenderIs(o, sender'[o]) /\ ReceiverIs(o, receiver'[o])
  <2>1. SenderIs(o, sender[o]) /\ ReceiverIs(o, receiver[o])
    BY <1>2, <1>5, Zenon DEF EndIs
  <2> QED  BY <1>3, <2>1, Zenon
<1>6. ASSUME NEW o \in Ends
      PROVE  Numbered(o, transaction_sequence_number'[o])
  <2>1. PICK x : x = transaction_sequence_number'[o]
    OBVIOUS
  <2>2. x <= FirstNumber + MaxPuts[o]
    BY <2>1, Zenon DEF WithinBounds
  <2>3. Numbered(o, transaction_sequence_number[o])
    BY <1>2, Zenon DEF EndIs
  <2>4. PICK y : y = transaction_sequence_number[o]
    OBVIOUS
  <2>5. y \in Nat /\ FirstNumber <= y /\ FirstNumber \in Nat /\ MaxPuts[o] \in Nat
    BY <2>3, <2>4, NumberedIsNatural, Zenon
  <2>6. x \in Nat /\ FirstNumber <= x
    <3>1. CASE o = e
      <4>1. x = n /\ y <= n
        BY <1>3, <2>1, <2>4, <3>1, Zenon
      <4> QED  BY <2>5, <4>1
    <3>2. CASE o # e
      <4>1. x = y
        BY <1>3, <2>1, <2>4, <3>2, Zenon
      <4> QED  BY <2>5, <4>1
    <3> QED  BY <3>1, <3>2
  <2>7. x \in FirstNumber .. FirstNumber + MaxPuts[o]
    BY <2>2, <2>5, <2>6
  <2> QED  BY <2>1, <2>7, Zenon DEF Numbered
<1>7. \A d \in wire' : \E o \in Ends : Transmitted(o, d)
  BY <1>1, <1>2, Zenon DEF AllTransmitted
<1> QED
  BY <1>1, <1>4, <1>5, <1>6, <1>7, Zenon DEF IInv, SenderIs, ReceiverIs, Numbered, Transmitted

LEMMA InvInitially ==
  ASSUME Init
  PROVE  IInv
<1>1. /\ transaction_sequence_number = [e \in Ends |-> FirstNumber]
      /\ sender = [e \in Ends |-> [state |-> "COMPLETED", id |-> NoId,
                                   transaction |-> NoTransaction]]
      /\ receiver = [e \in Ends |-> [state |-> "COMPLETED", id |-> NoId,
                                     is_file_transfer |-> FALSE]]
      /\ wire = {} /\ heard = Silence
  BY DEF Init
<1>2. /\ transaction_sequence_number = [e \in Ends |-> transaction_sequence_number[e]]
      /\ sender = [e \in Ends |-> sender[e]] /\ receiver = [e \in Ends |-> receiver[e]]
  BY <1>1
<1>3. NoId \in Ids
  BY DEF NoId, Ids
<1>4. ASSUME NEW e \in Ends
      PROVE  SenderIs(e, sender[e])
  <2>1. PICK s : s = [state |-> "COMPLETED", id |-> NoId, transaction |-> NoTransaction]
    OBVIOUS
  <2>2. sender[e] = s
    BY <1>1, <2>1
  <2>3. s \in [state : {"SEND_FILE", "COMPLETED"}, id : Ids,
               transaction : Transactions(e) \cup {NoTransaction}]
    BY <1>3, <2>1
  <2>4. s.id = IdOf(s.transaction)
    BY <2>1 DEF NoId, NoTransaction, IdOf
  <2>5. s.transaction.file_position <= Len(s.transaction.file)
    BY <2>1 DEF NoTransaction
  <2>6. s.state # "SEND_FILE"
    BY <2>1
  <2> QED  BY <2>2, <2>3, <2>4, <2>5, <2>6, Zenon DEF SenderIs
<1>5. ASSUME NEW e \in Ends
      PROVE  ReceiverIs(e, receiver[e])
  <2>1. PICK r : r = [state |-> "COMPLETED", id |-> NoId, is_file_transfer |-> FALSE]
    OBVIOUS
  <2>2. receiver[e] = r
    BY <1>1, <2>1
  <2>3. /\ r \in [state : {"WAIT_FOR_MD", "WAIT_FOR_EOF", "COMPLETED"}, id : Ids,
                  is_file_transfer : BOOLEAN]
        /\ r.state = "COMPLETED"
    BY <1>3, <2>1
  <2> QED  BY <2>2, <2>3, Zenon DEF ReceiverIs
<1>6. ASSUME NEW e \in Ends
      PROVE  Numbered(e, transaction_sequence_number[e])
  <2>1. transaction_sequence_number[e] = FirstNumber
    BY <1>1
  <2>2. FirstNumber \in Nat /\ MaxPuts[e] \in Nat
    BY BoundsAssumption
  <2>3. FirstNumber \in FirstNumber .. FirstNumber + MaxPuts[e]
    BY <2>2
  <2> QED  BY <2>1, <2>3, Zenon DEF Numbered
<1> QED
  BY <1>1, <1>2, <1>4, <1>5, <1>6, Zenon DEF IInv

LEMMA SameNumber ==
  ASSUME NEW e \in Ends, EndIs(e)
  PROVE  /\ transaction_sequence_number[e] \in Nat
         /\ transaction_sequence_number[e] <= transaction_sequence_number[e]
         /\ SenderIs(e, sender[e]) /\ ReceiverIs(e, receiver[e])
<1>1. \A n \in Nat : n <= n
  OBVIOUS
<1> QED
  BY <1>1, NumberedIsNatural, Zenon DEF EndIs

\* A put of an end.
LEMMA PutNow ==
  ASSUME NEW e \in Ends, EndIs(e), NEW r \in PutRequest, NEW n,
         n = transaction_sequence_number[e] + 1,
         NEW put, put = cfdp_core_put(e, n, r)
  PROVE  /\ PutIs(e, put, n) /\ n \in Nat /\ transaction_sequence_number[e] <= n
<1>1. DoneIs(e, Unchanged(e), 0)
  BY NothingDone, Zenon
<1>2. Counted(e, transaction_sequence_number[e], 0)
  <2>1. Unchanged(e).number = transaction_sequence_number[e]
    BY DEF Unchanged
  <2> QED  BY <1>1, <2>1, Zenon DEF DoneIs
<1>3. n \in uint32_t \ {0} /\ Counted(e, n, 0 + 1)
  <2>1. 0 \in 0 .. 1
    OBVIOUS
  <2> QED  BY <1>2, <2>1, NextNumber, Zenon DEF EndIs
<1> QED
  BY <1>3, PutResult, Zenon DEF Counted

LEMMA PutKeeps ==
  ASSUME IInv, WithinBounds, NEW r \in Requests, Put(r)
  PROVE  IInv'
<1>1. PICK e : e = r.end
  OBVIOUS
<1>2. r \in PutRequest
  BY RequestsAssumption
<1>3. e \in Ends
  BY <1>1, <1>2, RequestTypes, Zenon
<1>4. EndIs(e)
  BY <1>3, InvIs, Zenon
<1>5. PICK n, put : /\ n = transaction_sequence_number[e] + 1
                    /\ put = cfdp_core_put(e, n, r)
  OBVIOUS
<1>6. PutIs(e, put, n) /\ n \in Nat /\ transaction_sequence_number[e] <= n
  BY <1>2, <1>3, <1>4, <1>5, PutNow, Zenon
<1>7. /\ transaction_sequence_number' = [transaction_sequence_number EXCEPT ![e] = put.number]
      /\ sender' = [sender EXCEPT ![e] = put.sender]
      /\ wire' = wire \cup put.out
      /\ heard' = IF put.out # {} THEN Silence
                  ELSE [at |-> e, pdu |-> MetadataPdu(put.sender.transaction),
                        messages |-> Unread]
      /\ receiver' = receiver
  BY <1>1, <1>5 DEF Put
<1>8. put.number = n /\ SenderIs(e, put.sender) /\ AllTransmitted(e, put.out)
  BY <1>6, Zenon DEF PutIs
<1>9. heard' = Silence \/ heard'.at \in Ends
  <2>1. CASE put.out # {}
    BY <1>7, <2>1, Zenon
  <2>2. CASE put.out = {}
    <3>1. heard' = [at |-> e, pdu |-> MetadataPdu(put.sender.transaction), messages |-> Unread]
      BY <1>7, <2>2, Zenon
    <3>2. heard'.at = e
      BY <3>1
    <3> QED  BY <1>3, <3>2, Zenon
  <2> QED  BY <2>1, <2>2
<1>10. PICK s, q, out : s = put.sender /\ q = receiver[e] /\ out = put.out
  OBVIOUS
<1>11. receiver' = [receiver EXCEPT ![e] = q]
  <2>1. receiver = [o \in Ends |-> receiver[o]]
    BY InvIs, Zenon
  <2> QED  BY <1>3, <1>7, <1>10, <2>1
<1>12. Changes(e, s, q, n, out)
  <2>1. wire' \subseteq wire \cup out
    BY <1>7, <1>10, Zenon
  <2> QED  BY <1>7, <1>8, <1>9, <1>10, <1>11, <2>1, Zenon DEF Changes
<1>13. SenderIs(e, s) /\ ReceiverIs(e, q) /\ AllTransmitted(e, out)
  BY <1>4, <1>8, <1>10, Zenon DEF EndIs
<1> QED
  BY <1>3, <1>6, <1>12, <1>13, Preserved, Zenon

LEMMA ReadyKeeps ==
  ASSUME IInv, WithinBounds, NEW e \in Ends, TransportIsReady(e)
  PROVE  IInv'
<1>1. PICK s, t, n, q : /\ s = sender[e] /\ t = s.transaction
                        /\ n = transaction_sequence_number[e] /\ q = receiver[e]
  OBVIOUS
<1>2. EndIs(e)
  BY InvIs, Zenon
<1>3. n \in Nat /\ n <= n /\ SenderIs(e, s) /\ ReceiverIs(e, q)
  BY <1>1, <1>2, SameNumber, Zenon
<1>4. PICK done, out :
        /\ done = (t.file_position >= Len(t.file))
        /\ out = IF done THEN SendEof(e, t, "no_error") ELSE SendFileData(e, t)
  OBVIOUS
<1>5. /\ s.state = "SEND_FILE"
      /\ wire' = wire \cup out
      /\ sender' = IF done \/ out = {} THEN [sender EXCEPT ![e].state = "COMPLETED"]
                   ELSE [sender EXCEPT ![e].transaction.file_position = @ + SegmentLength(t)]
      /\ heard' = Silence
      /\ transaction_sequence_number' = transaction_sequence_number /\ receiver' = receiver
  BY <1>1, <1>4 DEF TransportIsReady
<1>6. t \in Transactions(e) /\ t.file_position <= Len(t.file)
  BY <1>1, <1>3, <1>5, Zenon DEF SenderIs
<1>7. AllTransmitted(e, out)
  <2>1. AllTransmitted(e, SendEof(e, t, "no_error")) /\ AllTransmitted(e, SendFileData(e, t))
    BY <1>6, EofCodes, EofSent, FileDataSent, Zenon
  <2> QED  BY <1>4, <2>1, Zenon
<1>8. PICK y : y = IF done \/ out = {} THEN [s EXCEPT !.state = "COMPLETED"]
                   ELSE [s EXCEPT !.transaction.file_position = @ + SegmentLength(s.transaction)]
  OBVIOUS
<1>9. SenderIs(e, y)
  BY <1>3, <1>5, <1>8, SenderMoves, Zenon
<1>10. /\ sender' = [sender EXCEPT ![e] = y] /\ receiver' = [receiver EXCEPT ![e] = q]
       /\ transaction_sequence_number' = [transaction_sequence_number EXCEPT ![e] = n]
  <2>1. /\ transaction_sequence_number = [o \in Ends |-> transaction_sequence_number[o]]
        /\ sender = [o \in Ends |-> sender[o]] /\ receiver = [o \in Ends |-> receiver[o]]
    BY InvIs, Zenon
  <2>2. sender' = [sender EXCEPT ![e] = y]
    BY <1>1, <1>5, <1>8, <2>1
  <2> QED  BY <1>1, <1>5, <2>1, <2>2
<1>11. Changes(e, y, q, n, out)
  <2>1. wire' \subseteq wire \cup out
    BY <1>5, Zenon
  <2> QED  BY <1>5, <1>10, <2>1, Zenon DEF Changes
<1> QED
  BY <1>1, <1>3, <1>7, <1>9, <1>11, Preserved, Zenon

LEMMA CancelKeeps ==
  ASSUME IInv, WithinBounds, NEW e \in Ends, NEW id, cfdp_core_cancel(e, id)
  PROVE  IInv'
<1>1. PICK s, n, q, route, sends :
        /\ s = sender[e] /\ n = transaction_sequence_number[e] /\ q = receiver[e]
        /\ route = cfdp_core_issue_request(e, id)
        /\ sends = (route = "sender" /\ s.state = "SEND_FILE")
  OBVIOUS
<1>2. EndIs(e)
  BY InvIs, Zenon
<1>3. n \in Nat /\ n <= n /\ SenderIs(e, s) /\ ReceiverIs(e, q)
  BY <1>1, <1>2, SameNumber, Zenon
<1>4. PICK out : out = IF sends THEN SendEof(e, s.transaction, "cancel_request_received") ELSE {}
  OBVIOUS
<1>5. /\ sender' = IF sends THEN [sender EXCEPT ![e].state = "COMPLETED"] ELSE sender
      /\ receiver' = IF route = "receiver" THEN [receiver EXCEPT ![e].state = "COMPLETED"]
                     ELSE receiver
      /\ wire' = wire \cup out
      /\ heard' = Silence
      /\ transaction_sequence_number' = transaction_sequence_number
  BY <1>1, <1>4, Zenon DEF cfdp_core_cancel
<1>6. AllTransmitted(e, out)
  <2>1. CASE sends
    <3>1. s.transaction \in Transactions(e)
      BY <1>1, <1>3, <2>1, Zenon DEF SenderIs
    <3> QED  BY <1>4, <2>1, <3>1, EofCodes, EofSent, Zenon
  <2>2. CASE ~sends
    BY <1>4, <2>2, Zenon DEF AllTransmitted
  <2> QED  BY <2>1, <2>2
<1>7. PICK y, z : /\ y = IF sends THEN [s EXCEPT !.state = "COMPLETED"] ELSE s
                  /\ z = IF route = "receiver" THEN [q EXCEPT !.state = "COMPLETED"] ELSE q
  OBVIOUS
<1>8. SenderIs(e, y)
  BY <1>3, <1>7, SenderMoves, Zenon
<1>9. ReceiverIs(e, z)
  BY <1>3, <1>7, ReceiverMoves, Zenon
<1>10. /\ sender' = [sender EXCEPT ![e] = y] /\ receiver' = [receiver EXCEPT ![e] = z]
       /\ transaction_sequence_number' = [transaction_sequence_number EXCEPT ![e] = n]
  <2>1. /\ transaction_sequence_number = [o \in Ends |-> transaction_sequence_number[o]]
        /\ sender = [o \in Ends |-> sender[o]] /\ receiver = [o \in Ends |-> receiver[o]]
    BY InvIs, Zenon
  <2>2. sender' = [sender EXCEPT ![e] = y]
    BY <1>1, <1>5, <1>7, <2>1
  <2>3. receiver' = [receiver EXCEPT ![e] = z]
    BY <1>1, <1>5, <1>7, <2>1
  <2> QED  BY <1>1, <1>5, <2>1, <2>2, <2>3
<1>11. Changes(e, y, z, n, out)
  <2>1. wire' \subseteq wire \cup out
    BY <1>5, Zenon
  <2> QED  BY <1>5, <1>10, <2>1, Zenon DEF Changes
<1> QED
  BY <1>1, <1>3, <1>6, <1>8, <1>9, <1>11, Preserved, Zenon

\* What may arrive is read as it was sent, or not at all.
LEMMA MayArrive ==
  ASSUME IInv, NEW d \in wire \cup ForeignDatagrams
  PROVE  Reads(d) \/ d \in Unknown
<1>1. CASE d \in wire
  BY <1>1, InvIs, TransmittedReads, Zenon
<1>2. CASE d \in ForeignDatagrams
  <2>1. \/ \E f \in Foreign : d \in Transmit(Other(f.end), f.pdu, f.messages)
        \/ d \in Unknown
    <3>1. \/ d \in UNION {Transmit(Other(f.end), f.pdu, f.messages) : f \in Foreign}
          \/ d \in Unknown
      BY <1>2, Zenon DEF ForeignDatagrams
    <3>2. ASSUME NEW S \in {Transmit(Other(f.end), f.pdu, f.messages) : f \in Foreign}, d \in S
          PROVE  \E f \in Foreign : d \in Transmit(Other(f.end), f.pdu, f.messages)
      BY <3>2, Zenon
    <3> QED  BY <3>1, <3>2, Zenon
  <2> QED  BY <2>1, ForeignReads, Zenon
<1> QED
  BY <1>1, <1>2

\* The messages that are read.
LEMMA ReadMessages ==
  ASSUME NEW d, Reads(d)
  PROVE  MessagesRead(d.to, d.pdu, d.octets) \in {d.messages, Unread}
<1>1. d.pdu.payload.kind = "metadata_pdu" =>
        decode_tlv_from_metadata_pdu(d.pdu, d.octets) = d.messages
  BY Zenon DEF Reads
<1>2. CASE /\ Route(d.to, d.pdu) = "new receiver" /\ Opens(d.pdu)
           /\ d.pdu.payload.kind = "metadata_pdu"
  <2>1. MessagesRead(d.to, d.pdu, d.octets) = d.messages
    BY <1>1, <1>2, Zenon DEF MessagesRead
  <2> QED  BY <2>1
<1>3. CASE ~(/\ Route(d.to, d.pdu) = "new receiver" /\ Opens(d.pdu)
             /\ d.pdu.payload.kind = "metadata_pdu")
  <2>1. MessagesRead(d.to, d.pdu, d.octets) = Unread
    BY <1>3, Zenon DEF MessagesRead
  <2> QED  BY <2>1
<1> QED
  BY <1>2, <1>3

\* The two outcomes of a datagram.
LEMMA ReceiveIs ==
  ASSUME IInv, NEW d \in wire \cup ForeignDatagrams, Receive(d)
  PROVE  \/ /\ Reads(d)
            /\ \E m \in {d.messages, Unread} : ReceivePdu(d, d.pdu, m)
         \/ d \in Unknown /\ ReceiveUndecodable(d)
<1>1. \/ \E pdu \in ReadPdu(d.octets) :
           ReceivePdu(d, pdu, MessagesRead(d.to, pdu, d.octets))
      \/ ReadPdu(d.octets) = {} /\ ReceiveUndecodable(d)
  BY Zenon DEF Receive
<1>2. CASE Reads(d)
  <2>1. ReadPdu(d.octets) = {d.pdu}
    BY <1>2, Zenon DEF Reads
  <2>2. ReadPdu(d.octets) # {}
    BY <2>1
  <2>3. ReceivePdu(d, d.pdu, MessagesRead(d.to, d.pdu, d.octets))
    BY <1>1, <2>1, <2>2, Zenon
  <2> QED  BY <1>2, <2>3, ReadMessages, Zenon
<1>3. CASE d \in Unknown
  <2>1. ReadPdu(d.octets) = {}
    BY <1>3, UnknownIsSilent, Zenon
  <2> QED  BY <1>1, <1>3, <2>1, Zenon
<1> QED
  BY <1>2, <1>3, MayArrive, Zenon

LEMMA ReceivePduKeeps ==
  ASSUME IInv, WithinBounds, NEW d, Reads(d), NEW m \in {d.messages, Unread},
         ReceivePdu(d, d.pdu, m)
  PROVE  IInv'
<1>1. PICK e, pdu : e = d.to /\ pdu = d.pdu
  OBVIOUS
<1>2. e \in Ends /\ ForMe(e, pdu) /\ d.messages \in Messages(ValidMessage)
  BY <1>1, Zenon DEF Reads
<1>3. m = Unread \/ m \in Messages(ValidMessage)
  BY <1>2
<1>4. EndIs(e)
  BY <1>2, InvIs, Zenon
<1>5. PICK works, x :
        /\ x = cfdp_core_received_pdu(e, pdu, m, works)
        /\ sender' = [sender EXCEPT ![e] = x.sender]
        /\ receiver' = [receiver EXCEPT ![e] = x.receiver]
        /\ transaction_sequence_number' = [transaction_sequence_number EXCEPT ![e] = x.number]
        /\ heard' = [at |-> e, pdu |-> pdu, messages |-> m]
        /\ Arrives(d, x.out)
  BY <1>1, Zenon DEF ReceivePdu
<1>6. ReceivedIs(e, x)
  BY <1>2, <1>3, <1>4, <1>5, Received, Zenon
<1>7. /\ SenderIs(e, x.sender) /\ ReceiverIs(e, x.receiver) /\ AllTransmitted(e, x.out)
      /\ x.number \in Nat /\ transaction_sequence_number[e] <= x.number
  BY <1>6, Zenon DEF ReceivedIs
<1>8. PICK s, q, n, out : s = x.sender /\ q = x.receiver /\ n = x.number /\ out = x.out
  OBVIOUS
<1>9. wire' \subseteq wire \cup out
  BY <1>5, <1>8 DEF Arrives
<1>10. heard'.at = e
  BY <1>5
<1>11. Changes(e, s, q, n, out)
  BY <1>2, <1>5, <1>8, <1>9, <1>10, Zenon DEF Changes
<1>12. /\ SenderIs(e, s) /\ ReceiverIs(e, q) /\ AllTransmitted(e, out)
       /\ n \in Nat /\ transaction_sequence_number[e] <= n
  BY <1>7, <1>8, Zenon
<1> QED
  BY <1>2, <1>11, <1>12, Preserved, Zenon

\* A step that changes neither end.
LEMMA NothingKeeps ==
  ASSUME IInv, WithinBounds, wire' \subseteq wire,
         UNCHANGED <<transaction_sequence_number, sender, receiver>>,
         heard' = Silence \/ heard'.at \in Ends
  PROVE  IInv'
<1>1. PICK e : e \in Ends
  BY EndsAssumption
<1>2. PICK s, n, q : s = sender[e] /\ n = transaction_sequence_number[e] /\ q = receiver[e]
  OBVIOUS
<1>3. EndIs(e)
  BY <1>1, InvIs, Zenon
<1>4. n \in Nat /\ n <= n /\ SenderIs(e, s) /\ ReceiverIs(e, q)
  BY <1>1, <1>2, <1>3, SameNumber, Zenon
<1>5. /\ transaction_sequence_number = [o \in Ends |-> transaction_sequence_number[o]]
      /\ sender = [o \in Ends |-> sender[o]] /\ receiver = [o \in Ends |-> receiver[o]]
  BY InvIs, Zenon
<1>6. /\ sender' = [sender EXCEPT ![e] = s] /\ receiver' = [receiver EXCEPT ![e] = q]
      /\ transaction_sequence_number' = [transaction_sequence_number EXCEPT ![e] = n]
  BY <1>1, <1>2, <1>5
<1>7. PICK out : out = {}
  OBVIOUS
<1>8. wire' \subseteq wire \cup out /\ AllTransmitted(e, out)
  BY <1>7 DEF AllTransmitted
<1>9. Changes(e, s, q, n, out)
  BY <1>6, <1>8, Zenon DEF Changes
<1> QED
  BY <1>1, <1>2, <1>4, <1>8, <1>9, Preserved, Zenon

LEMMA UndecodableKeeps ==
  ASSUME IInv, WithinBounds, NEW d \in Unknown, ReceiveUndecodable(d)
  PROVE  IInv'
<1>1. /\ heard'.at = d.to /\ Arrives(d, {})
      /\ UNCHANGED <<transaction_sequence_number, sender, receiver>>
  BY DEF ReceiveUndecodable
<1>2. wire' \subseteq wire
  BY <1>1 DEF Arrives
<1>3. heard'.at \in Ends
  BY <1>1, UnknownIsSilent, Zenon
<1> QED
  BY <1>1, <1>2, <1>3, NothingKeeps, Zenon

LEMMA LoseKeeps ==
  ASSUME IInv, WithinBounds, NEW d, Lose(d)
  PROVE  IInv'
<1>1. /\ wire' \subseteq wire /\ heard' = Silence
      /\ UNCHANGED <<transaction_sequence_number, sender, receiver>>
  BY DEF Lose
<1> QED
  BY <1>1, NothingKeeps, Zenon

LEMMA StepKeeps ==
  ASSUME IInv, [Next]_vars
  PROVE  IInv'
<1>1. CASE UNCHANGED vars
  <2>1. /\ transaction_sequence_number' = transaction_sequence_number
        /\ sender' = sender /\ receiver' = receiver /\ wire' = wire /\ heard' = heard
    BY <1>1, Zenon DEF vars
  <2> QED
    BY <2>1, Zenon DEF IInv, SenderIs, ReceiverIs, Numbered, Transmitted
<1>2. CASE Next
  <2>1. WithinBounds /\ Step
    BY <1>2, Zenon DEF Next
  <2>2. ASSUME NEW r \in Requests, Put(r)  PROVE IInv'
    BY <2>1, <2>2, PutKeeps, Zenon
  <2>3. ASSUME NEW e \in Ends, TransportIsReady(e)  PROVE IInv'
    BY <2>1, <2>3, ReadyKeeps, Zenon
  <2>4. ASSUME NEW e \in Ends, Timeout(e)  PROVE IInv'
    BY <2>1, <2>4, CancelKeeps, Zenon DEF Timeout
  <2>5. ASSUME NEW e \in Ends, NEW id \in KnownIds, cfdp_core_cancel(e, id)  PROVE IInv'
    BY <2>1, <2>5, CancelKeeps, Zenon
  <2>6. ASSUME NEW d \in wire \cup ForeignDatagrams, Receive(d)  PROVE IInv'
    <3>1. CASE Reads(d) /\ \E m \in {d.messages, Unread} : ReceivePdu(d, d.pdu, m)
      BY <2>1, <3>1, ReceivePduKeeps, Zenon
    <3>2. CASE d \in Unknown /\ ReceiveUndecodable(d)
      BY <2>1, <3>2, UndecodableKeeps, Zenon
    <3> QED  BY <2>6, <3>1, <3>2, ReceiveIs, Zenon
  <2>7. ASSUME NEW d \in wire, Lose(d)  PROVE IInv'
    BY <2>1, <2>7, LoseKeeps, Zenon
  <2> QED  BY <2>1, <2>2, <2>3, <2>4, <2>5, <2>6, <2>7, Zenon DEF Step
<1> QED
  BY <1>1, <1>2

\* Both ends and everything on the link stay as IInv says through any sequence of
\* requests, expiries and datagrams: what was sent can be read, and no receiver
\* works for a transaction of its own end.
THEOREM Invariance == Spec => []IInv
<1>1. Init => IInv
  BY InvInitially
<1>2. IInv /\ [Next]_vars => IInv'
  BY StepKeeps
<1> QED
  BY <1>1, <1>2, PTL DEF Spec

-----------------------------------------------------------------------------
(* What the invariant says. *)

LEMMA SenderTypes ==
  ASSUME NEW e \in Ends, NEW s, SenderIs(e, s)
  PROVE  /\ s.state \in {"SEND_FILE", "COMPLETED"} /\ s.id = IdOf(s.transaction)
         /\ s.transaction.file_position \in 0 .. Len(s.transaction.file)
<1>1. PICK t : t = s.transaction
  OBVIOUS
<1>2. /\ s \in [state : {"SEND_FILE", "COMPLETED"}, id : Ids,
                transaction : Transactions(e) \cup {NoTransaction}]
      /\ s.id = IdOf(t) /\ t.file_position <= Len(t.file)
  BY <1>1, Zenon DEF SenderIs
<1>3. PICK n, p : n = Len(t.file) /\ p = t.file_position
  OBVIOUS
<1>4. n \in Nat /\ p \in Nat /\ p <= n
  <2>1. CASE t \in Transactions(e)
    BY <1>2, <1>3, <2>1, TransactionTypes, FileTypes, Zenon
  <2>2. CASE t = NoTransaction
    BY <1>3, <2>2 DEF NoTransaction
  <2>3. t \in Transactions(e) \cup {NoTransaction}
    BY <1>1, <1>2
  <2> QED  BY <2>1, <2>2, <2>3
<1>5. p \in 0 .. n
  BY <1>4
<1>6. s.state \in {"SEND_FILE", "COMPLETED"}
  BY <1>2
<1> QED
  BY <1>1, <1>2, <1>3, <1>5, <1>6, Zenon

LEMMA WireTypes ==
  ASSUME IInv, NEW d \in wire
  PROVE  /\ d.to \in Ends /\ \A i \in 1 .. Len(d.octets) : d.octets[i] \in Octet
         /\ IF d.messages = <<>> THEN EndOf(d.octets) = Len(d.octets)
            ELSE EndOf(d.octets) < Len(d.octets)
<1>1. PICK e \in Ends : Transmitted(e, d)
  BY InvIs, Zenon
<1>2. PICK pdu, tlvs : pdu = d.pdu /\ tlvs = d.messages
  OBVIOUS
<1>3. /\ MayTransmit(pdu, tlvs) /\ d \in Transmit(e, pdu, tlvs)
      /\ pdu.payload.kind = "file_data_pdu" => tlvs = <<>>
  BY <1>1, <1>2, Zenon DEF Transmitted
<1>4. Arrived(d, e, pdu, tlvs)
  BY <1>3, DatagramArrives, Zenon
<1>5. /\ d.octets \in Seq(Octet)
      /\ IF tlvs = <<>> THEN EndOf(d.octets) = Len(d.octets)
         ELSE pdu.payload.kind = "file_data_pdu" \/ EndOf(d.octets) < Len(d.octets)
  BY <1>4, Zenon DEF Arrived
<1>6. \A i \in 1 .. Len(d.octets) : d.octets[i] \in Octet
  BY <1>5
<1>7. d.to \in Ends
  BY <1>1, TransmittedReads, Zenon DEF Reads
<1> QED
  BY <1>2, <1>3, <1>5, <1>6, <1>7, Zenon

\* The states of the cores, their counters and the octets on the link have the
\* types of the code, and no sender reads behind the end of its file.
THEOREM TypeCorrect == Spec => []TypeOK
<1>1. ASSUME IInv  PROVE TypeOK
  <2>1. DOMAIN transaction_sequence_number = Ends
    BY <1>1, InvIs
  <2>2. ASSUME NEW e \in Ends
        PROVE  /\ transaction_sequence_number[e] \in FirstNumber .. FirstNumber + MaxPuts[e]
               /\ sender[e].state \in {"SEND_FILE", "COMPLETED"}
               /\ receiver[e].state \in {"WAIT_FOR_MD", "WAIT_FOR_EOF", "COMPLETED"}
               /\ receiver[e].is_file_transfer \in BOOLEAN
               /\ sender[e].id = IdOf(sender[e].transaction)
               /\ sender[e].transaction.file_position \in 0 .. Len(sender[e].transaction.file)
    <3>1. /\ Numbered(e, transaction_sequence_number[e])
          /\ SenderIs(e, sender[e]) /\ ReceiverIs(e, receiver[e])
      BY <1>1, <2>2, InvIs, Zenon DEF EndIs
    <3>2. transaction_sequence_number[e] \in FirstNumber .. FirstNumber + MaxPuts[e]
      BY <3>1, Zenon DEF Numbered
    <3>3. /\ sender[e].state \in {"SEND_FILE", "COMPLETED"}
          /\ sender[e].id = IdOf(sender[e].transaction)
          /\ sender[e].transaction.file_position \in 0 .. Len(sender[e].transaction.file)
      BY <3>1, SenderTypes, Zenon
    <3>4. /\ receiver[e].state \in {"WAIT_FOR_MD", "WAIT_FOR_EOF", "COMPLETED"}
          /\ receiver[e].is_file_transfer \in BOOLEAN
      BY <3>1 DEF ReceiverIs
    <3> QED  BY <3>2, <3>3, <3>4, Zenon
  <2>3. \A d \in wire :
          d.to \in Ends /\ \A i \in 1 .. Len(d.octets) : d.octets[i] \in Octet
    BY <1>1, WireTypes, Zenon
  <2>4. heard = Silence \/ heard.at \in Ends
    BY <1>1, Zenon DEF IInv
  <2> QED
    BY <2>1, <2>2, <2>3, <2>4, Zenon DEF TypeOK
<1> QED
  BY <1>1, Invariance, PTL

\* The length in the header of everything on the link is that of the PDU, with the
\* determinant of file data gone and without the messages to the user.
THEOREM LengthIsThatOfThePdu == Spec => []LengthSpansPdu
<1>1. ASSUME IInv  PROVE LengthSpansPdu
  BY <1>1, WireTypes, Zenon DEF LengthSpansPdu, EndOf
<1> QED
  BY <1>1, Invariance, PTL

-----------------------------------------------------------------------------
(* What a step may never do. *)

\* PDUs of the acknowledged class change nothing but what is on the link.
THEOREM AcknowledgedClassRefused == Spec => Class2Refused
<1>1. ASSUME IInv, Next, heard' # Silence, IsClass2(heard'.pdu)
      PROVE  /\ UNCHANGED <<transaction_sequence_number, sender, receiver>>
             /\ wire' \subseteq wire /\ told' = <<>>
  <2>1. Step
    BY <1>1, Zenon DEF Next
  <2>2. ASSUME NEW r \in Requests, Put(r)
        PROVE  FALSE
    <3>1. PICK put, e : heard' = IF put.out # {} THEN Silence
                          ELSE [at |-> e, pdu |-> MetadataPdu(put.sender.transaction),
                                messages |-> Unread]
      BY <2>2, Zenon DEF Put
    <3>2. heard' = [at |-> e, pdu |-> MetadataPdu(put.sender.transaction), messages |-> Unread]
      BY <1>1, <3>1, Zenon
    <3>3. heard'.pdu = MetadataPdu(put.sender.transaction)
      BY <3>2
    <3>4. \A t : ~IsClass2(MetadataPdu(t))
      BY DEF IsClass2, MetadataPdu, create_pdu_header
    <3> QED  BY <1>1, <3>3, <3>4, Zenon
  <2>3. ASSUME NEW e \in Ends, TransportIsReady(e)  PROVE FALSE
    BY <1>1, <2>3, Zenon DEF TransportIsReady
  <2>4. ASSUME NEW e, NEW id, cfdp_core_cancel(e, id)  PROVE FALSE
    BY <1>1, <2>4, Zenon DEF cfdp_core_cancel
  <2>5. ASSUME NEW d \in wire \cup ForeignDatagrams, Receive(d)
        PROVE  /\ UNCHANGED <<transaction_sequence_number, sender, receiver>>
               /\ wire' \subseteq wire /\ told' = <<>>
    <3>1. ASSUME Reads(d), NEW m, ReceivePdu(d, d.pdu, m)
          PROVE  /\ UNCHANGED <<transaction_sequence_number, sender, receiver>>
                 /\ wire' \subseteq wire /\ told' = <<>>
      <4>1. PICK e, pdu : e = d.to /\ pdu = d.pdu
        OBVIOUS
      <4>2. PICK works, x :
              /\ x = cfdp_core_received_pdu(e, pdu, m, works)
              /\ sender' = [sender EXCEPT ![e] = x.sender]
              /\ receiver' = [receiver EXCEPT ![e] = x.receiver]
              /\ transaction_sequence_number' =
                   [transaction_sequence_number EXCEPT ![e] = x.number]
              /\ heard' = [at |-> e, pdu |-> pdu, messages |-> m]
              /\ told' = x.told
              /\ Arrives(d, x.out)
        BY <3>1, <4>1, Zenon DEF ReceivePdu
      <4>3. heard'.pdu = pdu
        BY <4>2
      <4>4. Stays(e, x)
        BY <1>1, <4>2, <4>3, Class2Stays, Zenon
      <4>5. /\ x.sender = sender[e] /\ x.receiver = receiver[e]
            /\ x.number = transaction_sequence_number[e] /\ x.out = {} /\ x.told = <<>>
        BY <4>4, Zenon DEF Stays
      <4>6. /\ transaction_sequence_number = [o \in Ends |-> transaction_sequence_number[o]]
            /\ sender = [o \in Ends |-> sender[o]] /\ receiver = [o \in Ends |-> receiver[o]]
        BY <1>1, InvIs, Zenon
      <4>7. sender' = sender /\ receiver' = receiver
              /\ transaction_sequence_number' = transaction_sequence_number
        BY <4>2, <4>5, <4>6
      <4>8. wire' \subseteq wire
        <5>1. Arrives(d, {})
          BY <4>2, <4>5, Zenon
        <5> QED  BY <5>1 DEF Arrives
      <4> QED  BY <4>2, <4>5, <4>7, <4>8, Zenon
    <3>2. ASSUME ReceiveUndecodable(d)
          PROVE  /\ UNCHANGED <<transaction_sequence_number, sender, receiver>>
                 /\ wire' \subseteq wire /\ told' = <<>>
      BY <3>2 DEF ReceiveUndecodable, Arrives
    <3> QED  BY <1>1, <2>5, <3>1, <3>2, ReceiveIs, Zenon
  <2>6. ASSUME NEW d, Lose(d)  PROVE FALSE
    BY <1>1, <2>6, Zenon DEF Lose
  <2> QED  BY <2>1, <2>2, <2>3, <2>4, <2>5, <2>6, Zenon DEF Step, Timeout
<1>2. IInv /\ [Next]_vars => [heard' # Silence /\ IsClass2(heard'.pdu) =>
                                /\ UNCHANGED <<transaction_sequence_number, sender, receiver>>
                                /\ wire' \subseteq wire /\ told' = <<>>]_vars
  BY <1>1, Zenon
<1> QED
  BY <1>2, Invariance, PTL DEF Spec, Class2Refused

\* A cancel request ends the machine it names and no other.
THEOREM CancelEndsTheTransaction == Spec => CancelEndsWhatItNames
<1>1. ASSUME IInv, NEW e \in Ends, NEW id, cfdp_core_cancel(e, id)
      PROVE  /\ sender[e].id = id => sender'[e].state = "COMPLETED"
             /\ receiver[e].id = id => receiver'[e].state = "COMPLETED"
             /\ \A o \in Ends :
                  /\ o # e \/ sender[o].id # id => UNCHANGED sender[o]
                  /\ o # e \/ receiver[o].id # id => UNCHANGED receiver[o]
  <2>1. PICK route, sends :
          /\ route = cfdp_core_issue_request(e, id)
          /\ sends = (route = "sender" /\ sender[e].state = "SEND_FILE")
    OBVIOUS
  <2>2. /\ sender' = IF sends THEN [sender EXCEPT ![e].state = "COMPLETED"] ELSE sender
        /\ receiver' = IF route = "receiver" THEN [receiver EXCEPT ![e].state = "COMPLETED"]
                       ELSE receiver
    BY <1>1, <2>1, Zenon DEF cfdp_core_cancel
  <2>3. /\ sender = [o \in Ends |-> sender[o]] /\ receiver = [o \in Ends |-> receiver[o]]
        /\ SenderIs(e, sender[e]) /\ ReceiverIs(e, receiver[e])
    BY <1>1, InvIs, Zenon DEF EndIs
  <2>4. /\ sender[e].state \in {"SEND_FILE", "COMPLETED"}
        /\ sender[e].id = IdOf(sender[e].transaction)
        /\ sender[e].transaction \in Transactions(e) \cup {NoTransaction}
    BY <2>3, SenderTypes DEF SenderIs
  <2>5. sender[e].id.source_entity_id \in {0, EntityId[e]}
    <3>1. CASE sender[e].transaction \in Transactions(e)
      <4>1. PICK t \in Transactions(e) : t = sender[e].transaction
        BY <3>1
      <4>2. t.source_entity_id = EntityId[e]
        BY TransactionTypes, Zenon
      <4> QED  BY <2>4, <4>1, <4>2 DEF IdOf
    <3>2. CASE sender[e].transaction = NoTransaction
      BY <2>4, <3>2 DEF IdOf, NoTransaction
    <3> QED  BY <2>4, <3>1, <3>2
  <2>6. receiver[e].state # "COMPLETED" =>
          receiver[e].id.source_entity_id \notin {0, EntityId[e]}
    BY <2>3, Zenon DEF ReceiverIs
  <2>7. /\ sender[e].id = id => route = "sender"
        /\ sender[e].id # id /\ receiver[e].id = id => route = "receiver"
        /\ sender[e].id # id => route # "sender"
        /\ receiver[e].id # id => route # "receiver"
    BY <2>1 DEF cfdp_core_issue_request
  <2>8. receiver[e] \in [state : {"WAIT_FOR_MD", "WAIT_FOR_EOF", "COMPLETED"}, id : Ids,
                         is_file_transfer : BOOLEAN]
    BY <2>3, Zenon DEF ReceiverIs
  <2>9. sender[e] \in [state : {"SEND_FILE", "COMPLETED"}, id : Ids,
                       transaction : Transactions(e) \cup {NoTransaction}]
    BY <2>3, Zenon DEF SenderIs
  <2>10. sender[e].id = id => sender'[e].state = "COMPLETED"
    BY <2>1, <2>2, <2>3, <2>4, <2>7, <2>9
  <2>11. receiver[e].id = id => receiver'[e].state = "COMPLETED"
    <3>1. CASE sender[e].id = id
      BY <2>2, <2>5, <2>6, <2>7, <3>1
    <3>2. CASE sender[e].id # id
      BY <2>2, <2>3, <2>7, <2>8, <3>2
    <3> QED  BY <3>1, <3>2
  <2>12. ASSUME NEW o \in Ends
         PROVE  /\ o # e \/ sender[o].id # id => UNCHANGED sender[o]
                /\ o # e \/ receiver[o].id # id => UNCHANGED receiver[o]
    <3>1. CASE o # e
      BY <2>2, <2>3, <3>1
    <3>2. CASE o = e
      BY <2>1, <2>2, <2>7, <3>2
    <3> QED  BY <3>1, <3>2
  <2> QED  BY <2>10, <2>11, <2>12, Zenon
<1>2. IInv /\ [Next]_vars =>
        [\A e \in Ends, id \in KnownIds :
           heard' = Silence /\ cfdp_core_cancel(e, id) =>
             /\ sender[e].id = id => sender'[e].state = "COMPLETED"
             /\ receiver[e].id = id => receiver'[e].state = "COMPLETED"
             /\ \A o \in Ends :
                  /\ o # e \/ sender[o].id # id => UNCHANGED sender[o]
                  /\ o # e \/ receiver[o].id # id => UNCHANGED receiver[o]]_vars
  BY <1>1, Zenon
<1> QED
  BY <1>2, Invariance, PTL DEF Spec, CancelEndsWhatItNames

-----------------------------------------------------------------------------
(* The octets on the link implement a channel of PDUs. *)

\* A header is addressable when its identifiers can be written: nothing else in
\* it can be wrong.
LEMMA AddressIs ==
  ASSUME NEW h \in cfdpPDUHeader
  PROVE  HasAddress(h) <=> Channel!Addressable(h)
<1>1. /\ h.version \in 0 .. 7 /\ h.direction \in DOMAIN Direction_ACN_Encode
      /\ h.transmission_mode \in DOMAIN TransmissionMode_ACN_Encode
      /\ h.crc_flag \in DOMAIN CRCFlag_ACN_Encode
  BY DEF cfdpPDUHeader
<1>2. PICK a, b, c : /\ a = Len(h.source_entity_id) /\ b = Len(h.destination_entity_id)
                     /\ c = Len(h.transaction_sequence_number)
  OBVIOUS
<1>3. HasAddress(h) <=> a \in 1 .. 7 /\ c \in 1 .. 7 /\ b \in 1 .. 7 /\ a = b
  BY <1>1, <1>2, Zenon
  DEF HasAddress, PDUHeader_IsConstraintValid, CfdpPDU_EqualIdLengths,
      EntityId_IsConstraintValid, TransactionSequenceNumber_IsConstraintValid
<1>4. Channel!Addressable(h) <=> a = b /\ a \in 1 .. 7 /\ c \in 1 .. 7
  BY <1>2, Zenon DEF Channel!Addressable
<1> QED
  BY <1>3, <1>4, Zenon

\* What the link stands for.
Stands(d) == [to |-> d.to, pdu |-> d.pdu, messages |-> d.messages]
OnTheLink(w) == {Stands(d) : d \in w \cup ForeignDatagrams}

LEMMA LinkIs ==
  /\ {[to |-> d.to, pdu |-> d.pdu, messages |-> d.messages] :
        d \in wire \cup ForeignDatagrams} = OnTheLink(wire)
  /\ {[to |-> d.to, pdu |-> d.pdu, messages |-> d.messages] :
        d \in wire' \cup ForeignDatagrams} = OnTheLink(wire')
BY Zenon DEF OnTheLink, Stands

LEMMA ReadsHasAddress ==
  ASSUME NEW d, Reads(d) \/ d \in Unknown
  PROVE  Channel!Addressable(Stands(d).pdu.pdu_header)
<1>1. d.pdu.pdu_header \in cfdpPDUHeader /\ HasAddress(d.pdu.pdu_header)
  <2>1. CASE Reads(d)
    <3>1. d.pdu \in cfdpCfdpPDU /\ HasAddress(d.pdu.pdu_header)
      BY <2>1, Zenon DEF Reads, ForMe
    <3> QED  BY <3>1, PduTypes, Zenon
  <2>2. CASE d \in Unknown
    <3>1. /\ d.pdu \in [pdu_header : cfdpPDUHeader, payload : {Undecodable}]
          /\ HasAddress(d.pdu.pdu_header)
      BY <2>2, UnknownIsSilent, Zenon
    <3> QED  BY <3>1
  <2> QED  BY <2>1, <2>2
<1>2. Stands(d).pdu = d.pdu
  BY DEF Stands
<1> QED
  BY <1>1, <1>2, AddressIs, Zenon

\* Nothing is on the link but what can be addressed.
AllAddressable(w) == \A m \in OnTheLink(w) : Channel!Addressable(m.pdu.pdu_header)

LEMMA LinkAddressable ==
  ASSUME IInv
  PROVE  AllAddressable(wire)
<1> SUFFICES ASSUME NEW d \in wire \cup ForeignDatagrams
             PROVE  Channel!Addressable(Stands(d).pdu.pdu_header)
  BY Zenon DEF AllAddressable, OnTheLink
<1> QED
  BY MayArrive, ReadsHasAddress, Zenon

LEMMA LinkAddressableNext ==
  ASSUME IInv'
  PROVE  AllAddressable(wire')
<1> SUFFICES ASSUME NEW d \in wire' \cup ForeignDatagrams
             PROVE  Channel!Addressable(Stands(d).pdu.pdu_header)
  BY Zenon DEF AllAddressable, OnTheLink
<1>1. CASE d \in wire'
  <2>1. \A x \in wire' : \E e \in Ends : Transmitted(e, x)
    BY Zenon DEF IInv, Transmitted
  <2> QED  BY <1>1, <2>1, TransmittedReads, ReadsHasAddress, Zenon
<1>2. CASE d \in ForeignDatagrams
  <2>1. \/ d \in UNION {Transmit(Other(f.end), f.pdu, f.messages) : f \in Foreign}
        \/ d \in Unknown
    BY <1>2, Zenon DEF ForeignDatagrams
  <2>2. ASSUME NEW S \in {Transmit(Other(f.end), f.pdu, f.messages) : f \in Foreign}, d \in S
        PROVE  Reads(d)
    BY <2>2, ForeignReads, Zenon
  <2>3. Reads(d) \/ d \in Unknown
    BY <2>1, <2>2, Zenon
  <2> QED  BY <2>3, ReadsHasAddress, Zenon
<1> QED
  BY <1>1, <1>2

LEMMA SentIs ==
  ASSUME IInv'
  PROVE  Channel!Sent
<1>1. AllAddressable(wire')
  BY LinkAddressableNext
<1> QED
  BY <1>1, LinkIs, Zenon DEF Channel!Sent, AllAddressable

\* A datagram that arrives may stay on the link; all others stay.
LEMMA OthersStay ==
  ASSUME NEW d, NEW out, Arrives(d, out)
  PROVE  OnTheLink(wire) \ {Stands(d)} \subseteq OnTheLink(wire')
<1> SUFFICES ASSUME NEW x \in wire \cup ForeignDatagrams, Stands(x) # Stands(d)
             PROVE  Stands(x) \in OnTheLink(wire')
  BY Zenon DEF OnTheLink
<1>1. x # d
  OBVIOUS
<1>2. x \in wire' \cup ForeignDatagrams
  BY <1>1 DEF Arrives
<1> QED
  BY <1>2, Zenon DEF OnTheLink

LEMMA DeliverStep ==
  ASSUME IInv', NEW d \in wire \cup ForeignDatagrams, NEW m \in {d.messages, Unread},
         NEW out, Arrives(d, out), heard' = [at |-> d.to, pdu |-> d.pdu, messages |-> m]
  PROVE  Channel!Next
<1>1. PICK s : s = Stands(d)
  OBVIOUS
<1>2. s \in OnTheLink(wire)
  BY <1>1, Zenon DEF OnTheLink
<1>3. s.to = d.to /\ s.pdu = d.pdu /\ s.messages = d.messages
  BY <1>1 DEF Stands
<1>4. OnTheLink(wire) \ {s} \subseteq OnTheLink(wire')
  BY <1>1, OthersStay, Zenon
<1>5. \E read \in {s.messages, Unread} :
        heard' = [at |-> s.to, pdu |-> s.pdu, messages |-> read]
  BY <1>3, Zenon
<1>6. Channel!Deliver(s)
  BY <1>4, <1>5, SentIs, LinkIs, Zenon DEF Channel!Deliver
<1> QED
  BY <1>2, <1>6, LinkIs, Zenon DEF Channel!Next

LEMMA SilentStep ==
  ASSUME IInv', heard' = Silence
  PROVE  Channel!Next
BY SentIs, Zenon DEF Channel!SendOrLose, Channel!Next

\* A put that sends nothing is refused for its identifiers.
LEMMA RefuseStep ==
  ASSUME IInv, NEW r \in Requests, Put(r), heard' # Silence
  PROVE  Channel!Next \/ UNCHANGED <<wire, heard>>
<1>1. PICK e : e = r.end
  OBVIOUS
<1>2. r \in PutRequest
  BY RequestsAssumption
<1>3. e \in Ends
  BY <1>1, <1>2, RequestTypes, Zenon
<1>4. EndIs(e)
  BY <1>3, InvIs, Zenon
<1>5. PICK n, put : /\ n = transaction_sequence_number[e] + 1
                    /\ put = cfdp_core_put(e, n, r)
  OBVIOUS
<1>6. PutIs(e, put, n)
  BY <1>2, <1>3, <1>4, <1>5, PutNow, Zenon
<1>7. /\ wire' = wire \cup put.out
      /\ heard' = IF put.out # {} THEN Silence
                  ELSE [at |-> e, pdu |-> MetadataPdu(put.sender.transaction),
                        messages |-> Unread]
  BY <1>1, <1>5 DEF Put
<1>8. PICK pdu : pdu = MetadataPdu(put.sender.transaction)
  OBVIOUS
<1>9. put.out = {} /\ heard' = [at |-> e, pdu |-> pdu, messages |-> Unread]
  BY <1>7, <1>8, Zenon
<1>10. wire' = wire
  BY <1>7, <1>9
<1>11. pdu \in cfdpCfdpPDU /\ ~HasAddress(pdu.pdu_header)
  BY <1>6, <1>8, <1>9, Zenon DEF PutIs
<1>12. ~Channel!Addressable(pdu.pdu_header)
  BY <1>11, PduTypes, AddressIs, Zenon
<1>13. heard'.messages = Unread /\ heard'.pdu = pdu
  BY <1>9
<1>14. OnTheLink(wire') = OnTheLink(wire)
  BY <1>10, Zenon
<1>15. CASE heard' # heard
  <2>1. Channel!Refuse
    BY <1>12, <1>13, <1>14, <1>15, LinkIs, Zenon DEF Channel!Refuse
  <2> QED  BY <2>1, Zenon DEF Channel!Next
<1>16. CASE heard' = heard
  BY <1>10, <1>16
<1> QED
  BY <1>15, <1>16

\* The octets on the link, whatever is done to them, carry every PDU and its
\* messages to the other end as they were: the cores and the codec implement a
\* channel of PDUs that may lose, repeat and reorder them.
THEOREM Refinement == Spec => ImplementsChannel
<1>1. Init => Channel!Init
  <2> SUFFICES ASSUME Init
               PROVE  Channel!Init
    OBVIOUS
  <2>1. AllAddressable(wire)
    BY InvInitially, LinkAddressable, Zenon
  <2>2. heard = Silence
    BY DEF Init
  <2> QED
    BY <2>1, <2>2, LinkIs, Zenon DEF Channel!Init, AllAddressable
<1>2. IInv /\ IInv' /\ [Next]_vars => [Channel!Next]_Channel!vars
  <2> SUFFICES ASSUME IInv, IInv', [Next]_vars
               PROVE  Channel!Next \/ UNCHANGED <<wire, heard>>
    <3>1. ASSUME UNCHANGED <<wire, heard>>
          PROVE  UNCHANGED Channel!vars
      <4>1. wire' = wire /\ heard' = heard
        BY <3>1
      <4>2. OnTheLink(wire') = OnTheLink(wire)
        BY <4>1, Zenon
      <4> QED  BY <4>1, <4>2, LinkIs, Zenon DEF Channel!vars
    <3> QED  BY <3>1, Zenon
  <2>1. CASE UNCHANGED vars
    BY <2>1 DEF vars
  <2>2. CASE Next
    <3>1. Step
      BY <2>2, Zenon DEF Next
    <3>2. ASSUME NEW r \in Requests, Put(r)
          PROVE  Channel!Next \/ UNCHANGED <<wire, heard>>
      BY <3>2, SilentStep, RefuseStep, Zenon
    <3>3. ASSUME NEW e \in Ends, TransportIsReady(e)
          PROVE  Channel!Next
      <4>1. heard' = Silence
        BY <3>3, Zenon DEF TransportIsReady
      <4> QED  BY <4>1, SilentStep, Zenon
    <3>4. ASSUME NEW e, NEW id, cfdp_core_cancel(e, id)
          PROVE  Channel!Next
      <4>1. heard' = Silence
        BY <3>4, Zenon DEF cfdp_core_cancel
      <4> QED  BY <4>1, SilentStep, Zenon
    <3>5. ASSUME NEW d \in wire \cup ForeignDatagrams, Receive(d)
          PROVE  Channel!Next
      <4>1. ASSUME NEW m \in {d.messages, Unread}, ReceivePdu(d, d.pdu, m)
            PROVE  Channel!Next
        <5>1. PICK x : /\ Arrives(d, x.out)
                       /\ heard' = [at |-> d.to, pdu |-> d.pdu, messages |-> m]
          BY <4>1, Zenon DEF ReceivePdu
        <5> QED  BY <5>1, DeliverStep, Zenon
      <4>2. ASSUME d \in Unknown, ReceiveUndecodable(d)
            PROVE  Channel!Next
        <5>1. /\ Arrives(d, {})
              /\ heard' = [at |-> d.to, pdu |-> [d.pdu EXCEPT !.payload = Undecodable],
                           messages |-> Unread]
          BY <4>2, Zenon DEF ReceiveUndecodable
        <5>2. d.pdu \in [pdu_header : cfdpPDUHeader, payload : {Undecodable}]
          BY <4>2, UnknownIsSilent, Zenon
        <5>3. [d.pdu EXCEPT !.payload = Undecodable] = d.pdu
          BY <5>2
        <5>4. heard' = [at |-> d.to, pdu |-> d.pdu, messages |-> Unread]
          BY <5>1, <5>3, Zenon
        <5> QED  BY <5>1, <5>4, DeliverStep, Zenon
      <4> QED  BY <3>5, <4>1, <4>2, ReceiveIs, Zenon
    <3>6. ASSUME NEW d, Lose(d)
          PROVE  Channel!Next
      <4>1. heard' = Silence
        BY <3>6, Zenon DEF Lose
      <4> QED  BY <4>1, SilentStep, Zenon
    <3> QED  BY <3>1, <3>2, <3>3, <3>4, <3>5, <3>6, Zenon DEF Step, Timeout
  <2> QED
    BY <2>1, <2>2
<1> QED
  BY <1>1, <1>2, Invariance, PTL DEF Spec, Channel!Spec, ImplementsChannel
=============================================================================

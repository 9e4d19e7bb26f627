------------------------------ MODULE PduCodec ------------------------------
(***************************************************************************)
(* The encoders and decoders that asn1scc generates for CFDP PDUs from      *)
(* dataview.asn.  An encoder returns octets.  A decoder returns the set of  *)
(* the values its octets stand for: one, or none when it fails.             *)
(*                                                                          *)
(* A typed PDU is [pdu_header, payload], and a payload has a kind.          *)
(***************************************************************************)
EXTENDS Octets, FiniteSets

\* The octets the generated code reserves for the payload of a PDU.
PayloadData_REQUIRED_BYTES == 4103

-----------------------------------------------------------------------------
(***************************************************************************)
(* The enumerations.  Encoding and decoding have tables of their own.       *)
(***************************************************************************)
ConditionCode_ACN_Encode ==
  [no_error |-> 0, positive_ack_limit_reached |-> 1, keep_alive_limit_reached |-> 2,
   invalid_transmission_mode |-> 3, filestore_rejection |-> 4,
   file_checksum_failure |-> 5, file_size_error |-> 6, nak_limit_reached |-> 7,
   inactivity_detected |-> 8, invalid_file_structure |-> 9,
   check_limit_reached |-> 10, unsupported_checksum_type |-> 11,
   suspend_request_received |-> 14, cancel_request_received |-> 15]

ConditionCode_ACN_Decode ==
  LET name == <<"no_error", "positive_ack_limit_reached",
                "keep_alive_limit_reached", "invalid_transmission_mode",
                "filestore_rejection", "file_checksum_failure", "file_size_error",
                "nak_limit_reached", "inactivity_detected",
                "invalid_file_structure", "check_limit_reached",
                "unsupported_checksum_type">>
  IN  [code \in (0 .. 11) \cup {14, 15} |->
         CASE code = 14 -> "suspend_request_received"
           [] code = 15 -> "cancel_request_received"
           [] OTHER -> name[code + 1]]

DirectiveSubtypeCode_ACN_Encode == [ack_others |-> 0, ack_finished |-> 1]
DirectiveSubtypeCode_ACN_Decode ==
  [code \in 0 .. 1 |-> <<"ack_others", "ack_finished">>[code + 1]]

AckTransactionStatus_ACN_Encode ==
  [undefined |-> 0, active |-> 1, terminated |-> 2, unrecognized |-> 3]
AckTransactionStatus_ACN_Decode ==
  [code \in 0 .. 3 |->
     <<"undefined", "active", "terminated", "unrecognized">>[code + 1]]

DeliveryCode_ACN_Encode == [data_complete |-> 0, data_incomplete |-> 1]
DeliveryCode_ACN_Decode ==
  [code \in 0 .. 1 |-> <<"data_complete", "data_incomplete">>[code + 1]]

FileStatus_ACN_Encode ==
  [discarted_deliberately |-> 0, discarted_file_rejection |-> 1,
   retained_successfully |-> 2, unreported |-> 3]
FileStatus_ACN_Decode ==
  [code \in 0 .. 3 |-> <<"discarted_deliberately", "discarted_file_rejection",
                         "retained_successfully", "unreported">>[code + 1]]

ClosureRequested_ACN_Encode == [requested |-> 0, not_requested |-> 1]
ClosureRequested_ACN_Decode ==
  [code \in 0 .. 1 |-> <<"requested", "not_requested">>[code + 1]]

ChecksumType_ACN_Encode == [modular |-> 0, none |-> 15]
ChecksumType_ACN_Decode ==
  [code \in {0, 15} |-> IF code = 0 THEN "modular" ELSE "none"]

Direction_ACN_Encode == [toward_receiver |-> 0, toward_sender |-> 1]
Direction_ACN_Decode ==
  [code \in 0 .. 1 |-> <<"toward_receiver", "toward_sender">>[code + 1]]

TransmissionMode_ACN_Encode == [acknowledged |-> 0, unacknowledged |-> 1]
TransmissionMode_ACN_Decode ==
  [code \in 0 .. 1 |-> <<"acknowledged", "unacknowledged">>[code + 1]]

CRCFlag_ACN_Encode == [crc_not_present |-> 0, crc_present |-> 1]
CRCFlag_ACN_Decode ==
  [code \in 0 .. 1 |-> <<"crc_not_present", "crc_present">>[code + 1]]

cfdp_entity_len_encode(val) == val - 1
cfdp_entity_len_decode(val) == val + 1

-----------------------------------------------------------------------------
(***************************************************************************)
(* The C types of a PDU.  A uint32_t is a number whose first octet fits.    *)
(***************************************************************************)
uint32_t == {n \in Nat : n \div 256^3 \in Octet}

cfdpPDUHeader ==
  [version : 0 .. 7, direction : DOMAIN Direction_ACN_Encode,
   transmission_mode : DOMAIN TransmissionMode_ACN_Encode,
   crc_flag : DOMAIN CRCFlag_ACN_Encode, source_entity_id : Seq(Octet),
   transaction_sequence_number : Seq(Octet), destination_entity_id : Seq(Octet)]

cfdpEofPDU ==
  [kind : {"eof_pdu"}, condition_code : DOMAIN ConditionCode_ACN_Encode,
   file_checksum : uint32_t, file_size : uint32_t]

cfdpFinishedPDU ==
  [kind : {"finished_pdu"}, condition_code : DOMAIN ConditionCode_ACN_Encode,
   delivery_code : DOMAIN DeliveryCode_ACN_Encode,
   file_status : DOMAIN FileStatus_ACN_Encode]

cfdpAckPDU ==
  [kind : {"ack_pdu"}, directive_code_of_ack_pdu : Octet,
   directive_subtype_code : DOMAIN DirectiveSubtypeCode_ACN_Encode,
   condition_code : DOMAIN ConditionCode_ACN_Encode,
   transaction_status : DOMAIN AckTransactionStatus_ACN_Encode]

cfdpMetadataPDU ==
  [kind : {"metadata_pdu"}, closure_requested : DOMAIN ClosureRequested_ACN_Encode,
   checksum_type : DOMAIN ChecksumType_ACN_Encode, file_size : uint32_t,
   source_file_name : Seq(Octet), destination_file_name : Seq(Octet)]

cfdpFileDataPDU ==
  [kind : {"file_data_pdu"}, segment_offset : uint32_t, file_data : Seq(Octet)]

cfdpPayloadData ==
  cfdpEofPDU \cup cfdpFinishedPDU \cup cfdpAckPDU \cup cfdpMetadataPDU \cup cfdpFileDataPDU

cfdpCfdpPDU == [pdu_header : cfdpPDUHeader, payload : cfdpPayloadData]

-----------------------------------------------------------------------------
(***************************************************************************)
(* The values a type admits.  Sizes and offsets have 32 bits.               *)
(***************************************************************************)
FileName_IsConstraintValid(name) == Len(name) <= 128
FileData_IsConstraintValid(data) == Len(data) <= 4096
EntityId_IsConstraintValid(id) == Len(id) \in 1 .. 7
TransactionSequenceNumber_IsConstraintValid(number) == Len(number) \in 1 .. 7

EofPDU_IsConstraintValid(p) == p.condition_code \in DOMAIN ConditionCode_ACN_Encode

FinishedPDU_IsConstraintValid(p) ==
  /\ p.condition_code \in DOMAIN ConditionCode_ACN_Encode
  /\ p.delivery_code \in DOMAIN DeliveryCode_ACN_Encode
  /\ p.file_status \in DOMAIN FileStatus_ACN_Encode

AckPDU_IsConstraintValid(p) ==
  /\ p.directive_code_of_ack_pdu \in Octet
  /\ p.directive_subtype_code \in DOMAIN DirectiveSubtypeCode_ACN_Encode
  /\ p.condition_code \in DOMAIN ConditionCode_ACN_Encode
  /\ p.transaction_status \in DOMAIN AckTransactionStatus_ACN_Encode

MetadataPDU_IsConstraintValid(p) ==
  /\ p.closure_requested \in DOMAIN ClosureRequested_ACN_Encode
  /\ p.checksum_type \in DOMAIN ChecksumType_ACN_Encode
  /\ FileName_IsConstraintValid(p.source_file_name)
  /\ FileName_IsConstraintValid(p.destination_file_name)

FileDataPDU_IsConstraintValid(p) == FileData_IsConstraintValid(p.file_data)

FileDirectivePDU_IsConstraintValid(p) ==
  CASE p.kind = "eof_pdu"      -> EofPDU_IsConstraintValid(p)
    [] p.kind = "finished_pdu" -> FinishedPDU_IsConstraintValid(p)
    [] p.kind = "ack_pdu"      -> AckPDU_IsConstraintValid(p)
    [] p.kind = "metadata_pdu" -> MetadataPDU_IsConstraintValid(p)

PayloadData_IsConstraintValid(p) ==
  IF p.kind = "file_data_pdu" THEN FileDataPDU_IsConstraintValid(p)
                              ELSE FileDirectivePDU_IsConstraintValid(p)

PDUHeader_IsConstraintValid(h) ==
  /\ h.version \in 0 .. 7
  /\ h.direction \in DOMAIN Direction_ACN_Encode
  /\ h.transmission_mode \in DOMAIN TransmissionMode_ACN_Encode
  /\ h.crc_flag \in DOMAIN CRCFlag_ACN_Encode
  /\ EntityId_IsConstraintValid(h.source_entity_id)
  /\ TransactionSequenceNumber_IsConstraintValid(h.transaction_sequence_number)
  /\ EntityId_IsConstraintValid(h.destination_entity_id)

CfdpPDU_IsConstraintValid(pdu) ==
  /\ PDUHeader_IsConstraintValid(pdu.pdu_header)
  /\ PayloadData_IsConstraintValid(pdu.payload)

-----------------------------------------------------------------------------
(***************************************************************************)
(* The payloads.  A decoder is given the buffer of the payload, which the   *)
(* caller fills up with zeros: it never runs out of octets.                 *)
(***************************************************************************)
Named(table, code) == {table[c] : c \in {code} \cap DOMAIN table}

EofPDU_ACN_Encode(p) ==
  <<OctetOf(<<<<4, ConditionCode_ACN_Encode[p.condition_code]>>, <<4, 0>>>>)>>
    \o BigEndian(p.file_checksum, 4) \o BigEndian(p.file_size, 4)

EofPDU_ACN_Decode(o) ==
  {[kind |-> "eof_pdu", condition_code |-> code,
    file_checksum |-> Unsigned(Slice(o, 2, 4)),
    file_size |-> Unsigned(Slice(o, 6, 4))] :
      code \in {c \in Named(ConditionCode_ACN_Decode, Bits(o[1], 0, 4)) :
                  Bits(o[1], 4, 4) = 0}}

FinishedPDU_ACN_Encode(p) ==
  <<OctetOf(<<<<4, ConditionCode_ACN_Encode[p.condition_code]>>, <<1, 1>>,
              <<1, DeliveryCode_ACN_Encode[p.delivery_code]>>,
              <<2, FileStatus_ACN_Encode[p.file_status]>>>>)>>

FinishedPDU_ACN_Decode(o) ==
  {[kind |-> "finished_pdu", condition_code |-> code,
    delivery_code |-> DeliveryCode_ACN_Decode[Bits(o[1], 5, 1)],
    file_status |-> FileStatus_ACN_Decode[Bits(o[1], 6, 2)]] :
      code \in {c \in Named(ConditionCode_ACN_Decode, Bits(o[1], 0, 4)) :
                  Bits(o[1], 4, 1) = 1}}

\* The last four bits of its last octet are not used.
AckPDU_ACN_Encode(p) ==
  << p.directive_code_of_ack_pdu,
     OctetOf(<<<<4, DirectiveSubtypeCode_ACN_Encode[p.directive_subtype_code]>>,
               <<4, ConditionCode_ACN_Encode[p.condition_code]>>>>),
     OctetOf(<<<<2, 0>>, <<2, AckTransactionStatus_ACN_Encode[p.transaction_status]>>,
               <<4, 0>>>>) >>

AckPDU_ACN_Decode(o) ==
  {[kind |-> "ack_pdu", directive_code_of_ack_pdu |-> o[1],
    directive_subtype_code |-> names[1], condition_code |-> names[2],
    transaction_status |-> AckTransactionStatus_ACN_Decode[Bits(o[3], 2, 2)]] :
      names \in {n \in Named(DirectiveSubtypeCode_ACN_Decode, Bits(o[2], 0, 4)) \X
                         Named(ConditionCode_ACN_Decode, Bits(o[2], 4, 4)) :
                   Bits(o[3], 0, 2) = 0}}

MetadataPDU_ACN_Encode(p) ==
  <<OctetOf(<<<<1, 0>>, <<1, ClosureRequested_ACN_Encode[p.closure_requested]>>,
              <<2, 0>>, <<4, ChecksumType_ACN_Encode[p.checksum_type]>>>>)>>
    \o BigEndian(p.file_size, 4)
    \o <<Len(p.source_file_name)>> \o p.source_file_name
    \o <<Len(p.destination_file_name)>> \o p.destination_file_name

MetadataPDU_ACN_Decode(o) ==
  LET source      == o[6]
      destination == o[7 + source]
  IN  {[kind |-> "metadata_pdu",
        closure_requested |-> ClosureRequested_ACN_Decode[Bits(o[1], 1, 1)],
        checksum_type |-> type,
        file_size |-> Unsigned(Slice(o, 2, 4)),
        source_file_name |-> Slice(o, 7, source),
        destination_file_name |-> Slice(o, 8 + source, destination)] :
          type \in {t \in Named(ChecksumType_ACN_Decode, Bits(o[1], 4, 4)) :
                      /\ Bits(o[1], 0, 1) = 0 /\ Bits(o[1], 2, 2) = 0
                      /\ source <= 128 /\ destination <= 128}}

FileDataPDU_ACN_Encode(p) ==
  BigEndian(p.segment_offset, 4) \o BigEndian(Len(p.file_data), 2) \o p.file_data

FileDataPDU_ACN_Decode(o) ==
  {[kind |-> "file_data_pdu", segment_offset |-> Unsigned(Slice(o, 1, 4)),
    file_data |-> Slice(o, 7, size)] :
      size \in {Unsigned(Slice(o, 5, 2))} \cap 0 .. 4096}

-----------------------------------------------------------------------------
(***************************************************************************)
(* The PDU.  The generated code writes the codecs of the file directives    *)
(* out once more, inside the encoder and the decoder of the PDU.            *)
(***************************************************************************)
CfdpPDU_directive_code ==
  [eof_pdu |-> 4, finished_pdu |-> 5, ack_pdu |-> 6, metadata_pdu |-> 7]

CfdpPDU_Encode_eof_pdu(p)      == EofPDU_ACN_Encode(p)
CfdpPDU_Encode_finished_pdu(p) == FinishedPDU_ACN_Encode(p)
CfdpPDU_Encode_ack_pdu(p)      == AckPDU_ACN_Encode(p)
CfdpPDU_Encode_metadata_pdu(p) == MetadataPDU_ACN_Encode(p)

CfdpPDU_Encode_payload(p) ==
  IF p.kind = "file_data_pdu" THEN FileDataPDU_ACN_Encode(p)
  ELSE <<CfdpPDU_directive_code[p.kind]>> \o
         CASE p.kind = "eof_pdu"      -> CfdpPDU_Encode_eof_pdu(p)
           [] p.kind = "finished_pdu" -> CfdpPDU_Encode_finished_pdu(p)
           [] p.kind = "ack_pdu"      -> CfdpPDU_Encode_ack_pdu(p)
           [] p.kind = "metadata_pdu" -> CfdpPDU_Encode_metadata_pdu(p)

\* The first octet of the header, the length of the payload and the lengths of
\* the identifiers.
CfdpPDU_Encode_flags(h, kind) ==
  OctetOf(<<<<3, h.version>>, <<1, IF kind = "file_data_pdu" THEN 1 ELSE 0>>,
            <<1, Direction_ACN_Encode[h.direction]>>,
            <<1, TransmissionMode_ACN_Encode[h.transmission_mode]>>,
            <<1, CRCFlag_ACN_Encode[h.crc_flag]>>, <<1, 0>>>>)

CfdpPDU_Encode_lengths(h) ==
  OctetOf(<<<<1, 0>>, <<3, cfdp_entity_len_encode(Len(h.source_entity_id))>>,
            <<1, 0>>,
            <<3, cfdp_entity_len_encode(Len(h.transaction_sequence_number))>>>>)

\* One length stands for both entity ids: they must have as many octets.
CfdpPDU_EqualIdLengths(h) == Len(h.source_entity_id) = Len(h.destination_entity_id)

CfdpPDU_ACN_Encode(pdu) ==
  LET h       == pdu.pdu_header
      payload == CfdpPDU_Encode_payload(pdu.payload)
  IN  IF CfdpPDU_IsConstraintValid(pdu) /\ CfdpPDU_EqualIdLengths(h)
      THEN {<<CfdpPDU_Encode_flags(h, pdu.payload.kind)>>
              \o BigEndian(Len(payload), 2) \o <<CfdpPDU_Encode_lengths(h)>>
              \o h.source_entity_id \o h.transaction_sequence_number
              \o h.destination_entity_id \o payload}
      ELSE {}

-----------------------------------------------------------------------------
CfdpPDU_Decode_eof_pdu(o)      == EofPDU_ACN_Decode(o)
CfdpPDU_Decode_finished_pdu(o) == FinishedPDU_ACN_Decode(o)
CfdpPDU_Decode_ack_pdu(o)      == AckPDU_ACN_Decode(o)
CfdpPDU_Decode_metadata_pdu(o) == MetadataPDU_ACN_Decode(o)

\* The payload buffer is longer than what arrived, and zero behind it.
CfdpPDU_Decode_payload(type, octets) ==
  LET arr  == octets \o Zeros(PayloadData_REQUIRED_BYTES - Len(octets))
      rest == Tail(arr)
  IN  IF type = 1 THEN FileDataPDU_ACN_Decode(arr)
      ELSE CASE arr[1] = 4 -> CfdpPDU_Decode_eof_pdu(rest)
             [] arr[1] = 5 -> CfdpPDU_Decode_finished_pdu(rest)
             [] arr[1] = 6 -> CfdpPDU_Decode_ack_pdu(rest)
             [] arr[1] = 7 -> CfdpPDU_Decode_metadata_pdu(rest)
             [] OTHER -> {}

\* What the fixed part of the header says: the pdu type, the length of the
\* payload, and where the identifiers and the payload begin.
CfdpPDU_Layout(octets) ==
  LET ids    == cfdp_entity_len_decode(Bits(octets[4], 1, 3))
      number == cfdp_entity_len_decode(Bits(octets[4], 5, 3))
  IN  [pdu_type |-> Bits(octets[1], 3, 1),
       pdu_data_field_length |-> Unsigned(Slice(octets, 2, 2)),
       length_of_entity_ids |-> ids,
       length_of_transaction_sequence_number |-> number,
       number_at |-> 5 + ids, destination_at |-> 5 + ids + number,
       payload_at |-> 5 + 2 * ids + number]

CfdpPDU_Decode_pdu_header(octets) ==
  LET l == CfdpPDU_Layout(octets)
  IN  [version |-> Bits(octets[1], 0, 3),
       direction |-> Direction_ACN_Decode[Bits(octets[1], 4, 1)],
       transmission_mode |-> TransmissionMode_ACN_Decode[Bits(octets[1], 5, 1)],
       crc_flag |-> CRCFlag_ACN_Decode[Bits(octets[1], 6, 1)],
       source_entity_id |-> Slice(octets, 5, l.length_of_entity_ids),
       transaction_sequence_number |->
         Slice(octets, l.number_at, l.length_of_transaction_sequence_number),
       destination_entity_id |->
         Slice(octets, l.destination_at, l.length_of_entity_ids)]

\* Flags the profile leaves out must be zero, an identifier has at most seven
\* octets, and what the lengths announce must have arrived.
CfdpPDU_Decode_accepts(octets) ==
  /\ Len(octets) >= 4
  /\ Bits(octets[1], 7, 1) = 0 /\ Bits(octets[4], 0, 1) = 0 /\ Bits(octets[4], 4, 1) = 0
  /\ LET l == CfdpPDU_Layout(octets)
     IN  /\ l.length_of_entity_ids \in 1 .. 7
         /\ l.length_of_transaction_sequence_number \in 1 .. 7
         /\ l.pdu_data_field_length <= PayloadData_REQUIRED_BYTES
         /\ l.payload_at + l.pdu_data_field_length - 1 <= Len(octets)

CfdpPDU_ACN_Decode(octets) ==
  IF ~CfdpPDU_Decode_accepts(octets) THEN {}
  ELSE LET l       == CfdpPDU_Layout(octets)
           payload == Slice(octets, l.payload_at, l.pdu_data_field_length)
           pdus    == {[pdu_header |-> CfdpPDU_Decode_pdu_header(octets), payload |-> p] :
                         p \in CfdpPDU_Decode_payload(l.pdu_type, payload)}
       IN  {pdu \in pdus : CfdpPDU_IsConstraintValid(pdu)}
=============================================================================

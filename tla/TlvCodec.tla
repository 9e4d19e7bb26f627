------------------------------ MODULE TlvCodec ------------------------------
(***************************************************************************)
(* The encoders and decoders that asn1scc generates for the messages to the *)
(* user: each travels in a TLV behind a Metadata PDU.  As in PduCodec an    *)
(* encoder returns octets and a decoder the set of what they stand for.     *)
(***************************************************************************)
EXTENDS PduCodec

\* The octets the generated code reserves for a message with its header.
MessageToUserWithHeader_REQUIRED_BYTES == 248

ListingResponseCode_ACN_Encode == [successful |-> 0, unsuccessful |-> 1]
ListingResponseCode_ACN_Decode ==
  [code \in 0 .. 1 |-> <<"successful", "unsuccessful">>[code + 1]]

MessageType_ACN_Encode ==
  [originating_transaction_id |-> 10, directory_listing_request |-> 16,
   directory_listing_response |-> 17]
MessageType_ACN_Decode ==
  [code \in {10, 16, 17} |->
     CASE code = 10 -> "originating_transaction_id"
       [] code = 16 -> "directory_listing_request"
       [] code = 17 -> "directory_listing_response"]

message_identifier == <<99, 102, 100, 112>>      \* "cfdp"

\* The C types of a message to the user.
cfdpOriginatingTransactionId ==
  [kind : {"originating_transaction_id"}, source_entity_id : Seq(Octet),
   transaction_sequence_number : Seq(Octet)]

cfdpDirectoryListingRequest ==
  [kind : {"directory_listing_request"}, directory_name : Seq(Octet),
   directory_file_name : Seq(Octet)]

cfdpDirectoryListingResponse ==
  [kind : {"directory_listing_response"},
   listing_response_code : DOMAIN ListingResponseCode_ACN_Encode,
   directory_name : Seq(Octet), directory_file_name : Seq(Octet)]

cfdpMessageToUser ==
  cfdpOriginatingTransactionId \cup cfdpDirectoryListingRequest
    \cup cfdpDirectoryListingResponse

-----------------------------------------------------------------------------
ListingFileName_IsConstraintValid(name) == Len(name) <= 120

OriginatingTransactionId_IsConstraintValid(m) ==
  /\ EntityId_IsConstraintValid(m.source_entity_id)
  /\ TransactionSequenceNumber_IsConstraintValid(m.transaction_sequence_number)

DirectoryListingRequest_IsConstraintValid(m) ==
  /\ ListingFileName_IsConstraintValid(m.directory_name)
  /\ ListingFileName_IsConstraintValid(m.directory_file_name)

DirectoryListingResponse_IsConstraintValid(m) ==
  /\ m.listing_response_code \in DOMAIN ListingResponseCode_ACN_Encode
  /\ ListingFileName_IsConstraintValid(m.directory_name)
  /\ ListingFileName_IsConstraintValid(m.directory_file_name)

MessageToUser_IsConstraintValid(m) ==
  CASE m.kind = "originating_transaction_id" -> OriginatingTransactionId_IsConstraintValid(m)
    [] m.kind = "directory_listing_request"  -> DirectoryListingRequest_IsConstraintValid(m)
    [] m.kind = "directory_listing_response" -> DirectoryListingResponse_IsConstraintValid(m)

TLV_IsConstraintValid(m) == MessageToUser_IsConstraintValid(m)

-----------------------------------------------------------------------------
OriginatingTransactionId_ACN_Encode(m) ==
  <<OctetOf(<<<<1, 0>>, <<3, cfdp_entity_len_encode(Len(m.source_entity_id))>>,
      <<1, 0>>, <<3, cfdp_entity_len_encode(Len(m.transaction_sequence_number))>>>>)>>
    \o m.source_entity_id \o m.transaction_sequence_number

OriginatingTransactionId_ACN_Decode(o) ==
  LET ids    == cfdp_entity_len_decode(Bits(o[1], 1, 3))
      number == cfdp_entity_len_decode(Bits(o[1], 5, 3))
  IN  IF Bits(o[1], 0, 1) = 0 /\ Bits(o[1], 4, 1) = 0 /\ ids <= 7 /\ number <= 7
      THEN {[kind |-> "originating_transaction_id",
             source_entity_id |-> Slice(o, 2, ids),
             transaction_sequence_number |-> Slice(o, 2 + ids, number)]}
      ELSE {}

DirectoryListingRequest_ACN_Encode(m) ==
  <<Len(m.directory_name)>> \o m.directory_name
    \o <<Len(m.directory_file_name)>> \o m.directory_file_name

DirectoryListingRequest_ACN_Decode(o) ==
  LET name == o[1]
      file == o[2 + name]
  IN  IF name <= 120 /\ file <= 120
      THEN {[kind |-> "directory_listing_request",
             directory_name |-> Slice(o, 2, name),
             directory_file_name |-> Slice(o, 3 + name, file)]}
      ELSE {}

DirectoryListingResponse_ACN_Encode(m) ==
  <<OctetOf(<<<<1, ListingResponseCode_ACN_Encode[m.listing_response_code]>>, <<7, 0>>>>)>>
    \o <<Len(m.directory_name)>> \o m.directory_name
    \o <<Len(m.directory_file_name)>> \o m.directory_file_name

DirectoryListingResponse_ACN_Decode(o) ==
  LET name == o[2]
      file == o[3 + name]
  IN  IF Bits(o[1], 1, 7) = 0 /\ name <= 120 /\ file <= 120
      THEN {[kind |-> "directory_listing_response",
             listing_response_code |-> ListingResponseCode_ACN_Decode[Bits(o[1], 0, 1)],
             directory_name |-> Slice(o, 3, name),
             directory_file_name |-> Slice(o, 4 + name, file)]}
      ELSE {}

MessageToUserWithHeader_ACN_Encode(m) ==
  message_identifier \o <<MessageType_ACN_Encode[m.kind]>> \o
    CASE m.kind = "originating_transaction_id" -> OriginatingTransactionId_ACN_Encode(m)
      [] m.kind = "directory_listing_request"  -> DirectoryListingRequest_ACN_Encode(m)
      [] m.kind = "directory_listing_response" -> DirectoryListingResponse_ACN_Encode(m)

MessageToUserWithHeader_ACN_Decode(o) ==
  LET rest == SubSeq(o, 6, Len(o))
      Message(type) ==
        CASE type = "originating_transaction_id" -> OriginatingTransactionId_ACN_Decode(rest)
          [] type = "directory_listing_request"  -> DirectoryListingRequest_ACN_Decode(rest)
          [] type = "directory_listing_response" -> DirectoryListingResponse_ACN_Decode(rest)
  IN  IF Slice(o, 1, 4) = message_identifier
      THEN UNION {Message(type) : type \in Named(MessageType_ACN_Decode, o[5])}
      ELSE {}

\* The generated code writes the codec of the message out once more here.
TLV_ACN_Encode(m) ==
  LET value == MessageToUserWithHeader_ACN_Encode(m)
  IN  IF TLV_IsConstraintValid(m) THEN {<<2, Len(value)>> \o value} ELSE {}

\* The TLV at a position of the octets of a PDU, and the position after it.
\* The message is decoded from a buffer of its own, zero behind its octets.
TLV_ACN_Decode(octets, at) ==
  LET size  == octets[at + 1]
      there == /\ at + 1 <= Len(octets) /\ octets[at] = 2
               /\ size <= MessageToUserWithHeader_REQUIRED_BYTES
               /\ at + 1 + size <= Len(octets)
      arr   == Slice(octets, at + 2, size)
                 \o Zeros(MessageToUserWithHeader_REQUIRED_BYTES - size)
  IN  IF there
      THEN {[message |-> m, next |-> at + 2 + size] :
              m \in {d \in MessageToUserWithHeader_ACN_Decode(arr) : TLV_IsConstraintValid(d)}}
      ELSE {}
=============================================================================

------------------------------- MODULE CfdpCore -------------------------------
(***************************************************************************)
(* Two entities on a point-to-point link, octet by octet: the core of each  *)
(* takes requests, writes the PDUs of its sender, reads the PDUs that come  *)
(* in, opens its receiver, delivers events by transaction id, and answers a *)
(* directory listing request with a put of its own.                         *)
(*                                                                          *)
(* Of the sender and the receiver machine there is what the core and the    *)
(* wire see of them: whether they are open, for which transaction, and how  *)
(* far a file is sent.  SenderMachine and ReceiverMachine hold the rest.    *)
(***************************************************************************)
EXTENDS TlvCodec, Determinant

CONSTANTS
  Ends,          \* the two entities
  EntityId,      \* entity_id of an end
  Requests,      \* the put requests of the users
  Foreign,       \* PDUs another implementation puts on the link
  Unknown,       \* its datagrams that this profile does not know
  FileChecksum(_),  \* the checksum of a file
  ListingFile,   \* the octets of a dumped directory listing
  Silence,       \* no PDU was received in the last step
  Unread,        \* the messages of a PDU were not looked at
  SegmentSize,   \* FILE_SEGMENT_BUFFER_SIZE
  FirstNumber,   \* bound: the puts of an end before this run
  MaxPuts,       \* bound: the puts of an end in this run
  MaxInFlight    \* bound: datagrams on the link

VARIABLES
  transaction_sequence_number,
  sender,        \* [state, id, transaction] of sender[0]
  receiver,      \* [state, id, is_file_transfer] of receiver[0]
  wire,          \* the datagrams: their octets, and what they stand for
  heard,         \* the PDU that cfdp_core_received_pdu decoded last
  told           \* the listing indications of the last step

vars == <<transaction_sequence_number, sender, receiver, wire, heard, told>>

\* A core in static memory begins with zeros.
NoId == [source_entity_id |-> 0, seq_number |-> 0]
NoTransaction ==
  [source_entity_id |-> 0, seq_number |-> 0, destination_entity_id |-> 0,
   source_filename |-> <<>>, destination_filename |-> <<>>, file |-> <<>>,
   file_position |-> 0, messages |-> <<>>]

\* What is heard of a datagram that does not decode.
Undecodable == [kind |-> "undecodable"]
Other(e) == CHOOSE o \in Ends : o # e

\* strncpy and strlen: a C string ends at its first NUL, and what is copied
\* behind it is NUL.
Truncated(s, n) == IF Len(s) > n THEN SubSeq(s, 1, n) ELSE s
CString(data) ==
  LET nuls == {j \in 1 .. Len(data) : data[j] = 0}
  IN  [i \in 1 .. Len(data) |-> IF \E j \in nuls : j <= i THEN 0 ELSE data[i]]

-----------------------------------------------------------------------------
(***************************************************************************)
(* The PDUs of a transaction.                                               *)
(***************************************************************************)
create_pdu_header(t) ==
  [version |-> 1, direction |-> "toward_receiver",
   transmission_mode |-> "unacknowledged", crc_flag |-> "crc_not_present",
   source_entity_id |-> uint64_to_bytes_big_endian(t.source_entity_id),
   transaction_sequence_number |-> uint64_to_bytes_big_endian(t.seq_number),
   destination_entity_id |-> uint64_to_bytes_big_endian(t.destination_entity_id)]

\* The transaction has no file when one of its names is empty.
IsFileTransfer(t) == t.source_filename # <<>> /\ t.destination_filename # <<>>

MetadataPdu(t) ==
  [pdu_header |-> create_pdu_header(t),
   payload |-> [kind |-> "metadata_pdu", closure_requested |-> "requested",
                checksum_type |-> "modular", file_size |-> Len(t.file),
                source_file_name |-> t.source_filename,
                destination_file_name |-> t.destination_filename]]

\* Mutant: the last segment is not cut at the end of the file.
WholeSegment(t) == SegmentSize

\* transaction_get_file_segment
SegmentLength(t) ==
  LET left == Len(t.file) - t.file_position
  IN  IF left > SegmentSize THEN SegmentSize ELSE left

FileDataPdu(t) ==
  [pdu_header |-> create_pdu_header(t),
   payload |-> [kind |-> "file_data_pdu", segment_offset |-> t.file_position,
                file_data |-> CString(
                  Slice(t.file \o Zeros(SegmentSize), t.file_position + 1, SegmentLength(t)))]]

EofPdu(t, code) ==
  [pdu_header |-> create_pdu_header(t),
   payload |-> [kind |-> "eof_pdu", condition_code |-> code,
                file_checksum |-> IF t.source_filename = <<>> THEN 0 ELSE FileChecksum(t.file),
                file_size |-> Len(t.file)]]

\* The TLV of a message.  The originating transaction id is not taken from the
\* message: it is the sender's own.
MessageTlv(t, m) ==
  CASE m.message_to_user_type = "DIRECTORY_LISTING_REQUEST" ->
         [kind |-> "directory_listing_request", directory_name |-> m.directory_name,
          directory_file_name |-> m.directory_file_name]
    [] m.message_to_user_type = "DIRECTORY_LISTING_RESPONSE" ->
         [kind |-> "directory_listing_response",
          listing_response_code |-> m.listing_response_code,
          directory_name |-> m.directory_name,
          directory_file_name |-> m.directory_file_name]
    [] m.message_to_user_type = "ORIGINATING_TRANSACTION_ID" ->
         [kind |-> "originating_transaction_id",
          source_entity_id |-> uint64_to_bytes_big_endian(t.source_entity_id),
          transaction_sequence_number |-> uint64_to_bytes_big_endian(t.seq_number)]

\* The messages follow the PDU, up to the first that cannot be encoded.  The
\* length in the header does not count them.
AppendMessages(octets, tlvs) ==
  LET appended[i \in 0 .. Len(tlvs)] ==
        IF i = 0 THEN [octets |-> octets, ok |-> TRUE]
        ELSE LET tlv == TLV_ACN_Encode(tlvs[i])
             IN  IF appended[i-1].ok /\ tlv # {}
                 THEN [octets |-> appended[i-1].octets \o CHOOSE o \in tlv : TRUE,
                       ok |-> TRUE]
                 ELSE [appended[i-1] EXCEPT !.ok = FALSE]
  IN  appended[Len(tlvs)].octets

\* What goes on the link for a PDU: a datagram, or none when it cannot be encoded.
Transmit(e, pdu, tlvs) ==
  {[to |-> Other(e), pdu |-> pdu, messages |-> tlvs,
    octets |-> IF pdu.payload.kind = "file_data_pdu"
               THEN RemoveDeterminant(encoded, Len(pdu.payload.file_data))
               ELSE AppendMessages(encoded, tlvs)] :
     encoded \in CfdpPDU_ACN_Encode(pdu)}

Tlvs(t) == [i \in 1 .. Len(t.messages) |-> MessageTlv(t, t.messages[i])]
SendMetadata(e, t)  == Transmit(e, MetadataPdu(t), Tlvs(t))
SendFileData(e, t)  == Transmit(e, FileDataPdu(t), <<>>)
SendEof(e, t, code) == Transmit(e, EofPdu(t, code), <<>>)

-----------------------------------------------------------------------------
(***************************************************************************)
(* The C types of a request and of its transaction.                         *)
(***************************************************************************)
MAX_NUMBER_OF_MESSAGES_TO_USER == 2
Messages(S) == {s \in Seq(S) : Len(s) <= MAX_NUMBER_OF_MESSAGES_TO_USER}

directory_name == {name \in Seq(Octet) : ListingFileName_IsConstraintValid(name)}
message_to_user ==
  [message_to_user_type : {"DIRECTORY_LISTING_REQUEST"},
   directory_name : directory_name, directory_file_name : directory_name]
  \cup [message_to_user_type : {"DIRECTORY_LISTING_RESPONSE"},
        listing_response_code : DOMAIN ListingResponseCode_ACN_Encode,
        directory_name : directory_name, directory_file_name : directory_name]
  \cup [message_to_user_type : {"ORIGINATING_TRANSACTION_ID"},
        source_entity_id : Nat, seq_number : Nat]

\* The messages that a TLV can hold.
ValidMessage == {m \in cfdpMessageToUser : TLV_IsConstraintValid(m)}

\* A file whose size and checksum have 32 bits.
File == {f \in Seq(Octet) : Len(f) \in uint32_t /\ FileChecksum(f) \in uint32_t}

PutRequest ==
  [end : Ends, destination_entity_id : uint32_t, source_filename : Seq(Octet),
   destination_filename : Seq(Octet), file : File, messages : Messages(message_to_user)]

-----------------------------------------------------------------------------
(***************************************************************************)
(* A put.  It overwrites the sender, whatever it is doing.  The result says *)
(* what becomes of the sender and what goes on the link.                    *)
(***************************************************************************)
Transaction(e, number, r) ==
  [source_entity_id |-> EntityId[e], seq_number |-> number,
   destination_entity_id |-> r.destination_entity_id,
   source_filename |-> Truncated(r.source_filename, 127),
   destination_filename |-> Truncated(r.destination_filename, 127),
   file |-> r.file, file_position |-> 0, messages |-> r.messages]

IdOf(t) == [source_entity_id |-> t.source_entity_id, seq_number |-> t.seq_number]

\* Without a file the EOF follows the Metadata at once; a Metadata PDU that cannot
\* be encoded ends the transaction.
Opened(e, t, metadata) ==
  LET stays == metadata # {} /\ IsFileTransfer(t)
  IN  [sender |-> [state |-> IF stays THEN "SEND_FILE" ELSE "COMPLETED",
                   id |-> IdOf(t), transaction |-> t],
       number |-> t.seq_number,
       out |-> metadata \cup (IF metadata = {} \/ stays THEN {}
                              ELSE SendEof(e, t, "no_error"))]

cfdp_core_put(e, number, r) ==
  LET t == Transaction(e, number, r)
  IN  Opened(e, t, SendMetadata(e, t))

Put(r) ==
  LET e == r.end
  IN \E put \in {cfdp_core_put(e, transaction_sequence_number[e] + 1, r)} :
      /\ transaction_sequence_number' = [transaction_sequence_number EXCEPT ![e] = put.number]
      /\ sender' = [sender EXCEPT ![e] = put.sender]
      /\ wire' = wire \cup put.out
      /\ heard' = IF put.out # {} THEN Silence
                  ELSE [at |-> e, pdu |-> MetadataPdu(put.sender.transaction),
                        messages |-> Unread]
      /\ told' = <<>>
      /\ UNCHANGED receiver

\* cfdp_core_transport_is_ready_callback; the transport takes one PDU at a time.
TransportIsReady(e) ==
  LET t    == sender[e].transaction
      done == t.file_position >= Len(t.file)
  IN  /\ sender[e].state = "SEND_FILE"
      /\ \E out \in {IF done THEN SendEof(e, t, "no_error") ELSE SendFileData(e, t)} :
           /\ wire' = wire \cup out
           /\ sender' = IF done \/ out = {}
                        THEN [sender EXCEPT ![e].state = "COMPLETED"]
                        ELSE [sender EXCEPT ![e].transaction.file_position =
                                @ + SegmentLength(t)]
      /\ heard' = Silence /\ told' = <<>>
      /\ UNCHANGED <<transaction_sequence_number, receiver>>

\* Mutant: requests are routed by sequence number alone.
RouteBySequenceNumber(e, id) ==
  IF id.seq_number = sender[e].id.seq_number THEN "sender"
  ELSE IF id = receiver[e].id THEN "receiver" ELSE "none"

\* cfdp_core_issue_request: the sender is asked first, open or not.
cfdp_core_issue_request(e, id) ==
  IF id = sender[e].id THEN "sender"
  ELSE IF id = receiver[e].id THEN "receiver" ELSE "none"

\* E33 with E3 in its wake: the sender says so in an EOF PDU.
cfdp_core_cancel(e, id) ==
  LET route == cfdp_core_issue_request(e, id)
      sends == route = "sender" /\ sender[e].state = "SEND_FILE"
  IN  /\ sender' = IF sends THEN [sender EXCEPT ![e].state = "COMPLETED"] ELSE sender
      /\ receiver' = IF route = "receiver"
                     THEN [receiver EXCEPT ![e].state = "COMPLETED"] ELSE receiver
      /\ wire' = wire \cup IF sends THEN SendEof(e, sender[e].transaction,
                                                 "cancel_request_received")
                           ELSE {}
      /\ heard' = Silence /\ told' = <<>>
      /\ UNCHANGED transaction_sequence_number

\* A user may name any transaction: its own, one it receives, one of the other.
KnownIds == {sender[e].id : e \in Ends} \cup {receiver[e].id : e \in Ends}

\* The fault handler of the timer is a cancel request for the receiver's id.
Timeout(e) ==
  receiver[e].state # "COMPLETED" /\ cfdp_core_cancel(e, receiver[e].id)

-----------------------------------------------------------------------------
(***************************************************************************)
(* A datagram arrives.                                                      *)
(***************************************************************************)
\* The decoder leaves the last octet of file data out of account: it is copied.
WithLastOctet(pdu, buf) ==
  IF pdu.payload.kind = "file_data_pdu" /\ pdu.payload.file_data # <<>>
  THEN [pdu EXCEPT !.payload.file_data[Len(pdu.payload.file_data)] = buf[Len(buf)]]
  ELSE pdu

ReadPdu(octets) ==
  LET buf == AddDeterminant(octets)
  IN  {WithLastOctet(pdu, buf) : pdu \in CfdpPDU_ACN_Decode(buf)}

\* At most two messages are read, up to the first that does not decode.
decode_tlv_from_metadata_pdu(pdu, octets) ==
  LET h == pdu.pdu_header
      start == 1 + 5 + Len(h.source_entity_id) + Len(h.destination_entity_id)
                 + Len(h.transaction_sequence_number) + 7
                 + Len(pdu.payload.source_file_name)
                 + Len(pdu.payload.destination_file_name)
      read[i \in 0 .. 2] ==
        IF i = 0 THEN [next |-> start, messages |-> <<>>]
        ELSE LET tlv == IF read[i-1].next > Len(octets) THEN {}
                        ELSE TLV_ACN_Decode(octets, read[i-1].next)
                 got == CHOOSE t \in tlv : TRUE
             IN  IF tlv = {} THEN [read[i-1] EXCEPT !.next = Len(octets) + 1]
                 ELSE [next |-> got.next, messages |-> Append(read[i-1].messages, got.message)]
  IN  read[2].messages

\* The fields of a transaction id have 32 bits: of a longer identifier they keep
\* the last four octets.
LastOctets(octets) ==
  IF Len(octets) > 4 THEN Slice(octets, Len(octets) - 3, 4) ELSE octets

TransactionId(h) ==
  [source_entity_id |-> bytes_to_ulong(LastOctets(h.source_entity_id)),
   seq_number |-> bytes_to_ulong(LastOctets(h.transaction_sequence_number))]

\* add_message_to_user_to_transaction: a response is stored through the layout
\* of a request, so that the length of its directory name lands on its code.
StoredListingResponseCode(m) ==
  IF m.listing_response_code = "successful" THEN 0 ELSE Len(m.directory_name)

\* The codes LISTING_SUCCESSFUL and LISTING_UNSUCCESSFUL; others tell nothing.
ListingIndication(m) ==
  CASE StoredListingResponseCode(m) = 0 -> <<"SUCCESSFUL_LISTING_INDICATION">>
    [] StoredListingResponseCode(m) = 1 -> <<"UNSUCCESSFUL_LISTING_INDICATION">>
    [] OTHER -> <<>>

\* The put that answers a listing request: to the entity itself.
ListingResponse(e, id, m) ==
  [end |-> e, destination_entity_id |-> EntityId[e],
   source_filename |-> <<46, 108, 105, 115, 116, 105, 110, 103>>,
   destination_filename |-> m.directory_file_name, file |-> ListingFile,
   messages |->
     <<[message_to_user_type |-> "DIRECTORY_LISTING_RESPONSE",
        listing_response_code |-> "successful",
        directory_name |-> m.directory_name,
        directory_file_name |-> m.directory_file_name],
       [message_to_user_type |-> "ORIGINATING_TRANSACTION_ID",
        source_entity_id |-> id.source_entity_id, seq_number |-> id.seq_number]>>]

-----------------------------------------------------------------------------
(***************************************************************************)
(* What a PDU does to the end that receives it.  works is the number of     *)
(* calls that the filestore serves before it fails one.                     *)
(***************************************************************************)
Unchanged(e) ==
  [sender |-> sender[e], receiver |-> receiver[e],
   number |-> transaction_sequence_number[e], out |-> {}, told |-> <<>>, ok |-> TRUE]

\* A put within the call: it takes the sender over.
After(before, put) ==
  [before EXCEPT !.sender = put.sender, !.number = put.number, !.out = @ \cup put.out]

\* Each listing request is answered with a put.
transaction_process_messages_to_user(e, id, messages, works) ==
  LET answered[i \in 0 .. Len(messages)] ==
        IF i = 0 THEN Unchanged(e)
        ELSE LET before == answered[i-1]
                 m      == messages[i]
             IN  CASE ~before.ok -> before
                   [] before.ok /\ m.kind = "directory_listing_request" ->
                        IF i <= works
                        THEN After(before, cfdp_core_put(e, before.number + 1,
                                                         ListingResponse(e, id, m)))
                        ELSE [before EXCEPT !.ok = FALSE]
                   [] before.ok /\ m.kind = "directory_listing_response" ->
                        [before EXCEPT !.told = @ \o ListingIndication(m)]
                   [] OTHER -> before
  IN  answered[Len(messages)]

MetadataServed(r, done) ==
  [done EXCEPT !.receiver =
     [r EXCEPT !.state = IF done.ok THEN "WAIT_FOR_EOF" ELSE "COMPLETED"]]

\* A PDU the machine does not expect in its state is an error and changes
\* nothing.  An EOF closes it: ReceiverMachine says with what.
deliver_pdu_to_receiver_machine(e, r, pdu, messages, works) ==
  LET kind == pdu.payload.kind
      In(state) == [r EXCEPT !.state = state]
  IN  CASE r.state = "WAIT_FOR_MD" /\ kind = "metadata_pdu" ->
             MetadataServed(r, transaction_process_messages_to_user(e, r.id, messages, works))
        [] r.state = "WAIT_FOR_EOF" /\ kind = "file_data_pdu" ->
             [Unchanged(e) EXCEPT !.receiver =
                In(IF r.is_file_transfer /\ works = 0 THEN "COMPLETED" ELSE "WAIT_FOR_EOF")]
        [] kind = "eof_pdu" -> [Unchanged(e) EXCEPT !.receiver = In("COMPLETED")]
        [] OTHER -> [Unchanged(e) EXCEPT !.receiver = r]

\* Mutant: PDUs of the acknowledged mode are not turned away.
AcceptsAnyMode(pdu) == TRUE

AcceptsMode(pdu) == pdu.pdu_header.transmission_mode # "acknowledged"

\* The machine a PDU is for.  An open sender knows no PDU: an error, no change.
Route(e, pdu) ==
  LET IsFor(machine) == machine.state # "COMPLETED"
                          /\ machine.id = TransactionId(pdu.pdu_header)
  IN  IF ~AcceptsMode(pdu) THEN "none"
      ELSE IF IsFor(sender[e]) THEN "sender"
      ELSE IF IsFor(receiver[e]) THEN "receiver"
      ELSE "new receiver"

\* The kinds of PDU that may open a transaction.
Opens(pdu) ==
  /\ pdu.pdu_header.direction # "toward_sender"
  /\ pdu.payload.kind \in {"metadata_pdu", "eof_pdu", "file_data_pdu"}

\* Only the Metadata that opens a transaction has its names and messages read.
MessagesRead(e, pdu, octets) ==
  IF Route(e, pdu) = "new receiver" /\ Opens(pdu) /\ pdu.payload.kind = "metadata_pdu"
  THEN decode_tlv_from_metadata_pdu(pdu, octets) ELSE Unread

NewReceiver(pdu) ==
  [state |-> "WAIT_FOR_MD", id |-> TransactionId(pdu.pdu_header),
   is_file_transfer |-> /\ pdu.payload.kind = "metadata_pdu"
                        /\ pdu.payload.source_file_name # <<>>
                        /\ pdu.payload.destination_file_name # <<>>]

handle_pdu_to_new_receiver_machine(e, pdu, messages, works) ==
  IF Opens(pdu)
  THEN deliver_pdu_to_receiver_machine(
         e, NewReceiver(pdu), pdu, IF messages = Unread THEN <<>> ELSE messages, works)
  ELSE Unchanged(e)

cfdp_core_received_pdu(e, pdu, messages, works) ==
  CASE Route(e, pdu) = "receiver" ->
         deliver_pdu_to_receiver_machine(e, receiver[e], pdu, <<>>, works)
    [] Route(e, pdu) = "new receiver" ->
         handle_pdu_to_new_receiver_machine(e, pdu, messages, works)
    [] OTHER -> Unchanged(e)

\* The network may deliver the datagram once more.
Arrives(d, out) == wire' \in {wire \cup out, (wire \ {d}) \cup out}

\* The calls to the filestore that a PDU may cause.
FilestoreCalls(pdu, messages) ==
  IF messages # Unread THEN Len(messages)
  ELSE IF pdu.payload.kind = "file_data_pdu" THEN 1 ELSE 0

ReceivePdu(d, pdu, messages) ==
  \E after \in {cfdp_core_received_pdu(d.to, pdu, messages, works) :
                  works \in 0 .. FilestoreCalls(pdu, messages)} :
    /\ sender' = [sender EXCEPT ![d.to] = after.sender]
    /\ receiver' = [receiver EXCEPT ![d.to] = after.receiver]
    /\ transaction_sequence_number' =
         [transaction_sequence_number EXCEPT ![d.to] = after.number]
    /\ heard' = [at |-> d.to, pdu |-> pdu, messages |-> messages]
    /\ told' = after.told
    /\ Arrives(d, after.out)

\* cfdpCfdpPDU_ACN_Decode fails: an error, and nothing else.
ReceiveUndecodable(d) ==
  /\ heard' = [at |-> d.to, pdu |-> [d.pdu EXCEPT !.payload = Undecodable],
               messages |-> Unread]
  /\ told' = <<>>
  /\ Arrives(d, {})
  /\ UNCHANGED <<transaction_sequence_number, sender, receiver>>

Receive(d) ==
  \E pdus \in {ReadPdu(d.octets)} :
    \/ \E pdu \in pdus : ReceivePdu(d, pdu, MessagesRead(d.to, pdu, d.octets))
    \/ pdus = {} /\ ReceiveUndecodable(d)

Lose(d) ==
  /\ wire' = wire \ {d}
  /\ heard' = Silence /\ told' = <<>>
  /\ UNCHANGED <<transaction_sequence_number, sender, receiver>>

\* Another implementation may put its datagrams on the link at any time.
ForeignDatagrams ==
  (UNION {Transmit(Other(f.end), f.pdu, f.messages) : f \in Foreign}) \cup Unknown

-----------------------------------------------------------------------------
\* The link joins two ends, and each has an id of its own.
ASSUME EndsAssumption ==
  /\ \E a, b \in Ends : a # b /\ Ends = {a, b}
  /\ EntityId \in [Ends -> uint32_t \ {0}]
  /\ \A e, o \in Ends : EntityId[e] = EntityId[o] => e = o

ASSUME RequestsAssumption == Requests \subseteq PutRequest /\ ListingFile \in File

\* No sequence number wraps: a step makes two puts at most.
ASSUME BoundsAssumption ==
  /\ SegmentSize \in 1 .. 4096
  /\ FirstNumber \in Nat /\ MaxPuts \in [Ends -> Nat]
  /\ \A e \in Ends : FirstNumber + MaxPuts[e] + 2 \in uint32_t

\* Another implementation sends what the C types hold, and opens no transaction in
\* the name of the end it sends to or of no entity at all.
ASSUME ForeignAssumption ==
  /\ Foreign \subseteq [end : Ends, pdu : cfdpCfdpPDU, messages : Messages(ValidMessage)]
  /\ \A f \in Foreign :
       f.pdu.pdu_header.direction # "toward_sender" =>
         TransactionId(f.pdu.pdu_header).source_entity_id \notin {0, EntityId[f.end]}

\* What this profile does not know has a header of CFDP.
ASSUME UnknownAssumption ==
  /\ Unknown \subseteq [to : Ends, messages : {Unread}, octets : Seq(Octet),
                        pdu : [pdu_header : cfdpPDUHeader, payload : {Undecodable}]]
  /\ \A u \in Unknown :
       /\ ReadPdu(u.octets) = {}
       /\ PDUHeader_IsConstraintValid(u.pdu.pdu_header)
       /\ CfdpPDU_EqualIdLengths(u.pdu.pdu_header)

-----------------------------------------------------------------------------
Init ==
  /\ transaction_sequence_number = [e \in Ends |-> FirstNumber]
  /\ sender = [e \in Ends |-> [state |-> "COMPLETED", id |-> NoId, transaction |-> NoTransaction]]
  /\ receiver = [e \in Ends |-> [state |-> "COMPLETED", id |-> NoId, is_file_transfer |-> FALSE]]
  /\ wire = {} /\ heard = Silence /\ told = <<>>

Step ==
  \/ \E r \in Requests : Put(r)
  \/ \E e \in Ends : TransportIsReady(e) \/ Timeout(e)
  \/ \E e \in Ends, id \in KnownIds : cfdp_core_cancel(e, id)
  \/ \E d \in wire \cup ForeignDatagrams : Receive(d)
  \/ \E d \in wire : Lose(d)

WithinBounds ==
  /\ Cardinality(wire') <= MaxInFlight
  /\ \A e \in Ends : transaction_sequence_number'[e] <= FirstNumber + MaxPuts[e]

Next == Step /\ WithinBounds

Spec == Init /\ [][Next]_vars

-----------------------------------------------------------------------------
\* Types, and what goes with them: a sender's id is its transaction's, it never
\* reads behind the end of its file, and only octets go on the link.
TypeOK ==
  /\ DOMAIN transaction_sequence_number = Ends
  /\ \A e \in Ends :
       /\ transaction_sequence_number[e] \in FirstNumber .. FirstNumber + MaxPuts[e]
       /\ sender[e].state \in {"SEND_FILE", "COMPLETED"}
       /\ receiver[e].state \in {"WAIT_FOR_MD", "WAIT_FOR_EOF", "COMPLETED"}
       /\ receiver[e].is_file_transfer \in BOOLEAN
       /\ sender[e].id = IdOf(sender[e].transaction)
       /\ sender[e].transaction.file_position \in 0 .. Len(sender[e].transaction.file)
  /\ \A d \in wire :
       d.to \in Ends /\ \A i \in 1 .. Len(d.octets) : d.octets[i] \in Octet
  /\ heard = Silence \/ heard.at \in Ends

\* Writing a PDU to octets, adding and removing the determinant, appending the
\* messages and reading it all again keeps every PDU as it was: the octets on
\* the link implement a channel of PDUs, and a put is refused only when its ids
\* do not fit the header.
Channel == INSTANCE PduChannel
  WITH channel <- {[to |-> d.to, pdu |-> d.pdu, messages |-> d.messages] :
                      d \in wire \cup ForeignDatagrams}
ImplementsChannel == Channel!Spec

\* The length in the header spans the PDU to its last octet, determinant or not,
\* and stops before the messages to the user.
LengthSpansPdu ==
  \A d \in wire :
    LET l   == CfdpPDU_Layout(d.octets)
        end == l.payload_at - 1 + l.pdu_data_field_length
    IN  IF d.messages = <<>> THEN end = Len(d.octets) ELSE end < Len(d.octets)

\* PDUs of the acknowledged class are turned away: they open, move and close no
\* machine, send nothing and tell the user nothing, at whatever moment they come.
IsClass2(pdu) ==
  \/ pdu.pdu_header.transmission_mode = "acknowledged"
  \/ pdu.payload.kind \in {"finished_pdu", "ack_pdu"}
Class2Refused ==
  [][heard' # Silence /\ IsClass2(heard'.pdu) =>
       /\ UNCHANGED <<transaction_sequence_number, sender, receiver>>
       /\ wire' \subseteq wire /\ told' = <<>>]_vars

\* A cancel request, the user's or the timer's, ends the machine of its end that
\* works for the transaction it names, and touches no other, though both ends
\* give their transactions the same numbers and both machines take requests.
CancelEndsWhatItNames ==
  [][\A e \in Ends, id \in KnownIds :
       heard' = Silence /\ cfdp_core_cancel(e, id) =>
         /\ sender[e].id = id => sender'[e].state = "COMPLETED"
         /\ receiver[e].id = id => receiver'[e].state = "COMPLETED"
         /\ \A o \in Ends :
              /\ o # e \/ sender[o].id # id => UNCHANGED sender[o]
              /\ o # e \/ receiver[o].id # id => UNCHANGED receiver[o]]_vars

\* constants.h has an indication for each outcome of a listing request: the user
\* is told the one that the response says.
IndicationFor ==
  [successful |-> "SUCCESSFUL_LISTING_INDICATION",
   unsuccessful |-> "UNSUCCESSFUL_LISTING_INDICATION"]
ListingIndicationMatches ==
  heard # Silence /\ heard.messages # Unread =>
    \A i \in DOMAIN heard.messages :
      heard.messages[i].kind = "directory_listing_response" =>
        \E j \in DOMAIN told :
          told[j] = IndicationFor[heard.messages[i].listing_response_code]
=============================================================================

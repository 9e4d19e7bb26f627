----------------------------- MODULE MCCfdpCore -----------------------------
(***************************************************************************)
(* An instance of CfdpCore for TLC: an end with requests, an end that       *)
(* answers listings, and the lengths at which an octet is carried over.     *)
(***************************************************************************)
EXTENDS CfdpCore

MCEnds == {"A", "B"}
MCEntityId == [e \in MCEnds |-> IF e = "A" THEN 1 ELSE 3]
MCFileChecksum(file) == IF file = <<>> THEN 0 ELSE 65536 * file[1] + Len(file)
MCListingFile == <<100, 10>>

MCMaxPuts == [e \in MCEnds |-> IF e = "A" THEN 2 ELSE 1]

\* A segment that with its determinant makes a payload of 257 octets, and
\* without it one of 255.
Letters(n) == [i \in 1 .. n |-> 65 + (i % 26)]
Ask == [message_to_user_type |-> "DIRECTORY_LISTING_REQUEST",
        directory_name |-> <<100, 47>>, directory_file_name |-> <<108>>]
Request(destination, source_filename, destination_filename, file, messages) ==
  [end |-> "A", destination_entity_id |-> destination,
   source_filename |-> source_filename, destination_filename |-> destination_filename,
   file |-> file, messages |-> messages]

MCRequests == {
  Request(3, <<97>>, <<98, 98>>, Letters(251), <<>>),
  Request(3, <<>>, <<>>, <<>>, <<Ask>>),
  Request(300, <<>>, <<>>, <<>>, <<>>)}

Header(direction, mode, source, number, destination) ==
  [version |-> 1, direction |-> direction, transmission_mode |-> mode,
   crc_flag |-> "crc_not_present", source_entity_id |-> <<source>>,
   transaction_sequence_number |-> number, destination_entity_id |-> <<destination>>]

EmptyMetadata ==
  [kind |-> "metadata_pdu", closure_requested |-> "not_requested", checksum_type |-> "none",
   file_size |-> 0, source_file_name |-> <<>>, destination_file_name |-> <<>>]

MCForeign == {
  [end |-> "B", messages |-> <<>>,
   pdu |-> [pdu_header |-> Header("toward_receiver", "acknowledged", 1, <<255>>, 3),
            payload |-> EmptyMetadata]],
  [end |-> "B", messages |-> <<>>,
   pdu |-> [pdu_header |-> Header("toward_receiver", "unacknowledged", 1, <<255>>, 3),
            payload |-> [kind |-> "ack_pdu", directive_code_of_ack_pdu |-> 5,
                         directive_subtype_code |-> "ack_finished",
                         condition_code |-> "no_error", transaction_status |-> "active"]]],
  [end |-> "A", messages |-> <<>>,
   pdu |-> [pdu_header |-> Header("toward_sender", "unacknowledged", 1, <<255>>, 3),
            payload |-> [kind |-> "finished_pdu", condition_code |-> "file_size_error",
                         delivery_code |-> "data_incomplete", file_status |-> "unreported"]]]}

\* A NAK PDU: a header this profile reads and a directive it does not.
MCUnknown == {
  [to |-> "A", messages |-> Unread,
   pdu |-> [pdu_header |-> Header("toward_sender", "unacknowledged", 1, <<255>>, 3),
            payload |-> Undecodable],
   octets |-> <<44, 0, 9, 0, 1, 255, 3, 8, 0, 0, 0, 0, 0, 0, 0, 0>>]}

\* Responses to a listing request, for a name of one octet and one of two.
Response(code, name) ==
  [end |-> "A",
   pdu |-> [pdu_header |-> Header("toward_receiver", "unacknowledged", 3, <<7>>, 1),
            payload |-> EmptyMetadata],
   messages |-> <<[kind |-> "directory_listing_response", listing_response_code |-> code,
                   directory_name |-> name, directory_file_name |-> <<108>>]>>]
MCResponses == {Response(code, name) : code \in {"successful", "unsuccessful"},
                                       name \in {<<100>>, <<100, 47>>}}
=============================================================================

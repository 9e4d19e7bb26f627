--------------------------- MODULE SenderMachine ---------------------------
(***************************************************************************)
(* The sending half of an entity: core->sender[0], driven by the requests   *)
(* of the user (cfdp_core_put, cancel, suspend, resume), by the link state  *)
(* procedures (freeze, thaw), by the fault handler and by the transport,    *)
(* with the source files and the listing buffer it reads.                   *)
(*                                                                          *)
(* The library runs every request to its end in the caller's context, so a  *)
(* request is one step.  The exception is E1_SEND_FILE_DATA, which issues    *)
(* itself again once for every segment: between two activations the core    *)
(* asks the transport whether it is ready, the files it reads may change,   *)
(* and a PDU has left.  `call' says where such a running call has got to;   *)
(* no request is served before it returns.                                  *)
(***************************************************************************)
EXTENDS CfdpTypes, FiniteSets

CONSTANTS
  entity_id,          \* the entity's own id
  Destinations,       \* entity ids a file may be sent to
  Encodable,          \* those whose id has as many octets as the own one
  SourceFiles,        \* names of files in the filestore
  TargetFiles,        \* names a file may get at the destination
  Contents,           \* what a source file may contain
  Listings,           \* texts of directory listings
  MaxFileData,        \* dataview.asn: maximum size of FileData, in words
  CFDP_ALIGNMENT_SIZE,\* alignment of the buffers, in words
  checksum_type,      \* the entity's checksum type
  MaxPuts,            \* bound: transactions opened
  MaxSuspensions      \* bound: suspensions of one transaction

ASSUME SenderAssumption ==
  /\ Encodable \subseteq Destinations
  /\ entity_id \in Encodable
  /\ {NoName, VIRTUAL_LISTING_FILENAME} \cap SourceFiles = {}
  /\ Contents \subseteq Seq(Word)
  /\ Listings \subseteq Seq(Word \ {0})
  /\ MaxFileData \in Nat \ {0}
  /\ CFDP_ALIGNMENT_SIZE \in Nat \ {0}
  /\ checksum_type \in ChecksumTypes
  /\ MaxPuts \in Nat                  \* far below 2^32: the number never wraps
  /\ MaxSuspensions \in Nat

VARIABLES
  sender,                       \* core->sender[0] with its transaction
  transaction_sequence_number,  \* core->transaction_sequence_number
  call,                         \* what the running call does next, or "idle"
  depth,                        \* nested activations of E1_SEND_FILE_DATA
  store,                        \* the source files
  listing,                      \* core->virtual_source_file_{data,size}
  wire,                         \* PDUs the transport accepted
  indications,                  \* per transaction: how often each was issued
  errors,                       \* errors issued, with the transaction at work
  owed                          \* the transport owes a call: it was not ready

vars == <<sender, transaction_sequence_number, call, depth, store, listing,
          wire, indications, errors, owed>>

Ids == 1 .. MaxPuts
SourceNames == SourceFiles \cup {NoName, VIRTUAL_LISTING_FILENAME}
TargetNames == TargetFiles \cup {NoName}
Indications == {"TRANSACTION", "EOF_SENT", "FINISHED", "ABANDONED",
                "SUSPENDED", "RESUMED"}
Calls == {"idle", "send_file_data", "send_eof"}

-----------------------------------------------------------------------------
(***************************************************************************)
(* The file of a transaction.                                               *)
(***************************************************************************)
CFDP_ALIGN(size) ==
  ((size + CFDP_ALIGNMENT_SIZE - 1) \div CFDP_ALIGNMENT_SIZE) * CFDP_ALIGNMENT_SIZE

\* Mutant: the determinant of the octet string counts as file data.
BufferWithDeterminant == CFDP_ALIGN(MaxFileData + 1)

FILE_SEGMENT_BUFFER_SIZE == CFDP_ALIGN(MaxFileData)

IsListing(t) == t.source_filename = VIRTUAL_LISTING_FILENAME

\* The words the core reads for t: none, the listing buffer or a file.
FileWords(t) ==
  IF t.source_filename = NoName THEN <<>>
  ELSE IF IsListing(t) THEN SubSeq(listing.data, 1, t.virtual_source_file_size)
  ELSE store[t.source_filename]

transaction_get_file_size(t) == Len(FileWords(t))

transaction_get_file_checksum(t) == Checksum(FileWords(t), checksum_type)

\* Mutants: one word short of the end; one comparison too strict.
CompleteTooEarly(t) == t.file_position + 1 >= t.file_size
CompleteTooLate(t) == t.file_position > t.file_size

transaction_is_file_send_complete(t) == t.file_position >= t.file_size

\* Mutant: what is left of the file, subtracted the wrong way round.
SegmentLengthSwapped(t) ==
  IF t.file_size - t.file_position > FILE_SEGMENT_BUFFER_SIZE
  THEN FILE_SEGMENT_BUFFER_SIZE
  ELSE t.file_position - t.file_size

SegmentLength(t) ==
  IF t.file_size - t.file_position > FILE_SEGMENT_BUFFER_SIZE
  THEN FILE_SEGMENT_BUFFER_SIZE
  ELSE t.file_size - t.file_position

\* A file that has become shorter than it was cannot be read to the old end.
Readable(t) == t.file_position + SegmentLength(t) <= Len(FileWords(t))

\* What strncpy leaves of a segment: from the first NUL on everything is NUL.
AsCString(words) ==
  [i \in DOMAIN words |-> IF \E j \in 1 .. i : words[j] = 0 THEN 0 ELSE words[i]]

\* Mutant: every segment is read from the start of the file.
SegmentFromStart(t) == SubSeq(FileWords(t), 1, SegmentLength(t))

transaction_get_file_segment(t) ==
  SubSeq(FileWords(t), t.file_position + 1, t.file_position + SegmentLength(t))

\* A dump overwrites the listing buffer from its start, terminating NUL included.
Dumped(text) ==
  LET written == Append(text, 0)
  IN  [i \in 1 .. (IF Len(written) > Len(listing.data) THEN Len(written)
                                                       ELSE Len(listing.data)) |->
         IF i <= Len(written) THEN written[i] ELSE listing.data[i]]

-----------------------------------------------------------------------------
(***************************************************************************)
(* Effects shared by the handlers.                                          *)
(***************************************************************************)
\* Mutant: the link state is forgotten.
HeldBySuspensionOnly == sender.is_suspended

Held == sender.is_suspended \/ sender.is_frozen

\* Mutant: a closed machine still serves requests.
ToAnySender(id) == call = "idle" /\ id = sender.id

\* cfdp_core_is_request_to_sender, for a request the machine does not ignore.
ToActiveSender(id) ==
  /\ call = "idle"
  /\ id = sender.id
  /\ sender.state = "SEND_FILE"

Indicate(id, kinds) ==
  indications' = [indications EXCEPT ![id] =
                    [k \in Indications |-> IF k \in kinds THEN @[k] + 1 ELSE @[k]]]

IssueError(id, type) == errors' = errors \cup {<<id, type>>}

\* The record of a transaction that the machine has closed.
Close(s) == [s EXCEPT !.state = "COMPLETED"]

\* Mutant: the EOF does not tell that the transaction was cancelled.
EofWithoutError(s) == EofPdu(s.id, "no_error", transaction_get_file_checksum(s),
                             transaction_get_file_size(s))

\* The EOF of the current transaction, which reads size and checksum again.
Eof(s) == EofPdu(s.id, s.condition_code, transaction_get_file_checksum(s),
                 transaction_get_file_size(s))
SizeRead(s) == [s EXCEPT !.file_size = transaction_get_file_size(s)]

Return == call' = "idle" /\ depth' = 0
StartSending == call' = "send_file_data" /\ depth' = 1

UnchangedFiles == UNCHANGED <<store, listing>>
UnchangedOutput == UNCHANGED <<wire, indications, errors>>

-----------------------------------------------------------------------------
(***************************************************************************)
(* cfdp_core_put, up to and including the Metadata PDU.                      *)
(***************************************************************************)
\* sender_machine_init, and the file size read for the Metadata PDU.  Nothing
\* is asked of the transaction the machine may still be busy with.
NewSender(id, dest, src, dst, virtual_size) ==
  [state |-> "SEND_METADATA", id |-> id,
   destination |-> dest, source_filename |-> src, destination_filename |-> dst,
   virtual_source_file_size |-> virtual_size,
   file_size |-> 0, file_position |-> 0,
   condition_code |-> "no_error", is_frozen |-> FALSE, is_suspended |-> FALSE]

MetadataSent(s) ==
  /\ s.destination \in Encodable
  /\ wire' = Append(wire, MetadataPdu(s.id, s.file_size, s.source_filename,
                                      s.destination_filename))
  /\ UNCHANGED errors
  /\ \/ /\ IsFileTransfer(s.source_filename, s.destination_filename)
        /\ sender' = [s EXCEPT !.state = "SEND_FILE"]
        /\ StartSending
     \/ /\ ~IsFileTransfer(s.source_filename, s.destination_filename)
        /\ sender' = s
        /\ call' = "send_eof" /\ depth' = 0

MetadataRejected(s) ==
  /\ \/ s.destination \notin Encodable /\ IssueError(s.id, "ASN1SCC_ERROR")
     \/ s.destination \in Encodable /\ IssueError(s.id, "TRANSPORT_ERROR")
  /\ sender' = Close(s)
  /\ Return
  /\ UNCHANGED wire

OpenTransaction(s) ==
  /\ transaction_sequence_number < MaxPuts
  /\ transaction_sequence_number' = transaction_sequence_number + 1
  /\ Indicate(s.id, {"TRANSACTION"})
  /\ MetadataSent(s) \/ MetadataRejected(s)
  /\ UNCHANGED <<store, owed>>

Put(dest, src, dst) ==
  /\ call = "idle"
  /\ LET s == NewSender(transaction_sequence_number + 1, dest, src, dst,
                IF src = VIRTUAL_LISTING_FILENAME THEN listing.size ELSE 0)
     IN  OpenTransaction(SizeRead(s))
  /\ UNCHANGED listing

\* The receiver machine answers a listing request with a put, addressed to
\* core->entity_id.
AnswerListingRequest(text, dst) ==
  /\ call = "idle"
  /\ listing' = [data |-> Dumped(text), size |-> Len(text)]
  /\ LET s == NewSender(transaction_sequence_number + 1, entity_id,
                        VIRTUAL_LISTING_FILENAME, dst, Len(text))
     IN  OpenTransaction([s EXCEPT !.file_size = Len(text)])

\* The dump of a listing fails: the buffer is overwritten, nothing is put.
ListingFails(text) ==
  /\ call = "idle"
  /\ listing' = [listing EXCEPT !.data = Dumped(text)]
  /\ UNCHANGED <<sender, transaction_sequence_number, call, depth, store, owed>>
  /\ UnchangedOutput

\* A transaction without a file: Metadata is followed by EOF at once.
FinishWithoutFile ==
  /\ call = "send_eof"
  /\ \/ /\ wire' = Append(wire, Eof(sender))
        /\ Indicate(sender.id, {"EOF_SENT", "FINISHED"})
        /\ UNCHANGED errors
     \/ /\ IssueError(sender.id, "TRANSPORT_ERROR")
        /\ UNCHANGED <<wire, indications>>
  /\ sender' = Close(SizeRead(sender))
  /\ Return
  /\ UNCHANGED <<transaction_sequence_number, owed>>
  /\ UnchangedFiles

-----------------------------------------------------------------------------
(***************************************************************************)
(* E1_SEND_FILE_DATA: one activation.                                       *)
(***************************************************************************)
HeldBack ==
  /\ Held
  /\ Return
  /\ UnchangedOutput
  /\ UNCHANGED <<sender, owed>>

TransportNotReady ==
  /\ ~Held
  /\ owed' = TRUE
  /\ Return
  /\ UnchangedOutput
  /\ UNCHANGED sender

SendSegment ==
  /\ ~Held /\ ~transaction_is_file_send_complete(sender)
  /\ Readable(sender)
  /\ SegmentLength(sender) <= MaxFileData
  /\ wire' = Append(wire, FileDataPdu(sender.id, sender.file_position,
                            AsCString(transaction_get_file_segment(sender))))
  /\ sender' = [sender EXCEPT !.file_position = @ + SegmentLength(sender)]
  /\ call' = call /\ depth' = depth + 1
  /\ UNCHANGED <<indications, errors, owed>>

\* The segment cannot be read, encoded or handed to the transport.
SegmentFails ==
  /\ ~Held /\ ~transaction_is_file_send_complete(sender)
  /\ LET moved == [sender EXCEPT !.file_position = @ + SegmentLength(sender)]
     IN  \/ /\ ~IsListing(sender)
            /\ IssueError(sender.id, "FILESTORE_ERROR")
            /\ sender' = Close(sender)
         \/ /\ Readable(sender)
            /\ SegmentLength(sender) > MaxFileData
            /\ IssueError(sender.id, "ASN1SCC_ERROR")
            /\ sender' = Close(moved)
         \/ /\ Readable(sender)
            /\ SegmentLength(sender) <= MaxFileData
            /\ IssueError(sender.id, "TRANSPORT_ERROR")
            /\ sender' = Close(moved)
  /\ Return
  /\ UNCHANGED <<wire, indications, owed>>

CompleteTransfer ==
  /\ ~Held /\ transaction_is_file_send_complete(sender)
  /\ \/ /\ wire' = Append(wire, Eof(sender))
        /\ Indicate(sender.id, {"EOF_SENT", "FINISHED"})
        /\ UNCHANGED errors
     \/ /\ IssueError(sender.id, "TRANSPORT_ERROR")
        /\ UNCHANGED <<wire, indications>>
  /\ sender' = Close(SizeRead(sender))
  /\ Return
  /\ UNCHANGED owed

TransportReady == SendSegment \/ SegmentFails \/ CompleteTransfer

SendFileData ==
  /\ call = "send_file_data"
  /\ HeldBack \/ TransportNotReady \/ TransportReady
  /\ UNCHANGED transaction_sequence_number
  /\ UnchangedFiles

-----------------------------------------------------------------------------
(***************************************************************************)
(* Requests about the transaction being sent.                               *)
(***************************************************************************)
UnchangedByRequest ==
  /\ UNCHANGED <<transaction_sequence_number, owed>>
  /\ UnchangedFiles

\* E33 and E3: FINISHED is indicated whether or not the EOF could be sent.
Cancel(id) ==
  /\ ToActiveSender(id)
  /\ LET s == [sender EXCEPT !.condition_code = "cancel_request_received"]
     IN  /\ sender' = Close(SizeRead(s))
         /\ \/ wire' = Append(wire, Eof(s)) /\ UNCHANGED errors
            \/ IssueError(id, "TRANSPORT_ERROR") /\ UNCHANGED wire
  /\ Indicate(id, {"FINISHED"})
  /\ UNCHANGED <<call, depth>>
  /\ UnchangedByRequest

\* E31 and E4.
Suspend(id) ==
  /\ ToActiveSender(id)
  /\ ~sender.is_suspended
  /\ indications[id]["SUSPENDED"] < MaxSuspensions
  /\ Indicate(id, {"SUSPENDED"})
  /\ sender' = [sender EXCEPT !.is_suspended = TRUE]
  /\ UNCHANGED <<call, depth, wire, errors>>
  /\ UnchangedByRequest

\* Mutant: RESUMED is indicated whether or not the transaction was suspended.
ResumeAlwaysIndicates(id) ==
  /\ ToActiveSender(id)
  /\ Indicate(id, {"RESUMED"})
  /\ sender' = [sender EXCEPT !.is_suspended = FALSE]
  /\ StartSending
  /\ UNCHANGED <<wire, errors>>
  /\ UnchangedByRequest

\* E32 issues E1 whether or not the transaction was suspended.
Resume(id) ==
  /\ ToActiveSender(id)
  /\ IF sender.is_suspended THEN Indicate(id, {"RESUMED"}) ELSE UNCHANGED indications
  /\ sender' = [sender EXCEPT !.is_suspended = FALSE]
  /\ StartSending
  /\ UNCHANGED <<wire, errors>>
  /\ UnchangedByRequest

\* E2, from cfdp_core_run_fault_handler with FAULT_HANDLER_ABANDON.
Abandon(id) ==
  /\ ToActiveSender(id)
  /\ Indicate(id, {"ABANDONED"})
  /\ sender' = Close(sender)
  /\ UNCHANGED <<call, depth, wire, errors>>
  /\ UnchangedByRequest

\* A PDU of the transaction being sent comes back: Class 1 has no use for it.
DeliverPdu(id) ==
  /\ ToActiveSender(id)
  /\ IssueError(id, "UNSUPPORTED_ACTION")
  /\ UNCHANGED <<sender, call, depth, wire, indications>>
  /\ UnchangedByRequest

-----------------------------------------------------------------------------
(***************************************************************************)
(* Link state procedures, addressed by destination entity, and the transport. *)
(***************************************************************************)
Freeze(dest) ==
  /\ ToActiveSender(sender.id)
  /\ dest = sender.destination
  /\ sender' = [sender EXCEPT !.is_frozen = TRUE]
  /\ UNCHANGED <<call, depth>>
  /\ UnchangedOutput
  /\ UnchangedByRequest

\* Mutant: thawing clears the flag and does not start the loop again.
ThawForgetsToSend(dest) ==
  /\ ToActiveSender(sender.id)
  /\ dest = sender.destination
  /\ sender.is_frozen
  /\ sender' = [sender EXCEPT !.is_frozen = FALSE]
  /\ UNCHANGED <<call, depth>>
  /\ UnchangedOutput
  /\ UnchangedByRequest

Thaw(dest) ==
  /\ ToActiveSender(sender.id)
  /\ dest = sender.destination
  /\ sender.is_frozen
  /\ sender' = [sender EXCEPT !.is_frozen = FALSE]
  /\ StartSending
  /\ UnchangedOutput
  /\ UnchangedByRequest

\* cfdp_core_transport_is_ready_callback.
TransportIsReadyCallback ==
  /\ call = "idle"
  /\ owed
  /\ owed' = FALSE
  /\ IF sender.state = "SEND_FILE" THEN StartSending ELSE UNCHANGED <<call, depth>>
  /\ UnchangedOutput
  /\ UNCHANGED <<sender, transaction_sequence_number>>
  /\ UnchangedFiles

\* Somebody rewrites a source file, at any moment.
SourceRewritten(file) ==
  /\ \E content \in Contents : store' = [store EXCEPT ![file] = content]
  /\ UNCHANGED <<sender, transaction_sequence_number, call, depth, listing, owed>>
  /\ UnchangedOutput

-----------------------------------------------------------------------------
\* cfdp_core_init closes the machine; the rest of its record is the caller's
\* memory, of which id 0 stands for any number no transaction will have.
Init ==
  /\ transaction_sequence_number = 0
  /\ \E d \in Destinations : sender = Close(NewSender(0, d, NoName, NoName, 0))
  /\ call = "idle" /\ depth = 0
  /\ store \in [SourceFiles -> Contents]
  /\ listing = [data |-> <<>>, size |-> 0]
  /\ wire = <<>>
  /\ indications = [id \in Ids |-> [k \in Indications |-> 0]]
  /\ errors = {}
  /\ owed = FALSE

Request ==
  \E id \in Ids : Cancel(id) \/ Suspend(id) \/ Resume(id) \/ Abandon(id) \/ DeliverPdu(id)

LinkState == \E dest \in Destinations : Freeze(dest) \/ Thaw(dest)

NewTransaction ==
  \E dst \in TargetNames :
    \/ \E dest \in Destinations, src \in SourceNames : Put(dest, src, dst)
    \/ \E text \in Listings : AnswerListingRequest(text, dst)

Environment ==
  \/ \E text \in Listings : ListingFails(text)
  \/ \E file \in SourceFiles : SourceRewritten(file)

Next ==
  \/ NewTransaction
  \/ FinishWithoutFile
  \/ SendFileData
  \/ Request
  \/ LinkState
  \/ TransportIsReadyCallback
  \/ Environment

Spec == Init /\ [][Next]_vars

(***************************************************************************)
(* Fairness.  A running call goes on.  A transport that reported not ready   *)
(* calls back, and one asked again and again is ready some time.  Nothing is  *)
(* assumed of the user.                                                      *)
(***************************************************************************)
FairSpec ==
  /\ Spec
  /\ WF_vars(FinishWithoutFile)
  /\ WF_vars(SendFileData)
  /\ WF_vars(TransportIsReadyCallback)
  /\ SF_vars(SendFileData /\ sender' # sender)

-----------------------------------------------------------------------------
(***************************************************************************)
(* Types.                                                                   *)
(***************************************************************************)
SenderRecords ==
  [state : SenderStates, id : 0 .. MaxPuts, destination : Destinations,
   source_filename : SourceNames, destination_filename : TargetNames,
   virtual_source_file_size : Nat, file_size : Nat, file_position : Nat,
   condition_code : {"no_error", "cancel_request_received"},
   is_frozen : BOOLEAN, is_suspended : BOOLEAN]

Pdus == MetadataPdus(Ids, SourceNames \cup TargetNames) \cup FileDataPdus(Ids)
          \cup EofPdus(Ids)

\* Every variable has its type.
TypeOK ==
  /\ sender \in SenderRecords
  /\ transaction_sequence_number \in 0 .. MaxPuts
  /\ call \in Calls
  /\ depth \in Nat
  /\ store \in [SourceFiles -> Contents]
  /\ listing \in [data : Seq(Word), size : Nat]
  /\ wire \in Seq(Pdus)
  /\ indications \in [Ids -> [Indications -> Nat]]
  /\ errors \subseteq Ids \X ErrorTypes
  /\ owed \in BOOLEAN

-----------------------------------------------------------------------------
(***************************************************************************)
(* Safety.                                                                  *)
(***************************************************************************)
\* The PDUs of the sender are those of the abstract stream: the stream is open
\* from the Metadata PDU to the closing of the machine.
AbstractStream ==
  IF sender.state = "COMPLETED"
  THEN [open |-> FALSE, id |-> sender.id, file |-> FALSE, size |-> 0, sent |-> 0]
  ELSE [open |-> TRUE, id |-> sender.id, file |-> sender.state = "SEND_FILE",
        size |-> sender.file_size, sent |-> sender.file_position]

Stream == INSTANCE Class1Stream
            WITH Names <- SourceNames \cup TargetNames, stream <- AbstractStream

\* Whatever the user, the files and the transport do, what goes on the wire
\* follows the rules of Class1Stream (sender_machine_update_state with
\* transaction_get_file_segment): no gap, no overlap, one EOF, and an EOF
\* without error only after the whole announced file.
ImplementsClass1Stream == Stream!Spec

Ends(id) == indications[id]["FINISHED"] + indications[id]["ABANDONED"]

\* The error reported in place of an end indication.
BrokenOff(id) ==
  \E type \in {"ASN1SCC_ERROR", "FILESTORE_ERROR", "TRANSPORT_ERROR"} :
    <<id, type>> \in errors

\* No transaction ends twice; the one the machine holds has ended exactly when
\* the machine is closed, and if it ended without indication, an error was issued
\* (every path of sender_machine_update_state to sender_machine_close).
EndIsReported ==
  /\ \A id \in Ids : Ends(id) <= 1
  /\ sender.id # 0 =>
       /\ sender.state # "COMPLETED" => Ends(sender.id) = 0
       /\ sender.state = "COMPLETED" => Ends(sender.id) = 1 \/ BrokenOff(sender.id)

EofsOnWire(id, code) ==
  {i \in DOMAIN wire : wire[i].kind = "EOF" /\ wire[i].id = id
                         /\ wire[i].condition_code = code}

\* The user is told what happened on the wire: EOF_SENT stands for an EOF without
\* error, FINISHED for an EOF, unless the transport refused the EOF of a
\* cancellation, and then an error was issued.
IndicationsMatchWire ==
  \A id \in Ids :
    LET completed == Cardinality(EofsOnWire(id, "no_error"))
        cancelled == Cardinality(EofsOnWire(id, "cancel_request_received"))
    IN  /\ indications[id]["EOF_SENT"] = completed
        /\ indications[id]["FINISHED"] >= completed + cancelled
        /\ indications[id]["FINISHED"] > completed + cancelled
             => <<id, "TRANSPORT_ERROR">> \in errors

\* SUSPENDED and RESUMED alternate, and they tell the truth about the machine.
SuspensionBalance ==
  \A id \in Ids :
    LET balance == indications[id]["SUSPENDED"] - indications[id]["RESUMED"]
    IN  /\ balance \in {0, 1}
        /\ id = sender.id => (balance = 1 <=> sender.is_suspended)

\* A file transfer that is not running waits for somebody: the user or the link
\* is holding it, or the transport owes a call.  Resume, thaw and the transport
\* race here: whichever comes last has to restart the loop.
NoLostWakeup ==
  call = "idle" /\ sender.state = "SEND_FILE" =>
    sender.is_suspended \/ sender.is_frozen \/ owed

\* A transfer whose Metadata could be encoded is never broken off by the encoder:
\* the segments cut from the file fit into FileData.  This depends on a MaxFileData
\* that is a multiple of the alignment, as the 4096 octets of dataview.asn are.
SegmentsAreEncodable ==
  \A i \in DOMAIN wire : <<wire[i].id, "ASN1SCC_ERROR">> \notin errors

\* E1_SEND_FILE_DATA is issued from within E1_SEND_FILE_DATA: the stack holds at
\* most one activation for each segment of the file, and the last one.
RecursionBounded ==
  depth <= 1 + (sender.file_size + FILE_SEGMENT_BUFFER_SIZE - 1)
                 \div FILE_SEGMENT_BUFFER_SIZE

\* While its transaction is suspended or frozen the sender is quiet, but for the
\* EOF of a cancellation; a new transaction may take over.
QuietWhileHeld ==
  [][(sender.is_suspended \/ sender.is_frozen) /\ wire' # wire =>
       LET pdu == wire'[Len(wire')]
       IN  \/ pdu.kind = "EOF" /\ pdu.condition_code = "cancel_request_received"
           \/ pdu.kind = "MD" /\ pdu.id # sender.id]_vars

-----------------------------------------------------------------------------
(***************************************************************************)
(* Liveness.                                                                *)
(***************************************************************************)
\* If the user and the link let go of the transfer for good, the sender ends it.
EventuallyEnds ==
  <>[](~sender.is_suspended /\ ~sender.is_frozen) => <>[](sender.state = "COMPLETED")

=============================================================================

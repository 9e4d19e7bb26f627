-------------------------- MODULE ReceiverMachine --------------------------
(***************************************************************************)
(* The receiving half of an entity: cfdp_core_received_pdu, core->receiver[0] *)
(* with its inactivity timer, and the filestore it writes.                   *)
(*                                                                          *)
(* The network may hand the entity any PDU at any time: PDUs are lost, come   *)
(* twice, late and in any order, and belong to any transaction.  A PDU, a     *)
(* request and an expiry of the timer are each handled to the end before the  *)
(* next, so each is one step.  The entity is not the sender of these          *)
(* transactions: no request about them finds its way to core->sender[0].      *)
(*                                                                          *)
(* A transaction id can be opened more than once, because the entity keeps     *)
(* nothing of a transaction that is over.  `openings' numbers the lives of     *)
(* the machine; what was indicated and what went wrong is recorded per life.   *)
(***************************************************************************)
EXTENDS CfdpTypes, FiniteSets

CONSTANTS
  Transactions,    \* ids (entity and sequence number) PDUs may carry
  NoTransaction,   \* the id in the machine's memory before its first use
  FileNames,       \* names a file may be given
  Messages,        \* sequences of messages to the user a Metadata PDU may carry
  Segments,        \* file data: records of segment_offset and file_data
  EofChecksums,    \* checksums an EOF may carry
  EofSizes,        \* sizes an EOF may carry
  checksum_type,   \* the entity's checksum type
  MaxOpenings      \* bound: lives of the machine

MessageTypes == {"DIRECTORY_LISTING_REQUEST", "LISTING_SUCCESSFUL",
                 "LISTING_UNSUCCESSFUL", "ORIGINATING_TRANSACTION_ID"}

ASSUME ReceiverAssumption ==
  /\ NoTransaction \notin Transactions
  /\ NoName \notin FileNames
  /\ Messages \subseteq Seq(MessageTypes)
  /\ Segments \subseteq [segment_offset : Nat, file_data : Seq(Word)]
  /\ EofChecksums \subseteq Word
  /\ EofSizes \subseteq Nat
  /\ checksum_type \in ChecksumTypes
  /\ MaxOpenings \in Nat

VARIABLES
  receiver,   \* core->receiver[0] with its transaction
  timer,      \* core->receiver[0].timer: armed or not, and for which transaction
  files,      \* the filestore: the content of each file that exists
  openings,   \* lives of the machine so far
  log,        \* the indications, in order, with the life they belong to
  errors      \* the errors issued, with the life they belong to

vars == <<receiver, timer, files, openings, log, errors>>

Names == FileNames \cup {NoName}

\* Directives Class 1 knows nothing of (Finished, ACK, NAK, Prompt, Keep Alive).
OtherPdus == [kind : {"OTHER"}, id : Transactions]

Pdus ==
  [kind : {"MD"}, id : Transactions, source_file_name : Names,
   destination_file_name : Names, messages : Messages]
  \cup {[kind |-> "FD", id |-> id, segment_offset |-> s.segment_offset,
         file_data |-> s.file_data] : id \in Transactions, s \in Segments}
  \cup [kind : {"EOF"}, id : Transactions,
        condition_code : {"no_error", "cancel_request_received"},
        file_checksum : EofChecksums, file_size : EofSizes]
  \cup OtherPdus

-----------------------------------------------------------------------------
(***************************************************************************)
(* The filestore.                                                           *)
(***************************************************************************)
Content(f, name) == IF name \in DOMAIN f THEN f[name] ELSE <<>>

Replaced(f, name, content) ==
  [other \in DOMAIN f \cup {name} |-> IF other = name THEN content ELSE f[other]]

Deleted(f, name) == [other \in DOMAIN f \ {name} |-> f[other]]

\* Mutant: a write cuts the file off behind its data.
WrittenTruncated(content, offset, data) ==
  [i \in 1 .. offset + Len(data) |->
     IF i > offset THEN data[i - offset]
     ELSE IF i <= Len(content) THEN content[i] ELSE 0]

\* filestore_write: a gap before the offset is filled with NUL octets.
Written(content, offset, data) ==
  LET end == offset + Len(data)
  IN  [i \in 1 .. (IF end > Len(content) THEN end ELSE Len(content)) |->
         IF i > offset /\ i <= end THEN data[i - offset]
         ELSE IF i <= Len(content) THEN content[i] ELSE 0]

transaction_get_stored_file_checksum(f, name) == Checksum(Content(f, name), checksum_type)

-----------------------------------------------------------------------------
(***************************************************************************)
(* The handlers.  Each takes a machine r and a filestore f and gives the set  *)
(* of its possible results: the machine and the files it leaves, what it has  *)
(* indicated and the errors it has issued.                                   *)
(***************************************************************************)
Result(r, f, said, wrong) == [receiver |-> r, files |-> f, said |-> said, wrong |-> wrong]

Unsupported(r, f) == {Result(r, f, <<>>, {"UNSUPPORTED_ACTION"})}

Close(r) == [r EXCEPT !.state = "COMPLETED"]
Coded(r, code) == [r EXCEPT !.condition_code = code]

\* Mutants: the machine is not closed; a cancelled file is deleted.
CancelLeavesOpen(r, f) ==
  {Result(Coded(r, "cancel_request_received"), f, <<"FINISHED">>, {})}
CancelDeletes(r, f) ==
  {Result(Close(Coded(r, "cancel_request_received")),
          Deleted(f, r.destination_filename), <<"FINISHED">>, {})}

\* E33 followed by E3.
CancelReceived(r, f) ==
  {Result(Close(Coded(r, "cancel_request_received")), f, <<"FINISHED">>, {})}

\* E2.
AbandonReceived(r, f) == {Result(Close(r), f, <<"ABANDONED">>, {})}

\* cfdp_core_run_fault_handler with the default action for a condition.
Fault(r, f, condition) ==
  LET action == DEFAULT_FAULT_HANDLER_ACTIONS[condition]
  IN  CASE action = "FAULT_HANDLER_CANCEL"  -> CancelReceived(r, f)
        [] action = "FAULT_HANDLER_SUSPEND" -> Unsupported(r, f)
        [] action = "FAULT_HANDLER_IGNORE"  -> {Result(r, f, <<>>, {})}
        [] action = "FAULT_HANDLER_ABANDON" -> AbandonReceived(r, f)

\* What transaction_process_messages_to_user does with one message; NOOP is no
\* indication, only the log keeps it.
Said(message) ==
  CASE message = "DIRECTORY_LISTING_REQUEST"  -> "LISTING_PUT"
    [] message = "LISTING_SUCCESSFUL"         -> "SUCCESSFUL_LISTING"
    [] message = "LISTING_UNSUCCESSFUL"       -> "UNSUCCESSFUL_LISTING"
    [] message = "ORIGINATING_TRANSACTION_ID" -> "NOOP"

SaidOfFirst(n, messages) == [i \in 1 .. n |-> Said(messages[i])]

\* Mutant: the machine goes on waiting for Metadata.
MetadataKeepsWaiting(r, f) ==
  {Result(r, f, <<"METADATA_RECV">> \o SaidOfFirst(Len(r.messages), r.messages), {})}

\* E10.  The messages are worked off in order; the dump for a listing request
\* may fail, and then the transaction is closed and the rest is not looked at.
MetadataReceived(r, f) ==
  LET n == Len(r.messages)
      After(k) == <<"METADATA_RECV">> \o SaidOfFirst(k, r.messages)
  IN  {Result([r EXCEPT !.state = "WAIT_FOR_EOF"], f, After(n), {})}
      \cup {Result(Close(r), f, After(i - 1), {"FILESTORE_ERROR"}) :
              i \in {j \in 1 .. n : r.messages[j] = "DIRECTORY_LISTING_REQUEST"}}

Stores(r) == IsFileTransfer(r.source_filename, r.destination_filename)

\* E11.  Without both names the data goes nowhere.
FileDataReceived(r, f, pdu) ==
  LET end == pdu.segment_offset + Len(pdu.file_data)
      name == r.destination_filename
  IN  IF ~Stores(r) THEN {Result(r, f, <<>>, {})}
      ELSE {Result([r EXCEPT !.received_file_size = IF @ < end THEN end ELSE @],
                   Replaced(f, name, Written(Content(f, name), pdu.segment_offset,
                                             pdu.file_data)),
                   <<>>, {}),
            Result(Close(r), f, <<>>, {"FILESTORE_ERROR"})}

\* The file that failed its checksum is deleted after the fault was handled.
Rejected(r, f) ==
  UNION {{Result(o.receiver, Deleted(f, r.destination_filename), o.said, o.wrong),
          Result(Close(o.receiver), f, o.said, o.wrong \cup {"FILESTORE_ERROR"})} :
           o \in Fault(r, f, "file_checksum_failure")}

\* Mutant: neither size nor checksum of the file are looked at.
EofUnchecked(r, f, pdu) == {Result(Close(r), f, <<"EOF_RECV", "FINISHED">>, {})}

\* E12 in WAIT_FOR_EOF.
EofReceived(r, f, pdu) ==
  LET checked ==
        IF ~Stores(r) THEN {Result(Close(r), f, <<"FINISHED">>, {})}
        ELSE IF r.received_file_size > pdu.file_size
        THEN Fault(r, f, "file_size_error")
        ELSE IF transaction_get_stored_file_checksum(f, r.destination_filename)
                  # pdu.file_checksum
        THEN Rejected(r, f)
        ELSE {Result(Close(r), f, <<"FINISHED">>, {})}
  IN  {[o EXCEPT !.said = <<"EOF_RECV">> \o @] : o \in checked}

\* Mutant: EOF_RECV is indicated of every EOF.
FinishWithEof(r, f) == {Result(Close(r), f, <<"EOF_RECV", "FINISHED">>, {})}

\* E12 in WAIT_FOR_MD, E13 in both states.
FinishAtOnce(r, f) == {Result(Close(r), f, <<"FINISHED">>, {})}

\* receiver_machine_update_state for a PDU.
DeliverPdu(r, f, pdu) ==
  CASE pdu.kind = "EOF" /\ pdu.condition_code # "no_error"
         -> FinishAtOnce(Coded(r, pdu.condition_code), f)
    [] pdu.kind = "EOF" /\ pdu.condition_code = "no_error" /\ r.state = "WAIT_FOR_MD"
         -> FinishAtOnce(r, f)
    [] pdu.kind = "EOF" /\ pdu.condition_code = "no_error" /\ r.state = "WAIT_FOR_EOF"
         -> EofReceived(r, f, pdu)
    [] pdu.kind = "MD" /\ r.state = "WAIT_FOR_MD"
         -> MetadataReceived(r, f)
    [] pdu.kind = "FD" /\ r.state = "WAIT_FOR_EOF"
         -> FileDataReceived(r, f, pdu)
    [] OTHER -> Unsupported(r, f)

-----------------------------------------------------------------------------
(***************************************************************************)
(* The machine takes over the result of a handler.                          *)
(***************************************************************************)
\* Mutant: a closed machine still serves what comes.
AlwaysActive == receiver.id # NoTransaction

Active == receiver.state # "COMPLETED"

Entries(life, id, code, said) ==
  [i \in 1 .. Len(said) |-> [life |-> life, id |-> id, kind |-> said[i], code |-> code]]

\* Mutant: the timer is not told of the new transaction.
StaleTimerId(o) == timer.id

\* receiver_machine_init names the transaction to the timer.
TimerId(o) == o.receiver.id

\* Every call of receiver_machine_update_state begins by restarting the timer,
\* which may fail, once or every time.
Becomes(o, life) ==
  /\ receiver' = o.receiver
  /\ files' = o.files
  /\ log' = log \o Entries(life, o.receiver.id, o.receiver.condition_code, o.said)
  /\ \/ /\ timer' = [armed |-> TRUE, id |-> TimerId(o)]
        /\ errors' = errors \cup {<<life, e>> : e \in o.wrong}
     \/ /\ timer' \in [armed : BOOLEAN, id : {TimerId(o)}]
        /\ errors' = errors \cup {<<life, e>> : e \in o.wrong \cup {"TIMER_ERROR"}}

\* A machine that is COMPLETED restarts the timer and ignores the event.
Idle(r, f) == {Result(r, f, <<>>, {})}

\* Mutant: the machine keeps the id of the last transaction.
NewReceiverKeepsId(pdu) ==
  [state |-> "WAIT_FOR_MD", id |-> receiver.id,
   source_filename |-> NoName, destination_filename |-> NoName,
   messages |-> <<>>, condition_code |-> "no_error", received_file_size |-> 0]

\* Mutant: a PDU that tells no names leaves those of the last transaction.
NewReceiverKeepsNames(pdu) ==
  [state |-> "WAIT_FOR_MD", id |-> pdu.id,
   source_filename |-> IF pdu.kind = "MD" THEN pdu.source_file_name
                                          ELSE receiver.source_filename,
   destination_filename |-> IF pdu.kind = "MD" THEN pdu.destination_file_name
                                               ELSE receiver.destination_filename,
   messages |-> <<>>, condition_code |-> "no_error", received_file_size |-> 0]

\* The machine for a transaction the entity does not know.  Only a Metadata PDU
\* tells it the names and the messages.
NewReceiver(pdu) ==
  [state |-> "WAIT_FOR_MD", id |-> pdu.id,
   source_filename |-> IF pdu.kind = "MD" THEN pdu.source_file_name ELSE NoName,
   destination_filename |-> IF pdu.kind = "MD" THEN pdu.destination_file_name ELSE NoName,
   messages |-> IF pdu.kind = "MD" THEN pdu.messages ELSE <<>>,
   condition_code |-> "no_error", received_file_size |-> 0]

IsRequestToReceiver(id) == id = receiver.id

-----------------------------------------------------------------------------
(***************************************************************************)
(* cfdp_core_received_pdu.                                                  *)
(***************************************************************************)
PduOfKnownTransaction(pdu) ==
  /\ IsRequestToReceiver(pdu.id) /\ Active
  /\ \E o \in DeliverPdu(receiver, files, pdu) : Becomes(o, openings)
  /\ UNCHANGED openings

\* A transaction in progress is not asked: its machine is taken away.
PduOfNewTransaction(pdu) ==
  /\ ~(IsRequestToReceiver(pdu.id) /\ Active)
  /\ pdu \notin OtherPdus
  /\ openings < MaxOpenings
  /\ openings' = openings + 1
  /\ \E o \in DeliverPdu(NewReceiver(pdu), files, pdu) : Becomes(o, openings + 1)

PduRefused(pdu) ==
  /\ ~(IsRequestToReceiver(pdu.id) /\ Active)
  /\ pdu \in OtherPdus
  /\ errors' = errors \cup {<<openings, "UNSUPPORTED_ACTION">>}
  /\ UNCHANGED <<receiver, timer, files, openings, log>>

ReceivedPdu(pdu) ==
  PduOfKnownTransaction(pdu) \/ PduOfNewTransaction(pdu) \/ PduRefused(pdu)

-----------------------------------------------------------------------------
(***************************************************************************)
(* Requests about the transaction and its timer.                            *)
(***************************************************************************)
Handled(id, results) ==
  /\ IsRequestToReceiver(id)
  /\ \E o \in (IF Active THEN results ELSE Idle(receiver, files)) : Becomes(o, openings)
  /\ UNCHANGED openings

\* cfdp_core_cancel, and the fault handler's CANCEL.
Cancel(id) == Handled(id, CancelReceived(receiver, files))

\* The fault handler's ABANDON.
Abandon(id) == Handled(id, AbandonReceived(receiver, files))

\* cfdp_core_suspend and cfdp_core_resume mean nothing to a receiver.
SuspendOrResume(id) == Handled(id, Unsupported(receiver, files))

\* cfdp_core_report: only the timer is touched.
Report(id) == Handled(id, Idle(receiver, files))

\* receiver_timer_expired, E27.
TimerExpired ==
  /\ timer.armed
  /\ Handled(timer.id, Fault(receiver, files, "inactivity_detected"))

-----------------------------------------------------------------------------
Init ==
  /\ receiver = [state |-> "COMPLETED", id |-> NoTransaction,
                 source_filename |-> NoName, destination_filename |-> NoName,
                 messages |-> <<>>, condition_code |-> "no_error",
                 received_file_size |-> 0]
  /\ timer = [armed |-> FALSE, id |-> NoTransaction]
  /\ files = <<>>
  /\ openings = 0
  /\ log = <<>>
  /\ errors = {}

Receives == \E pdu \in Pdus : ReceivedPdu(pdu)

Request ==
  \E id \in Transactions : Cancel(id) \/ Abandon(id) \/ SuspendOrResume(id) \/ Report(id)

Next == Receives \/ Request \/ TimerExpired

Spec == Init /\ [][Next]_vars

\* A timer that is running expires.
FairSpec == Spec /\ WF_vars(TimerExpired)

-----------------------------------------------------------------------------
(***************************************************************************)
(* Types.                                                                   *)
(***************************************************************************)
Kinds == {"METADATA_RECV", "EOF_RECV", "FINISHED", "ABANDONED", "LISTING_PUT",
          "SUCCESSFUL_LISTING", "UNSUCCESSFUL_LISTING", "NOOP"}
Ends == {"FINISHED", "ABANDONED"}
Codes == {"no_error", "cancel_request_received"}
Ids == Transactions \cup {NoTransaction}

ReceiverRecords ==
  [state : ReceiverStates, id : Ids, source_filename : Names, destination_filename : Names,
   messages : Messages \cup {<<>>}, condition_code : Codes, received_file_size : Nat]

\* Every variable has its type.
TypeOK ==
  /\ receiver \in ReceiverRecords
  /\ timer \in [armed : BOOLEAN, id : Ids]
  /\ \E D \in SUBSET FileNames : files \in [D -> Seq(Word)]
  /\ openings \in 0 .. MaxOpenings
  /\ log \in Seq([life : 1 .. MaxOpenings, id : Transactions, kind : Kinds, code : Codes])
  /\ errors \subseteq (0 .. MaxOpenings) \X ErrorTypes

-----------------------------------------------------------------------------
(***************************************************************************)
(* Safety.                                                                  *)
(***************************************************************************)
\* Whatever order PDUs, requests and expiries come in, the user is told of one
\* life after the other, of each life Metadata first and once, and after its end
\* nothing any more (receiver_machine_update_state).
LifecycleOrder ==
  \A i, j \in DOMAIN log : i < j =>
    /\ log[i].life <= log[j].life
    /\ log[i].life = log[j].life =>
         log[i].kind \notin Ends /\ log[j].kind # "METADATA_RECV"

\* EOF_RECV and the answers to messages are for transactions whose Metadata was
\* indicated before.
NothingBeforeMetadata ==
  \A j \in DOMAIN log :
    log[j].kind \notin Ends \cup {"METADATA_RECV"} =>
      \E i \in 1 .. j - 1 : log[i].kind = "METADATA_RECV" /\ log[i].life = log[j].life

Of(kind) == {i \in DOMAIN log : log[i].life = openings /\ log[i].kind = kind}

\* A directory listing is put once for each request of the Metadata, however
\* often Metadata is delivered while the transaction lives: all of them when the
\* machine has gone on to wait for the EOF, none twice if a dump failed
\* (transaction_process_messages_to_user).
ListingsAnsweredOnce ==
  LET requests == {i \in DOMAIN receiver.messages :
                     receiver.messages[i] = "DIRECTORY_LISTING_REQUEST"}
      answers == Cardinality(Of("LISTING_PUT"))
  IN  /\ answers <= Cardinality(requests)
      /\ receiver.state = "WAIT_FOR_EOF" => answers = Cardinality(requests)

EndIndicated == \E i \in DOMAIN log : log[i].life = openings /\ log[i].kind \in Ends

\* The machine is closed exactly when the current life has been reported over, or
\* the filestore failed it.
EndIsReported ==
  /\ Active => ~EndIndicated
  /\ ~Active /\ openings > 0 => EndIndicated \/ <<openings, "FILESTORE_ERROR">> \in errors

\* As long as the machine waits for the network, a timer is running that will
\* name this transaction, unless an error was reported of the timer.
ActiveIsWatched ==
  Active => \/ timer = [armed |-> TRUE, id |-> receiver.id]
            \/ <<openings, "TIMER_ERROR">> \in errors

\* What the machine counts as received is in the file: the size check at EOF
\* speaks of octets that are there.
ReceivedIsStored ==
  Active /\ receiver.received_file_size > 0 =>
    /\ Stores(receiver)
    /\ Len(Content(files, receiver.destination_filename)) >= receiver.received_file_size

\* A file changes only in a transaction that waits for its EOF and names the file,
\* and disappears only at an EOF that is answered with FINISHED (cancelled).
FilesAreGuarded ==
  [][files' # files =>
       /\ receiver.state = "WAIT_FOR_EOF"
       /\ openings' = openings
       /\ Deleted(files', receiver.destination_filename)
            = Deleted(files, receiver.destination_filename)
       /\ receiver.destination_filename \notin DOMAIN files' =>
            /\ Len(log') = Len(log) + 2
            /\ log'[Len(log) + 1].kind = "EOF_RECV"
            /\ log'[Len(log) + 2].kind = "FINISHED"
            /\ log'[Len(log) + 2].code = "cancel_request_received"]_vars

-----------------------------------------------------------------------------
(***************************************************************************)
(* Liveness.                                                                *)
(***************************************************************************)
\* When no more PDUs come, the inactivity timer ends the transaction, unless the
\* timer itself fails.
EventuallyEnds ==
  \/ []<><<Receives>>_vars
  \/ <>[](~Active \/ <<openings, "TIMER_ERROR">> \in errors)
=============================================================================

------------------------------ MODULE Transfer ------------------------------
(***************************************************************************)
(* A file on its way: the sender of one entity, the receiver of another, and *)
(* the network between them.                                                 *)
(*                                                                          *)
(* The network is the history of the sender's wire: it may hand any PDU of it *)
(* to the receiver, as far as its faults allow.  Both entities are those of   *)
(* SenderMachine and ReceiverMachine, with every request and failure; only    *)
(* the source files are left alone, because a transfer of a file that changes *)
(* has no right answer.                                                       *)
(***************************************************************************)
EXTENDS CfdpTypes

CONSTANTS
  entity_id, peer,           \* the sending and the receiving entity
  SourceFiles, TargetFiles,  \* file names here and there
  Contents,                  \* what a source file may contain
  MaxFileData, CFDP_ALIGNMENT_SIZE, checksum_type,
  NoTransaction,
  NetworkFaults,             \* of "loss" and "disorder"
  MaxPuts, MaxSuspensions, MaxOpenings  \* bounds

ASSUME NetworkAssumption == NetworkFaults \subseteq {"loss", "disorder"}

ASSUME EntitiesAssumption ==
  /\ {NoName, VIRTUAL_LISTING_FILENAME} \cap SourceFiles = {}
  /\ NoName \notin TargetFiles
  /\ Contents \subseteq Seq(Word)
  /\ MaxFileData \in Nat \ {0}
  /\ CFDP_ALIGNMENT_SIZE \in Nat \ {0}
  /\ checksum_type \in ChecksumTypes
  /\ NoTransaction \notin 1 .. MaxPuts
  /\ MaxPuts \in Nat
  /\ MaxSuspensions \in Nat
  /\ MaxOpenings \in Nat

VARIABLES
  sender, transaction_sequence_number, call, depth, store, listing,
  wire, indications, errors, owed,                              \* of the sender
  receiver, timer, files, openings, log, receiver_errors,       \* of the receiver
  arrived                    \* the furthest PDU of the wire that has arrived

Snd == INSTANCE SenderMachine
         WITH Destinations <- {entity_id, peer}, Encodable <- {entity_id, peer},
              Listings <- {}

Rcv == INSTANCE ReceiverMachine
         WITH Transactions <- 1 .. MaxPuts, FileNames <- SourceFiles \cup TargetFiles,
              Messages <- {<<>>}, Segments <- {}, EofChecksums <- {}, EofSizes <- {},
              errors <- receiver_errors

senderVars == <<sender, transaction_sequence_number, call, depth, store, listing,
                wire, indications, errors, owed>>
receiverVars == <<receiver, timer, files, openings, log, receiver_errors>>
vars == <<senderVars, receiverVars, arrived>>

-----------------------------------------------------------------------------
\* A PDU as the receiver decodes it: the Metadata carries no messages.
Decoded(pdu) ==
  IF pdu.kind = "MD"
  THEN [kind |-> "MD", id |-> pdu.id, source_file_name |-> pdu.source_file_name,
        destination_file_name |-> pdu.destination_file_name, messages |-> <<>>]
  ELSE pdu

\* Without faults each PDU arrives once and in order; some may be lost; or any
\* may come late, or again.
MayArrive(i) ==
  \/ i = arrived + 1
  \/ "loss" \in NetworkFaults /\ i > arrived
  \/ "disorder" \in NetworkFaults

Deliver ==
  /\ \E i \in DOMAIN wire :
       /\ MayArrive(i)
       /\ arrived' = IF i > arrived THEN i ELSE arrived
       /\ Rcv!ReceivedPdu(Decoded(wire[i]))
  /\ UNCHANGED senderVars

SendingEntity ==
  /\ \/ \E src \in SourceFiles, dst \in TargetFiles : Snd!Put(peer, src, dst)
     \/ Snd!SendFileData
     \/ Snd!Request
     \/ Snd!LinkState
     \/ Snd!TransportIsReadyCallback
  /\ UNCHANGED <<receiverVars, arrived>>

ReceivingEntity ==
  /\ Rcv!Request \/ Rcv!TimerExpired
  /\ UNCHANGED <<senderVars, arrived>>

Init == Snd!Init /\ Rcv!Init /\ arrived = 0

Next == SendingEntity \/ Deliver \/ ReceivingEntity

Spec == Init /\ [][Next]_vars

(***************************************************************************)
(* Fairness is that of the sender; and the network delivers.  Nothing is      *)
(* assumed of the users or of the receiver's timer.                          *)
(***************************************************************************)
FairSpec ==
  /\ Spec
  /\ WF_vars(Snd!SendFileData /\ UNCHANGED <<receiverVars, arrived>>)
  /\ WF_vars(Snd!TransportIsReadyCallback /\ UNCHANGED <<receiverVars, arrived>>)
  /\ SF_vars(Snd!SendFileData /\ sender' # sender /\ UNCHANGED <<receiverVars, arrived>>)
  /\ WF_vars(Deliver)

-----------------------------------------------------------------------------
\* The Metadata PDUs sent for a transaction.
Announced(id) == {wire[i] : i \in {j \in DOMAIN wire : wire[j].kind = "MD" /\ wire[j].id = id}}

\* Some segment of a transaction that names the file carried this word to here.
WasSent(name, position, word) ==
  \E i \in DOMAIN wire :
    /\ wire[i].kind = "FD"
    /\ \E md \in Announced(wire[i].id) : md.destination_file_name = name
    /\ position - wire[i].segment_offset \in DOMAIN wire[i].file_data
    /\ wire[i].file_data[position - wire[i].segment_offset] = word

\* Whatever the network does, a file of the receiver holds nothing but what was
\* sent for that file, at the place it was sent for, and NUL where nothing has
\* arrived yet: no transaction writes into the file of another one, although they
\* all use the same machine (handle_pdu_to_new_receiver_machine clears the names).
FilesHoldWhatWasSent ==
  \A name \in DOMAIN files : \A p \in DOMAIN files[name] :
    files[name][p] = 0 \/ WasSent(name, p, files[name][p])

Indicated(kind) == {i \in Len(log) + 1 .. Len(log') : log'[i].kind = kind}

\* The file of the transaction checks: it has the checksum of the source file, and
\* nothing was received beyond the end of that.
Checks(id) ==
  \A md \in Announced(id) :
    /\ Checksum(Rcv!Content(files', md.destination_file_name), checksum_type)
         = Checksum(store[md.source_file_name], checksum_type)
    /\ receiver'.received_file_size <= Len(store[md.source_file_name])

FinishesAfterEof(id) ==
  /\ log' # log
  /\ \E i \in Indicated("EOF_RECV"), j \in Indicated("FINISHED") :
       log'[i].id = id /\ log'[j].code = "no_error"

\* Whatever the network does, a transfer of which the receiver knows the names and
\* that is finished without error, after its EOF was received, leaves a file that
\* checks, although EOF and data may be of different lives of the receiver.
FinishedFileChecks ==
  [][\A id \in 1 .. MaxPuts :
       FinishesAfterEof(id) /\ Rcv!Stores(receiver) => Checks(id)]_vars

\* The same of every transfer whose Metadata and EOF were indicated.
FinishedMeansReceived ==
  [][\A id \in 1 .. MaxPuts : FinishesAfterEof(id) => Checks(id)]_vars

\* When the EOF of a transfer is indicated and the network has neither lost nor
\* mixed up anything, the file is at the destination as it is at the source.  (So
\* the tests compare the files they send and receive.)
WhatIsSentArrives ==
  [][\A i \in Indicated("EOF_RECV") : \A md \in Announced(log'[i].id) :
       /\ md.destination_file_name \in DOMAIN files'
       /\ files'[md.destination_file_name] = store[md.source_file_name]]_vars

-----------------------------------------------------------------------------
\* The file of the transaction is there, and the receiver's user knows.
Delivered(id) ==
  \E i \in DOMAIN log : log[i].id = id /\ log[i].kind = "FINISHED" /\ log[i].code = "no_error"

\* One of the two users knows that something went wrong, or wanted it so.
Told(id) ==
  \/ \E type \in ErrorTypes : <<id, type>> \in errors
  \/ \E life \in 1 .. openings, type \in ErrorTypes : <<life, type>> \in receiver_errors
  \/ indications[id]["ABANDONED"] > 0
  \/ \E i \in DOMAIN log : log[i].id = id /\ log[i].kind \in {"FINISHED", "ABANDONED"}
                             /\ (log[i].kind = "FINISHED" => log[i].code # "no_error")

\* Over a network without faults a transfer that is announced and not held for
\* ever comes to an end that at least one of the users is told of, with the
\* receiver's timer doing nothing for it.
EveryTransferIsSettled ==
  <>[](~sender.is_suspended /\ ~sender.is_frozen) =>
    \A id \in 1 .. MaxPuts : Announced(id) # {} ~> Delivered(id) \/ Told(id)
=============================================================================

--------------------------- MODULE TransferProofs ---------------------------
(***************************************************************************)
(* Theorems about Transfer: what the network may do to a file on its way,    *)
(* for every behaviour of the network, any files and any number of them.     *)
(*                                                                          *)
(* The lemmas about each machine are those of its own proof module, taken    *)
(* over by an instance of that module.  An instance has definitions of its    *)
(* own, which SameSender and SameReceiver show to be those of Transfer.      *)
(***************************************************************************)
EXTENDS Transfer, SequenceTheorems, TLAPS

SndT == INSTANCE SenderMachineProofs
          WITH Destinations <- {entity_id, peer}, Encodable <- {entity_id, peer},
               Listings <- {}

\* The PDUs of the receiver are here all that a network of such PDUs can deliver.
RcvT == INSTANCE ReceiverMachineProofs
          WITH Transactions <- 1 .. MaxPuts, FileNames <- SourceFiles \cup TargetFiles,
               Messages <- {<<>>},
               Segments <- [segment_offset : Nat, file_data : Seq(Word)],
               EofChecksums <- Word, EofSizes <- Nat, errors <- receiver_errors

LEMMA SenderAssumed == SndT!SenderAssumption
BY EntitiesAssumption
   DEF SndT!SenderAssumption, SndT!Word, Word, SndT!NoName, NoName,
       SndT!VIRTUAL_LISTING_FILENAME, VIRTUAL_LISTING_FILENAME, SndT!ChecksumTypes,
       ChecksumTypes

LEMMA ReceiverAssumed == RcvT!ReceiverAssumption
BY EntitiesAssumption, EmptySeq
   DEF RcvT!ReceiverAssumption, RcvT!Word, Word, RcvT!NoName, NoName,
       RcvT!ChecksumTypes, ChecksumTypes, RcvT!MessageTypes

LEMMA WordsAssumed == SndT!WordModulusAssumption /\ RcvT!WordModulusAssumption
BY WordModulusAssumption DEF SndT!WordModulusAssumption, RcvT!WordModulusAssumption

LEMMA SameSender ==
  /\ Snd!Init <=> SndT!Init
  /\ \A dest, src, dst : Snd!Put(dest, src, dst) <=> SndT!Put(dest, src, dst)
  /\ Snd!SendFileData <=> SndT!SendFileData
  /\ Snd!Request <=> SndT!Request
  /\ Snd!LinkState <=> SndT!LinkState
  /\ Snd!TransportIsReadyCallback <=> SndT!TransportIsReadyCallback
BY DEF Snd!Put, SndT!Put, Snd!NewSender, SndT!NewSender, Snd!VIRTUAL_LISTING_FILENAME,
       SndT!VIRTUAL_LISTING_FILENAME, Snd!OpenTransaction, SndT!OpenTransaction,
       Snd!Indicate, SndT!Indicate, Snd!Indications, SndT!Indications, Snd!MetadataSent,
       SndT!MetadataSent, Snd!MetadataPdu, SndT!MetadataPdu, Snd!IsFileTransfer,
       SndT!IsFileTransfer, Snd!NoName, SndT!NoName, Snd!StartSending, SndT!StartSending,
       Snd!MetadataRejected, SndT!MetadataRejected, Snd!IssueError, SndT!IssueError,
       Snd!Close, SndT!Close, Snd!Return, SndT!Return, Snd!SizeRead, SndT!SizeRead,
       Snd!transaction_get_file_size, SndT!transaction_get_file_size, Snd!FileWords,
       SndT!FileWords, Snd!IsListing, SndT!IsListing, Snd!SendFileData, SndT!SendFileData,
       Snd!HeldBack, SndT!HeldBack, Snd!Held, SndT!Held, Snd!UnchangedOutput,
       SndT!UnchangedOutput, Snd!TransportNotReady, SndT!TransportNotReady,
       Snd!TransportReady, SndT!TransportReady, Snd!SendSegment, SndT!SendSegment,
       Snd!transaction_is_file_send_complete, SndT!transaction_is_file_send_complete,
       Snd!Readable, SndT!Readable, Snd!SegmentLength, SndT!SegmentLength,
       Snd!FILE_SEGMENT_BUFFER_SIZE, SndT!FILE_SEGMENT_BUFFER_SIZE, Snd!CFDP_ALIGN,
       SndT!CFDP_ALIGN, Snd!FileDataPdu, SndT!FileDataPdu, Snd!AsCString, SndT!AsCString,
       Snd!transaction_get_file_segment, SndT!transaction_get_file_segment, Snd!SegmentFails,
       SndT!SegmentFails, Snd!CompleteTransfer, SndT!CompleteTransfer, Snd!Eof, SndT!Eof,
       Snd!EofPdu, SndT!EofPdu, Snd!transaction_get_file_checksum,
       SndT!transaction_get_file_checksum, Snd!Checksum, SndT!Checksum, Snd!Uint32,
       SndT!Uint32, Snd!Word, SndT!Word, Snd!ModularSum, SndT!ModularSum, Snd!UnchangedFiles,
       SndT!UnchangedFiles, Snd!Request, SndT!Request, Snd!Ids, SndT!Ids, Snd!Cancel,
       SndT!Cancel, Snd!ToActiveSender, SndT!ToActiveSender, Snd!UnchangedByRequest,
       SndT!UnchangedByRequest, Snd!Suspend, SndT!Suspend, Snd!Resume, SndT!Resume,
       Snd!Abandon, SndT!Abandon, Snd!DeliverPdu, SndT!DeliverPdu, Snd!LinkState,
       SndT!LinkState, Snd!Freeze, SndT!Freeze, Snd!Thaw, SndT!Thaw,
       Snd!TransportIsReadyCallback, SndT!TransportIsReadyCallback, Snd!Init, SndT!Init,
       Snd!vars, SndT!vars

LEMMA SameReceiver ==
  /\ Rcv!Init <=> RcvT!Init
  /\ \A pdu : Rcv!ReceivedPdu(pdu) <=> RcvT!ReceivedPdu(pdu)
  /\ Rcv!Request <=> RcvT!Request
  /\ Rcv!TimerExpired <=> RcvT!TimerExpired
  /\ \A r : Rcv!Stores(r) <=> RcvT!Stores(r)
  /\ \A f, name : Rcv!Content(f, name) = RcvT!Content(f, name)
BY DEF Rcv!ReceivedPdu, RcvT!ReceivedPdu, Rcv!PduOfKnownTransaction,
       RcvT!PduOfKnownTransaction, Rcv!IsRequestToReceiver, RcvT!IsRequestToReceiver,
       Rcv!Active, RcvT!Active, Rcv!DeliverPdu, RcvT!DeliverPdu, Rcv!FinishAtOnce,
       RcvT!FinishAtOnce, Rcv!Result, RcvT!Result, Rcv!Close, RcvT!Close, Rcv!Coded,
       RcvT!Coded, Rcv!EofReceived, RcvT!EofReceived, Rcv!Stores, RcvT!Stores,
       Rcv!IsFileTransfer, RcvT!IsFileTransfer, Rcv!NoName, RcvT!NoName, Rcv!Fault,
       RcvT!Fault, Rcv!DEFAULT_FAULT_HANDLER_ACTIONS, RcvT!DEFAULT_FAULT_HANDLER_ACTIONS,
       Rcv!ConditionCodes, RcvT!ConditionCodes, Rcv!CancelReceived, RcvT!CancelReceived,
       Rcv!Unsupported, RcvT!Unsupported, Rcv!AbandonReceived, RcvT!AbandonReceived,
       Rcv!transaction_get_stored_file_checksum, RcvT!transaction_get_stored_file_checksum,
       Rcv!Checksum, RcvT!Checksum, Rcv!Uint32, RcvT!Uint32, Rcv!Word, RcvT!Word,
       Rcv!ModularSum, RcvT!ModularSum, Rcv!Content, RcvT!Content, Rcv!Rejected,
       RcvT!Rejected, Rcv!Deleted, RcvT!Deleted, Rcv!MetadataReceived, RcvT!MetadataReceived,
       Rcv!SaidOfFirst, RcvT!SaidOfFirst, Rcv!Said, RcvT!Said, Rcv!FileDataReceived,
       RcvT!FileDataReceived, Rcv!Replaced, RcvT!Replaced, Rcv!Written, RcvT!Written,
       Rcv!Becomes, RcvT!Becomes, Rcv!Entries, RcvT!Entries, Rcv!TimerId, RcvT!TimerId,
       Rcv!PduOfNewTransaction, RcvT!PduOfNewTransaction, Rcv!OtherPdus, RcvT!OtherPdus,
       Rcv!NewReceiver, RcvT!NewReceiver, Rcv!PduRefused, RcvT!PduRefused, Rcv!Request,
       RcvT!Request, Rcv!Cancel, RcvT!Cancel, Rcv!Handled, RcvT!Handled, Rcv!Idle, RcvT!Idle,
       Rcv!Abandon, RcvT!Abandon, Rcv!SuspendOrResume, RcvT!SuspendOrResume, Rcv!Report,
       RcvT!Report, Rcv!TimerExpired, RcvT!TimerExpired, Rcv!Init, RcvT!Init, Rcv!vars,
       RcvT!vars

-----------------------------------------------------------------------------
(***************************************************************************)
(* The wire.                                                                *)
(***************************************************************************)
\* The PDUs the sender can build.
LEMMA PdusAre ==
  ASSUME NEW pdu \in SndT!Pdus
  PROVE  /\ pdu.id \in 1 .. MaxPuts /\ pdu.id \in Nat
         /\ pdu.kind \in {"MD", "FD", "EOF"}
         /\ pdu.kind = "FD" => pdu \in FileDataPdus(1 .. MaxPuts)
         /\ pdu.kind = "EOF" => pdu \in EofPdus(1 .. MaxPuts)
BY EntitiesAssumption
   DEF SndT!Pdus, SndT!Ids, SndT!MetadataPdus, SndT!FileDataPdus, SndT!EofPdus,
       FileDataPdus, EofPdus, SndT!Word, Word, SndT!ConditionCodes, ConditionCodes

IsMetadata(i) == i \in DOMAIN wire /\ wire[i].kind = "MD"

\* What is announced is a file; each transaction is announced once, and the current
\* one is the last.
AnnouncedOnce ==
  /\ \A i : IsMetadata(i) => /\ wire[i].source_file_name \in SourceFiles
                             /\ wire[i].destination_file_name \in TargetFiles
  /\ \A i \in DOMAIN wire : wire[i].id <= sender.id
  /\ \A i, j : IsMetadata(i) /\ IsMetadata(j) /\ wire[i].id = wire[j].id =>
       /\ wire[i].source_file_name = wire[j].source_file_name
       /\ wire[i].destination_file_name = wire[j].destination_file_name
  /\ sender.state # "COMPLETED" =>
       /\ sender.source_filename \in SourceFiles
       /\ \A i : IsMetadata(i) /\ wire[i].id = sender.id =>
            /\ wire[i].source_file_name = sender.source_filename
            /\ wire[i].destination_file_name = sender.destination_filename

\* An EOF tells size and checksum of the file that was announced.
EofsTell ==
  \A i \in DOMAIN wire : wire[i].kind = "EOF" =>
    /\ wire[i].condition_code \in {"no_error", "cancel_request_received"}
    /\ \A j : IsMetadata(j) /\ wire[j].id = wire[i].id =>
         /\ wire[i].file_size = Len(store[wire[j].source_file_name])
         /\ wire[i].file_checksum
              = Checksum(store[wire[j].source_file_name], checksum_type)

\* The names the receiver works with are those announced for its transaction.
NamesAreAnnounced ==
  receiver.destination_filename # NoName =>
    \E i : /\ IsMetadata(i) /\ wire[i].id = receiver.id
           /\ wire[i].source_file_name = receiver.source_filename
           /\ wire[i].destination_file_name = receiver.destination_filename

\* What holds of the wire.
WireInv == AnnouncedOnce /\ EofsTell

LEMMA SenderFacts ==
  ASSUME SndT!Inv
  PROVE  /\ wire \in Seq(SndT!Pdus)
         /\ Len(wire) \in Nat /\ DOMAIN wire = 1 .. Len(wire)
         /\ \A i \in DOMAIN wire : wire[i] \in SndT!Pdus
         /\ sender.id \in Nat /\ sender.source_filename \in SndT!SourceNames
         /\ store \in [SourceFiles -> Contents]
<1>1. wire \in Seq(SndT!Pdus)
  BY DEF SndT!Inv, SndT!TypeOK
<1>2. sender.id \in 0 .. MaxPuts /\ sender.source_filename \in SndT!SourceNames
  BY DEF SndT!Inv, SndT!TypeOK, SndT!SenderRecords
<1>3. store \in [SourceFiles -> Contents]
  BY DEF SndT!Inv, SndT!TypeOK
<1> QED BY <1>1, <1>2, <1>3, ElementOfSeq, LenProperties, EntitiesAssumption

\* A PDU is put behind the others.
LEMMA Posted ==
  ASSUME SndT!Inv, NEW pdu \in SndT!Pdus, wire' = Append(wire, pdu)
  PROVE  /\ DOMAIN wire' = DOMAIN wire \cup {Len(wire) + 1}
         /\ \A i \in DOMAIN wire : wire'[i] = wire[i] /\ i # Len(wire) + 1
         /\ wire'[Len(wire) + 1] = pdu
<1>1. wire \in Seq(SndT!Pdus) /\ Len(wire) \in Nat /\ DOMAIN wire = 1 .. Len(wire)
  BY SenderFacts
<1>2. /\ wire' \in Seq(SndT!Pdus) /\ Len(wire') = Len(wire) + 1
      /\ \A i \in 1 .. Len(wire) : wire'[i] = wire[i]
      /\ wire'[Len(wire) + 1] = pdu
  BY <1>1, AppendProperties
<1>3. DOMAIN wire' = 1 .. Len(wire) + 1
  BY <1>2, LenProperties
<1> QED BY <1>1, <1>2, <1>3

Longer ==
  /\ \A i \in DOMAIN wire : i \in DOMAIN wire' /\ wire'[i] = wire[i]

\* What a PDU that was sent is to the receiver.
LEMMA Arriving ==
  ASSUME SndT!Inv, AnnouncedOnce, EofsTell, NEW i \in DOMAIN wire
  PROVE  /\ Decoded(wire[i]) \in RcvT!Pdus
         /\ Decoded(wire[i]).kind = wire[i].kind
         /\ Decoded(wire[i]).id = wire[i].id
         /\ wire[i].kind = "MD" =>
              /\ Decoded(wire[i]).source_file_name = wire[i].source_file_name
              /\ Decoded(wire[i]).destination_file_name = wire[i].destination_file_name
         /\ wire[i].kind # "MD" => Decoded(wire[i]) = wire[i]
         /\ wire[i].kind = "FD" =>
              wire[i].segment_offset \in Nat /\ wire[i].file_data \in Seq(Word)
<1>1. /\ wire[i].id \in 1 .. MaxPuts
      /\ wire[i].kind \in {"MD", "FD", "EOF"}
      /\ wire[i].kind = "FD" => wire[i] \in FileDataPdus(1 .. MaxPuts)
      /\ wire[i].kind = "EOF" => wire[i] \in EofPdus(1 .. MaxPuts)
  BY SenderFacts, PdusAre
<1>2. CASE wire[i].kind = "MD"
  <2>1. wire[i].source_file_name \in SourceFiles /\ wire[i].destination_file_name \in TargetFiles
    BY <1>2 DEF AnnouncedOnce, IsMetadata
  <2>2. Decoded(wire[i]) \in RcvT!Pdus
    BY <1>1, <1>2, <2>1 DEF Decoded, RcvT!Pdus, RcvT!Names
  <2> QED BY <1>2, <2>2 DEF Decoded
<1>3. CASE wire[i].kind = "FD"
  <2> DEFINE s == [segment_offset |-> wire[i].segment_offset, file_data |-> wire[i].file_data]
  <2>1. wire[i] \in FileDataPdus(1 .. MaxPuts) /\ Decoded(wire[i]) = wire[i]
    BY <1>1, <1>3 DEF Decoded
  <2>2. /\ s \in [segment_offset : Nat, file_data : Seq(Word)]
        /\ wire[i] = [kind |-> "FD", id |-> wire[i].id, segment_offset |-> s.segment_offset,
                      file_data |-> s.file_data]
    BY <2>1 DEF FileDataPdus
  <2> HIDE DEF s
  <2>3. wire[i] \in RcvT!Pdus
    BY <1>1, <2>2 DEF RcvT!Pdus
  <2> QED BY <1>3, <2>1, <2>3 DEF FileDataPdus
<1>4. CASE wire[i].kind = "EOF"
  <2>1. /\ wire[i] \in EofPdus(1 .. MaxPuts) /\ Decoded(wire[i]) = wire[i]
        /\ wire[i].condition_code \in {"no_error", "cancel_request_received"}
    BY <1>1, <1>4 DEF Decoded, EofsTell
  <2>2. wire[i] \in [kind : {"EOF"}, id : 1 .. MaxPuts,
                     condition_code : {"no_error", "cancel_request_received"},
                     file_checksum : Word, file_size : Nat]
    BY <2>1 DEF EofPdus
  <2>3. wire[i] \in RcvT!Pdus
    BY <2>2 DEF RcvT!Pdus
  <2> QED BY <1>4, <2>1, <2>3
<1> QED BY <1>1, <1>2, <1>3, <1>4

-----------------------------------------------------------------------------
(***************************************************************************)
(* The sending entity.                                                      *)
(***************************************************************************)
LEMMA SameChecksum ==
  ASSUME NEW content, NEW type
  PROVE  /\ SndT!Checksum(content, type) = Checksum(content, type)
         /\ RcvT!Checksum(content, type) = Checksum(content, type)
BY DEF Checksum, ModularSum, Uint32, Word, SndT!Checksum, SndT!ModularSum, SndT!Uint32,
       SndT!Word, RcvT!Checksum, RcvT!ModularSum, RcvT!Uint32, RcvT!Word

\* The words of a source file are those in the store.
LEMMA SourceWords ==
  ASSUME NEW s, s.source_filename \in SourceFiles
  PROVE  SndT!FileWords(s) = store[s.source_filename]
BY EntitiesAssumption
   DEF SndT!FileWords, SndT!IsListing, SndT!NoName, SndT!VIRTUAL_LISTING_FILENAME,
       NoName, VIRTUAL_LISTING_FILENAME

LEMMA SendingIsNext == SendingEntity => SndT!Next
<1> SUFFICES ASSUME SendingEntity PROVE SndT!Next
  OBVIOUS
<1>1. ASSUME NEW src \in SourceFiles, NEW dst \in TargetFiles, Snd!Put(peer, src, dst)
      PROVE  SndT!NewTransaction
  <2>1. src \in SndT!SourceNames /\ dst \in SndT!TargetNames /\ peer \in {entity_id, peer}
    BY DEF SndT!SourceNames, SndT!TargetNames
  <2>2. SndT!Put(peer, src, dst)
    BY <1>1, SameSender
  <2> QED BY <2>1, <2>2 DEF SndT!NewTransaction
<1> QED BY <1>1, SameSender DEF SendingEntity, SndT!Next

\* A put announces its names for a transaction of its own.
LEMMA PutWire ==
  ASSUME SndT!Inv, AnnouncedOnce, EofsTell,
         NEW src \in SourceFiles, NEW dst \in TargetFiles, SndT!Put(peer, src, dst)
  PROVE  AnnouncedOnce' /\ EofsTell' /\ Longer /\ store' = store
<1>1. /\ sender'.id = sender.id + 1 /\ store' = store
      /\ \/ /\ \E pdu \in SndT!Pdus : /\ pdu.kind = "MD" /\ pdu.id = sender'.id
                                      /\ pdu.source_file_name = src
                                      /\ pdu.destination_file_name = dst
                                      /\ wire' = Append(wire, pdu)
            /\ sender'.source_filename = src
            /\ sender'.destination_filename = dst
         \/ wire' = wire /\ sender'.state = "COMPLETED"
  <2>1. src \in SndT!SourceNames /\ dst \in SndT!TargetNames /\ peer \in {entity_id, peer}
    BY DEF SndT!SourceNames, SndT!TargetNames
  <2> QED BY <2>1, SenderAssumed, WordsAssumed, SndT!PutSends
<1>2. sender.id \in Nat /\ \A i \in DOMAIN wire : wire[i].id \in Nat
  BY SenderFacts, PdusAre
<1>3. CASE wire' = wire /\ sender'.state = "COMPLETED"
  <2>1. \A i : IsMetadata(i)' <=> IsMetadata(i)
    BY <1>3 DEF IsMetadata
  <2>2. AnnouncedOnce'
    BY <1>1, <1>2, <1>3, <2>1 DEF AnnouncedOnce
  <2>3. EofsTell'
    BY <1>1, <1>3, <2>1 DEF EofsTell
  <2> QED BY <1>1, <1>3, <2>2, <2>3 DEF Longer
<1>4. ASSUME NEW pdu \in SndT!Pdus, pdu.kind = "MD", pdu.id = sender'.id,
             pdu.source_file_name = src, pdu.destination_file_name = dst,
             wire' = Append(wire, pdu),
             sender'.source_filename = src, sender'.destination_filename = dst
      PROVE  AnnouncedOnce' /\ EofsTell' /\ Longer
  <2>1. PICK n : n = Len(wire) + 1
    OBVIOUS
  <2>2. /\ DOMAIN wire' = DOMAIN wire \cup {n}
        /\ \A i \in DOMAIN wire : wire'[i] = wire[i] /\ i # n
        /\ wire'[n] = pdu
    BY <1>4, <2>1, Posted
  <2>3. \A i : IsMetadata(i)' <=> IsMetadata(i) \/ i = n
    BY <1>4, <2>2 DEF IsMetadata
  <2>4. \A i : IsMetadata(i) => i \in DOMAIN wire /\ wire'[i] = wire[i]
    BY <2>2 DEF IsMetadata
  <2>5. \A i \in DOMAIN wire : wire'[i].id # pdu.id /\ wire'[i].id <= sender'.id
    BY <1>1, <1>2, <1>4, <2>2 DEF AnnouncedOnce
  <2>6. /\ \A i : IsMetadata(i)' => /\ wire'[i].source_file_name \in SourceFiles
                                    /\ wire'[i].destination_file_name \in TargetFiles
    BY <1>4, <2>2, <2>3, <2>4 DEF AnnouncedOnce
  <2>7. \A i \in DOMAIN wire' : wire'[i].id <= sender'.id
    BY <1>1, <1>2, <1>4, <2>2, <2>5
  <2>8. \A i, j : IsMetadata(i)' /\ IsMetadata(j)' /\ wire'[i].id = wire'[j].id =>
          /\ wire'[i].source_file_name = wire'[j].source_file_name
          /\ wire'[i].destination_file_name = wire'[j].destination_file_name
    BY <2>2, <2>3, <2>4, <2>5 DEF AnnouncedOnce
  <2>9. \A i : IsMetadata(i)' /\ wire'[i].id = sender'.id =>
            /\ wire'[i].source_file_name = sender'.source_filename
            /\ wire'[i].destination_file_name = sender'.destination_filename
    BY <1>4, <2>2, <2>3, <2>4, <2>5
  <2>10. AnnouncedOnce'
    BY <1>4, <2>6, <2>7, <2>8, <2>9 DEF AnnouncedOnce
  <2>11. EofsTell'
    <3> SUFFICES ASSUME NEW i \in DOMAIN wire', wire'[i].kind = "EOF"
                 PROVE  /\ wire'[i].condition_code \in {"no_error", "cancel_request_received"}
                        /\ \A j : IsMetadata(j)' /\ wire'[j].id = wire'[i].id =>
                             /\ wire'[i].file_size = Len(store'[wire'[j].source_file_name])
                             /\ wire'[i].file_checksum
                                  = Checksum(store'[wire'[j].source_file_name], checksum_type)
      BY DEF EofsTell
    <3>1. i \in DOMAIN wire /\ wire'[i] = wire[i] /\ wire[i].id # pdu.id
      BY <1>4, <2>2, <2>5
    <3> QED BY <1>1, <2>2, <2>3, <2>4, <3>1 DEF EofsTell
  <2> QED BY <2>2, <2>10, <2>11 DEF Longer
<1> QED BY <1>1, <1>3, <1>4

\* Whatever else the sender does, it says nothing of the names, and an EOF it sends
\* tells the file that was announced.
LEMMA OngoingWire ==
  ASSUME SndT!Inv, AnnouncedOnce, EofsTell, SndT!OngoingSends
  PROVE  AnnouncedOnce' /\ EofsTell' /\ Longer /\ store' = store
<1>1. /\ sender'.id = sender.id
      /\ sender'.source_filename = sender.source_filename
      /\ sender'.destination_filename = sender.destination_filename
      /\ sender'.state # "COMPLETED" => sender.state # "COMPLETED"
      /\ store' = store
  BY DEF SndT!OngoingSends, SndT!SameTransaction
<1>2. CASE wire' = wire
  <2>1. \A i : IsMetadata(i)' <=> IsMetadata(i)
    BY <1>2 DEF IsMetadata
  <2>2. AnnouncedOnce'
    BY <1>1, <1>2, <2>1 DEF AnnouncedOnce
  <2>3. EofsTell'
    BY <1>1, <1>2, <2>1 DEF EofsTell
  <2> QED BY <1>1, <1>2, <2>2, <2>3 DEF Longer
<1>3. ASSUME NEW pdu \in SndT!Pdus, pdu.id = sender.id, sender.state # "COMPLETED",
             pdu.kind = "FD" \/ SndT!TellsFile(pdu), wire' = Append(wire, pdu)
      PROVE  AnnouncedOnce' /\ EofsTell' /\ Longer
  <2>1. PICK n : n = Len(wire) + 1
    OBVIOUS
  <2>2. /\ DOMAIN wire' = DOMAIN wire \cup {n}
        /\ \A i \in DOMAIN wire : wire'[i] = wire[i] /\ i # n
        /\ wire'[n] = pdu
    BY <1>3, <2>1, Posted
  <2>3. pdu.kind # "MD"
    BY <1>3 DEF SndT!TellsFile
  <2>4. \A i : IsMetadata(i)' <=> IsMetadata(i)
    BY <2>2, <2>3 DEF IsMetadata
  <2>5. \A i : IsMetadata(i) => i \in DOMAIN wire /\ wire'[i] = wire[i]
    BY <2>2 DEF IsMetadata
  <2>6. AnnouncedOnce'
    <3>1. \A i \in DOMAIN wire' : wire'[i].id <= sender'.id
      <4>1. sender.id <= sender.id
        BY SenderFacts
      <4> QED BY <1>1, <1>3, <2>2, <4>1 DEF AnnouncedOnce
    <3> QED BY <1>1, <2>4, <2>5, <3>1 DEF AnnouncedOnce
  <2>7. pdu.kind = "EOF" =>
          /\ pdu.condition_code \in {"no_error", "cancel_request_received"}
          /\ pdu.file_size = Len(store[sender.source_filename])
          /\ pdu.file_checksum = Checksum(store[sender.source_filename], checksum_type)
    <3>1. sender.source_filename \in SourceFiles
      BY <1>3 DEF AnnouncedOnce
    <3> QED BY <1>3, <3>1, SourceWords, SameChecksum DEF SndT!TellsFile
  <2>8. EofsTell'
    <3> SUFFICES ASSUME NEW i \in DOMAIN wire', wire'[i].kind = "EOF"
                 PROVE  /\ wire'[i].condition_code \in {"no_error", "cancel_request_received"}
                        /\ \A j : IsMetadata(j)' /\ wire'[j].id = wire'[i].id =>
                             /\ wire'[i].file_size = Len(store'[wire'[j].source_file_name])
                             /\ wire'[i].file_checksum
                                  = Checksum(store'[wire'[j].source_file_name], checksum_type)
      BY DEF EofsTell
    <3>1. CASE i \in DOMAIN wire
      BY <1>1, <2>2, <2>4, <2>5, <3>1 DEF EofsTell
    <3>2. CASE i = n
      <4>1. \A j : IsMetadata(j) /\ wire[j].id = sender.id =>
                     wire[j].source_file_name = sender.source_filename
        BY <1>3 DEF AnnouncedOnce
      <4> QED BY <1>1, <1>3, <2>2, <2>4, <2>5, <2>7, <3>2, <4>1
    <3> QED BY <2>2, <3>1, <3>2
  <2> QED BY <2>2, <2>6, <2>8 DEF Longer
<1> QED BY <1>1, <1>2, <1>3 DEF SndT!OngoingSends

LEMMA SendingWire ==
  ASSUME SndT!Inv, AnnouncedOnce, EofsTell, SendingEntity
  PROVE  AnnouncedOnce' /\ EofsTell' /\ Longer /\ store' = store
<1>1. ASSUME NEW src \in SourceFiles, NEW dst \in TargetFiles, Snd!Put(peer, src, dst)
      PROVE  AnnouncedOnce' /\ EofsTell' /\ Longer /\ store' = store
  BY <1>1, SameSender, PutWire
<1>2. CASE Snd!SendFileData \/ Snd!Request \/ Snd!LinkState \/ Snd!TransportIsReadyCallback
  <2>1. SndT!SendFileData \/ SndT!Request \/ SndT!LinkState \/ SndT!TransportIsReadyCallback
    BY <1>2, SameSender
  <2>2. SndT!OngoingSends
    BY <2>1, SenderAssumed, WordsAssumed, SndT!OngoingStep
  <2> QED BY <2>2, OngoingWire
<1> QED BY <1>1, <1>2 DEF SendingEntity

-----------------------------------------------------------------------------
(***************************************************************************)
(* The entities by themselves.                                              *)
(***************************************************************************)
LEMMA SenderUntouched ==
  Deliver \/ ReceivingEntity \/ UNCHANGED vars => UNCHANGED senderVars
BY DEF Deliver, ReceivingEntity, vars, senderVars

LEMMA SenderRuns == Spec => SndT!Spec
<1>1. Init => SndT!Init
  BY SameSender DEF Init
<1>2. [Next]_vars => [SndT!Next]_(SndT!vars)
  <2>1. UNCHANGED senderVars => UNCHANGED SndT!vars
    BY DEF senderVars, SndT!vars
  <2> QED BY <2>1, SenderUntouched, SendingIsNext DEF Next
<1> QED BY <1>1, <1>2, PTL DEF Spec, SndT!Spec

LEMMA SenderInvariance == Spec => []SndT!Inv
<1>1. SndT!Spec => []SndT!Inv
  BY SenderAssumed, WordsAssumed, SndT!Invariance
<1> QED BY <1>1, SenderRuns, PTL

LEMMA WireStep == SndT!Inv /\ WireInv /\ [Next]_vars => WireInv'
<1> SUFFICES ASSUME SndT!Inv, WireInv, [Next]_vars PROVE WireInv'
  OBVIOUS
<1>1. CASE SendingEntity
  BY <1>1, SendingWire DEF WireInv
<1>2. CASE UNCHANGED senderVars
  BY <1>2 DEF senderVars, WireInv, AnnouncedOnce, EofsTell, IsMetadata
<1> QED BY <1>1, <1>2, SenderUntouched DEF Next

LEMMA WireInvariance == Spec => []WireInv
<1>1. Init => WireInv
  <2>1. Init => wire = <<>> /\ sender.state = "COMPLETED"
    BY SameSender DEF Init, SndT!Init, SndT!Close, SndT!NewSender
  <2> QED BY <2>1 DEF WireInv, AnnouncedOnce, EofsTell, IsMetadata
<1> QED BY <1>1, WireStep, SenderInvariance, PTL DEF Spec

LEMMA DeliverArrives ==
  ASSUME SndT!Inv, WireInv, Deliver
  PROVE  \E i \in DOMAIN wire : /\ Decoded(wire[i]) \in RcvT!Pdus
                                /\ RcvT!ReceivedPdu(Decoded(wire[i]))
<1>1. PICK i \in DOMAIN wire : Rcv!ReceivedPdu(Decoded(wire[i]))
  BY DEF Deliver
<1>2. RcvT!ReceivedPdu(Decoded(wire[i]))
  BY <1>1, SameReceiver
<1>3. Decoded(wire[i]) \in RcvT!Pdus
  BY Arriving DEF WireInv
<1> QED BY <1>2, <1>3

LEMMA ReceiverUntouched ==
  SendingEntity \/ UNCHANGED vars => UNCHANGED RcvT!vars /\ UNCHANGED receiverVars
BY DEF SendingEntity, vars, receiverVars, RcvT!vars

LEMMA ReceiverSteps == SndT!Inv /\ WireInv /\ [Next]_vars => [RcvT!Next]_(RcvT!vars)
<1> SUFFICES ASSUME SndT!Inv, WireInv, [Next]_vars PROVE [RcvT!Next]_(RcvT!vars)
  OBVIOUS
<1>1. CASE Deliver
  BY <1>1, DeliverArrives DEF RcvT!Next, RcvT!Receives
<1>2. CASE ReceivingEntity
  BY <1>2, SameReceiver DEF ReceivingEntity, RcvT!Next
<1> QED BY <1>1, <1>2, ReceiverUntouched DEF Next

LEMMA ReceiverRuns == Spec => RcvT!Spec
<1>1. Init => RcvT!Init
  BY SameReceiver DEF Init
<1> QED BY <1>1, ReceiverSteps, SenderInvariance, WireInvariance, PTL DEF Spec, RcvT!Spec

LEMMA ReceiverInvariance == Spec => []RcvT!Inv
<1>1. RcvT!Spec => []RcvT!Inv
  BY ReceiverAssumed, WordsAssumed, RcvT!Invariance
<1> QED BY <1>1, ReceiverRuns, PTL

\* In the transfer each entity behaves as it does by itself, among any users and
\* with any PDUs coming in: what is proved of a machine holds of it here.
THEOREM EntitiesBehave == Spec => SndT!Spec /\ RcvT!Spec
BY SenderRuns, ReceiverRuns, PTL

\* What a step may do to the receiver, and that the wire only grows.
LEMMA StepEffects ==
  ASSUME SndT!Inv, RcvT!Inv, WireInv, [Next]_vars
  PROVE  /\ Longer /\ store' = store
         /\ \/ UNCHANGED <<receiver, files, log>>
            \/ wire' = wire /\ RcvT!QuietEffect
            \/ wire' = wire /\ \E i \in DOMAIN wire : RcvT!PduEffect(Decoded(wire[i]))
<1>1. UNCHANGED senderVars => wire' = wire /\ store' = store /\ Longer
  BY DEF senderVars, Longer
<1>2. CASE SendingEntity
  BY <1>2, SendingWire, ReceiverUntouched DEF receiverVars, WireInv
<1>3. CASE UNCHANGED vars
  BY <1>1, <1>3, SenderUntouched, ReceiverUntouched DEF receiverVars
<1>4. CASE Deliver
  <2>1. PICK i \in DOMAIN wire : /\ Decoded(wire[i]) \in RcvT!Pdus
                                 /\ RcvT!ReceivedPdu(Decoded(wire[i]))
    BY <1>4, DeliverArrives
  <2>2. RcvT!PduEffect(Decoded(wire[i]))
    BY <2>1, ReceiverAssumed, WordsAssumed, RcvT!PduStep
  <2> QED BY <1>1, <1>4, <2>2, SenderUntouched
<1>5. CASE ReceivingEntity
  <2>1. RcvT!Request \/ RcvT!TimerExpired
    BY <1>5, SameReceiver DEF ReceivingEntity
  <2>2. RcvT!QuietEffect
    BY <2>1, ReceiverAssumed, WordsAssumed, RcvT!QuietStep
  <2> QED BY <1>1, <1>5, <2>2, SenderUntouched
<1> QED BY <1>2, <1>3, <1>4, <1>5 DEF Next

-----------------------------------------------------------------------------
(***************************************************************************)
(* The names of the receiver.                                               *)
(***************************************************************************)
LEMMA NamesStep ==
  SndT!Inv /\ RcvT!Inv /\ WireInv /\ NamesAreAnnounced /\ [Next]_vars => NamesAreAnnounced'
<1> SUFFICES ASSUME SndT!Inv, RcvT!Inv, WireInv, NamesAreAnnounced, [Next]_vars,
                    receiver'.destination_filename # NoName
             PROVE  \E i : /\ IsMetadata(i)' /\ wire'[i].id = receiver'.id
                           /\ wire'[i].source_file_name = receiver'.source_filename
                           /\ wire'[i].destination_file_name = receiver'.destination_filename
  BY DEF NamesAreAnnounced
<1>1. \A i : IsMetadata(i) => IsMetadata(i)' /\ wire'[i] = wire[i]
  BY StepEffects DEF Longer, IsMetadata
<1>2. ASSUME NEW r,
             \/ r = receiver
             \/ \E i \in DOMAIN wire : r = RcvT!NewReceiver(Decoded(wire[i])),
             RcvT!SameTransaction(r, receiver')
      PROVE  \E i : /\ IsMetadata(i) /\ wire[i].id = receiver'.id
                    /\ wire[i].source_file_name = receiver'.source_filename
                    /\ wire[i].destination_file_name = receiver'.destination_filename
  <2>1. /\ receiver'.id = r.id
        /\ receiver'.source_filename = r.source_filename
        /\ receiver'.destination_filename = r.destination_filename
    BY <1>2 DEF RcvT!SameTransaction
  <2>2. CASE r = receiver
    BY <2>1, <2>2 DEF NamesAreAnnounced
  <2>3. CASE \E i \in DOMAIN wire : r = RcvT!NewReceiver(Decoded(wire[i]))
    <3>1. PICK i \in DOMAIN wire : r = RcvT!NewReceiver(Decoded(wire[i]))
      BY <2>3
    <3>2. /\ Decoded(wire[i]).kind = wire[i].kind
          /\ Decoded(wire[i]).id = wire[i].id
          /\ wire[i].kind = "MD" =>
               /\ Decoded(wire[i]).source_file_name = wire[i].source_file_name
               /\ Decoded(wire[i]).destination_file_name = wire[i].destination_file_name
      BY Arriving DEF WireInv
    <3>3. r.id = wire[i].id
      BY <3>1, <3>2 DEF RcvT!NewReceiver
    <3>4. CASE wire[i].kind = "MD"
      <4>1. /\ r.source_filename = wire[i].source_file_name
            /\ r.destination_filename = wire[i].destination_file_name
        BY <3>1, <3>2, <3>4 DEF RcvT!NewReceiver
      <4> QED BY <2>1, <3>3, <3>4, <4>1 DEF IsMetadata
    <3>5. CASE wire[i].kind # "MD"
      <4>1. r.destination_filename = NoName
        BY <3>1, <3>2, <3>5 DEF RcvT!NewReceiver, RcvT!NoName, NoName
      <4> QED BY <2>1, <4>1
    <3> QED BY <3>4, <3>5
  <2> QED BY <1>2, <2>2, <2>3
<1>3. \E r : /\ \/ r = receiver
                \/ \E i \in DOMAIN wire : r = RcvT!NewReceiver(Decoded(wire[i]))
             /\ RcvT!SameTransaction(r, receiver')
  <2>1. CASE UNCHANGED receiver
    BY <2>1 DEF RcvT!SameTransaction
  <2>2. CASE RcvT!QuietEffect
    BY <2>2 DEF RcvT!QuietEffect
  <2>3. ASSUME NEW i \in DOMAIN wire, RcvT!PduEffect(Decoded(wire[i])), receiver' # receiver
        PROVE  \E r : /\ r = receiver \/ r = RcvT!NewReceiver(Decoded(wire[i]))
                      /\ RcvT!SameTransaction(r, receiver')
    BY <2>3 DEF RcvT!PduEffect
  <2> QED BY <2>1, <2>2, <2>3, StepEffects
<1>4. PICK r : /\ \/ r = receiver
                  \/ \E i \in DOMAIN wire : r = RcvT!NewReceiver(Decoded(wire[i]))
               /\ RcvT!SameTransaction(r, receiver')
  BY <1>3
<1>5. PICK i : /\ IsMetadata(i) /\ wire[i].id = receiver'.id
               /\ wire[i].source_file_name = receiver'.source_filename
               /\ wire[i].destination_file_name = receiver'.destination_filename
  BY <1>2, <1>4
<1> QED BY <1>1, <1>5

LEMMA NamesInvariance == Spec => []NamesAreAnnounced
<1>1. Init => NamesAreAnnounced
  <2>1. Init => RcvT!Init
    BY SameReceiver DEF Init
  <2>2. RcvT!Init => receiver.destination_filename = RcvT!NoName
    BY DEF RcvT!Init
  <2>3. RcvT!NoName = NoName
    BY DEF RcvT!NoName, NoName
  <2> QED BY <2>1, <2>2, <2>3 DEF NamesAreAnnounced
<1> QED BY <1>1, NamesStep, SenderInvariance, ReceiverInvariance, WireInvariance, PTL DEF Spec

-----------------------------------------------------------------------------
(***************************************************************************)
(* The files.                                                               *)
(***************************************************************************)
\* WasSent and FilesHoldWhatWasSent of any wire and any files.
SentOn(w, name, p, word) ==
  \E i, j \in DOMAIN w :
    /\ w[i].kind = "FD" /\ w[j].kind = "MD" /\ w[j].id = w[i].id
    /\ w[j].destination_file_name = name
    /\ p - w[i].segment_offset \in DOMAIN w[i].file_data
    /\ w[i].file_data[p - w[i].segment_offset] = word

Hold(f, w) ==
  \A name \in DOMAIN f : \A p \in DOMAIN f[name] :
    f[name][p] = 0 \/ SentOn(w, name, p, f[name][p])

LEMMA HoldMeans == FilesHoldWhatWasSent <=> Hold(files, wire)
<1>1. ASSUME NEW name, NEW p, NEW word
      PROVE  WasSent(name, p, word) <=> SentOn(wire, name, p, word)
  <2>1. ASSUME NEW id
        PROVE  (\E md \in Announced(id) : md.destination_file_name = name)
                 <=> \E j \in DOMAIN wire : /\ wire[j].kind = "MD" /\ wire[j].id = id
                                            /\ wire[j].destination_file_name = name
    BY DEF Announced
  <2> QED BY <2>1 DEF WasSent, SentOn
<1> QED BY <1>1 DEF FilesHoldWhatWasSent, Hold

LEMMA HoldLonger ==
  ASSUME Longer, NEW f, Hold(f, wire)
  PROVE  Hold(f, wire')
<1>1. ASSUME NEW name, NEW p, NEW word, SentOn(wire, name, p, word)
      PROVE  SentOn(wire', name, p, word)
  BY <1>1 DEF Longer, SentOn
<1> QED BY <1>1 DEF Hold

LEMMA SameWords == RcvT!Word = Word
BY DEF RcvT!Word, Word

LEMMA DeliveryHolds ==
  ASSUME SndT!Inv, RcvT!Inv, WireInv, NamesAreAnnounced, Hold(files, wire),
         NEW i \in DOMAIN wire, RcvT!PduEffect(Decoded(wire[i]))
  PROVE  Hold(files', wire)
<1>1. /\ Decoded(wire[i]).kind = wire[i].kind
      /\ Decoded(wire[i]).id = wire[i].id
      /\ wire[i].kind # "MD" => Decoded(wire[i]) = wire[i]
      /\ wire[i].kind = "FD" =>
           wire[i].segment_offset \in Nat /\ wire[i].file_data \in Seq(Word)
  BY Arriving DEF WireInv
<1>2. CASE files' = files
  BY <1>2
<1>3. CASE \E name : files' = RcvT!Deleted(files, name)
  BY <1>3 DEF RcvT!Deleted, Hold
<1>4. ASSUME wire[i].kind = "FD", receiver.state = "WAIT_FOR_EOF", RcvT!Stores(receiver),
             wire[i].id = receiver.id,
             NEW g, g = receiver.destination_filename, NEW content,
             content = RcvT!Written(RcvT!Content(files, g),
                                    wire[i].segment_offset, wire[i].file_data),
             files' = RcvT!Replaced(files, g, content)
      PROVE  Hold(files', wire)
  <2>1. receiver.destination_filename # NoName
    BY <1>4 DEF RcvT!Stores, RcvT!IsFileTransfer, RcvT!NoName, NoName
  <2>2. PICK j \in DOMAIN wire : /\ wire[j].kind = "MD" /\ wire[j].id = receiver.id
                                 /\ wire[j].destination_file_name = g
    BY <1>4, <2>1 DEF NamesAreAnnounced, IsMetadata
  <2>3. RcvT!Content(files, g) \in Seq(RcvT!Word)
    BY ReceiverAssumed, WordsAssumed, RcvT!TypeFacts, RcvT!ContentType DEF RcvT!Inv
  <2>4. ASSUME NEW p \in DOMAIN content
        PROVE  content[p] = 0 \/ SentOn(wire, g, p, content[p])
    <3>1. \/ /\ p - wire[i].segment_offset \in DOMAIN wire[i].file_data
             /\ content[p] = wire[i].file_data[p - wire[i].segment_offset]
          \/ p \in DOMAIN RcvT!Content(files, g) /\ content[p] = RcvT!Content(files, g)[p]
          \/ content[p] = 0
      BY <1>1, <1>4, <2>3, <2>4, SameWords, ReceiverAssumed, WordsAssumed, RcvT!WrittenWords
    <3>2. CASE /\ p - wire[i].segment_offset \in DOMAIN wire[i].file_data
               /\ content[p] = wire[i].file_data[p - wire[i].segment_offset]
      BY <1>4, <2>2, <3>2 DEF SentOn
    <3>3. CASE p \in DOMAIN RcvT!Content(files, g) /\ content[p] = RcvT!Content(files, g)[p]
      <4>1. CASE g \in DOMAIN files
        BY <3>3, <4>1 DEF RcvT!Content, Hold
      <4>2. CASE g \notin DOMAIN files
        <5>1. p \in DOMAIN <<>>
          BY <3>3, <4>2 DEF RcvT!Content
        <5> QED BY <5>1
      <4> QED BY <4>1, <4>2
    <3> QED BY <3>1, <3>2, <3>3
  <2>5. /\ DOMAIN files' = DOMAIN files \cup {g}
        /\ files'[g] = content
        /\ \A name \in DOMAIN files : name # g => files'[name] = files[name]
    BY <1>4 DEF RcvT!Replaced
  <2> QED BY <2>4, <2>5 DEF Hold
<1>5. CASE files' # files
  <2>1. PICK r : /\ \/ r = receiver /\ Decoded(wire[i]).id = receiver.id
                    \/ r = RcvT!NewReceiver(Decoded(wire[i]))
                 /\ RcvT!FilesAfter(r, files, Decoded(wire[i]), files')
                 /\ r = RcvT!NewReceiver(Decoded(wire[i])) => r.state # "WAIT_FOR_EOF"
    BY <1>5 DEF RcvT!PduEffect
  <2>2. CASE files' = RcvT!Deleted(files, r.destination_filename)
    BY <1>3, <2>2
  <2>3. CASE /\ Decoded(wire[i]).kind = "FD" /\ r.state = "WAIT_FOR_EOF" /\ RcvT!Stores(r)
             /\ files' = RcvT!Replaced(files, r.destination_filename,
                           RcvT!Written(RcvT!Content(files, r.destination_filename),
                                        Decoded(wire[i]).segment_offset,
                                        Decoded(wire[i]).file_data))
    <3>1. r = receiver /\ Decoded(wire[i]) = wire[i] /\ wire[i].id = receiver.id
      BY <1>1, <2>1, <2>3
    <3> QED BY <1>1, <1>4, <2>3, <3>1
  <2> QED BY <1>5, <2>1, <2>2, <2>3 DEF RcvT!FilesAfter
<1> QED BY <1>2, <1>5

LEMMA FilesStep ==
  /\ SndT!Inv /\ RcvT!Inv /\ WireInv /\ NamesAreAnnounced
  /\ Hold(files, wire) /\ [Next]_vars
  => Hold(files', wire')
<1> SUFFICES ASSUME SndT!Inv, RcvT!Inv, WireInv, NamesAreAnnounced, Hold(files, wire),
                    [Next]_vars
             PROVE  Hold(files', wire')
  OBVIOUS
<1>1. Hold(files', wire)
  <2>1. CASE files' = files
    BY <2>1
  <2>2. ASSUME NEW i \in DOMAIN wire, RcvT!PduEffect(Decoded(wire[i]))
        PROVE  Hold(files', wire)
    BY <2>2, DeliveryHolds
  <2> QED BY <2>1, <2>2, StepEffects DEF RcvT!QuietEffect
<1>2. Longer
  BY StepEffects
<1> QED BY <1>1, <1>2, HoldLonger

\* Whatever the network loses, repeats or reorders, no file of the receiver holds a
\* word that was not sent for it at this place: handle_pdu_to_new_receiver_machine,
\* E10 and E11, for any files and any number of transfers.
THEOREM FilesHoldOnlyWhatWasSent == Spec => []FilesHoldWhatWasSent
<1>1. Init => Hold(files, wire)
  <2>1. Init => RcvT!Init
    BY SameReceiver DEF Init
  <2>2. RcvT!Init => files = <<>>
    BY DEF RcvT!Init
  <2> QED BY <2>1, <2>2 DEF Hold
<1>2. /\ SndT!Inv /\ RcvT!Inv /\ WireInv /\ NamesAreAnnounced
      /\ Hold(files, wire) /\ [Next]_vars
      => Hold(files, wire)'
  BY FilesStep
<1>3. Spec => []Hold(files, wire)
  BY <1>1, <1>2, SenderInvariance, ReceiverInvariance, WireInvariance, NamesInvariance, PTL
     DEF Spec
<1> QED BY <1>3, HoldMeans, PTL

-----------------------------------------------------------------------------
(***************************************************************************)
(* The end.                                                                 *)
(***************************************************************************)
LEMMA FinishStep ==
  ASSUME SndT!Inv, RcvT!Inv, WireInv, NamesAreAnnounced, [Next]_vars,
         NEW id \in 1 .. MaxPuts, FinishesAfterEof(id), Rcv!Stores(receiver)
  PROVE  Checks(id)
<1>1. PICK a \in Len(log) + 1 .. Len(log'), b \in Len(log) + 1 .. Len(log') :
        /\ log'[a].kind = "EOF_RECV" /\ log'[a].id = id
        /\ log'[b].code = "no_error"
  BY DEF FinishesAfterEof, Indicated
<1>2. log' # log
  BY DEF FinishesAfterEof
<1>3. PICK i \in DOMAIN wire : RcvT!PduEffect(Decoded(wire[i]))
  BY <1>1, <1>2, StepEffects DEF RcvT!QuietEffect
<1>4. /\ Decoded(wire[i]).kind = wire[i].kind
      /\ Decoded(wire[i]).id = wire[i].id
      /\ wire[i].kind # "MD" => Decoded(wire[i]) = wire[i]
  BY Arriving DEF WireInv
<1>5. PICK r : /\ \/ r = receiver /\ Decoded(wire[i]).id = receiver.id
                  \/ r = RcvT!NewReceiver(Decoded(wire[i]))
               /\ r = RcvT!NewReceiver(Decoded(wire[i])) => r.state # "WAIT_FOR_EOF"
               /\ \A k \in Len(log) + 1 .. Len(log') :
                    /\ log'[k].id = r.id /\ log'[k].code = receiver'.condition_code
                    /\ log'[k].kind = "EOF_RECV" =>
                         /\ r.state = "WAIT_FOR_EOF"
                         /\ RcvT!Stores(r) /\ log'[k].code = "no_error" =>
                              RcvT!EofChecked(Decoded(wire[i]))
  BY <1>2, <1>3 DEF RcvT!PduEffect
<1>6. /\ r.state = "WAIT_FOR_EOF" /\ r.id = id
      /\ log'[a].code = "no_error"
  BY <1>1, <1>5
<1>7. r = receiver /\ wire[i].id = receiver.id /\ receiver.id = id
  BY <1>4, <1>5, <1>6
<1>8. RcvT!Stores(receiver) /\ receiver.destination_filename # NoName
  <2>1. RcvT!Stores(receiver)
    BY SameReceiver
  <2> QED BY <2>1 DEF RcvT!Stores, RcvT!IsFileTransfer, RcvT!NoName, NoName
<1>9. RcvT!EofChecked(Decoded(wire[i]))
  BY <1>1, <1>5, <1>6, <1>7, <1>8
<1>10. /\ wire[i].kind = "EOF" /\ files' = files
       /\ Checksum(RcvT!Content(files, receiver.destination_filename), checksum_type)
            = wire[i].file_checksum
       /\ receiver'.received_file_size <= wire[i].file_size
  BY <1>4, <1>9, SameChecksum DEF RcvT!EofChecked
<1>11. ASSUME NEW md \in Announced(id)
       PROVE  /\ Checksum(Rcv!Content(files', md.destination_file_name), checksum_type)
                   = Checksum(store[md.source_file_name], checksum_type)
              /\ receiver'.received_file_size <= Len(store[md.source_file_name])
  <2>1. PICK k \in DOMAIN wire : md = wire[k] /\ wire[k].kind = "MD" /\ wire[k].id = id
    BY DEF Announced
  <2>2. PICK n : /\ IsMetadata(n) /\ wire[n].id = receiver.id
                 /\ wire[n].destination_file_name = receiver.destination_filename
    BY <1>8 DEF NamesAreAnnounced
  <2>3. md.destination_file_name = receiver.destination_filename
    BY <1>7, <2>1, <2>2 DEF WireInv, AnnouncedOnce, IsMetadata
  <2>4. /\ wire[i].file_size = Len(store[md.source_file_name])
        /\ wire[i].file_checksum = Checksum(store[md.source_file_name], checksum_type)
    BY <1>7, <1>10, <2>1 DEF WireInv, EofsTell, IsMetadata
  <2>5. Rcv!Content(files', md.destination_file_name)
          = RcvT!Content(files, receiver.destination_filename)
    BY <1>10, <2>3, SameReceiver
  <2> QED BY <1>10, <2>4, <2>5
<1> QED BY <1>11 DEF Checks

\* Whatever the network does, a transfer that finishes without error after its EOF
\* leaves a file with the checksum and within the size of the source file: E12 and
\* the sender's EOF, for any files, any checksum type and any number of transfers.
THEOREM FinishedFilesCheck == Spec => FinishedFileChecks
<1>1. SndT!Inv /\ RcvT!Inv /\ WireInv /\ NamesAreAnnounced /\ [Next]_vars
      => [\A id \in 1 .. MaxPuts :
            FinishesAfterEof(id) /\ Rcv!Stores(receiver) => Checks(id)]_vars
  BY FinishStep
<1> QED BY <1>1, SenderInvariance, ReceiverInvariance, WireInvariance, NamesInvariance, PTL
        DEF Spec, FinishedFileChecks

-----------------------------------------------------------------------------
(***************************************************************************)
(* The whole file.                                                          *)
(***************************************************************************)
\* Files of text: not empty, and without a NUL for strncpy to stop at.
PlainContents == \A c \in Contents : c # <<>> /\ \A i \in DOMAIN c : c[i] # 0

\* How much of its file is on the wire with a PDU, and what it is a part of.
End(pdu) == IF pdu.kind = "FD" THEN pdu.segment_offset + Len(pdu.file_data) ELSE 0

Source(i) == store[wire[i].source_file_name]

\* The PDU before i is of the same transaction, which is announced at k.
Follows(i, k) ==
  /\ i \in DOMAIN wire /\ i - 1 \in DOMAIN wire
  /\ wire[i - 1].id = wire[i].id
  /\ wire[i - 1].kind \in {"MD", "FD"}
  /\ IsMetadata(k) /\ wire[k].id = wire[i].id

\* A segment begins where the PDU before it ends.
Continues(i) ==
  \E k : /\ Follows(i, k)
         /\ wire[i].segment_offset = End(wire[i - 1])
         /\ End(wire[i]) <= Len(Source(k))
         /\ \A p \in DOMAIN wire[i].file_data :
              wire[i].file_data[p] = Source(k)[wire[i].segment_offset + p]

\* An EOF comes when all of the file is on the wire.
Concludes(i) ==
  \E k : Follows(i, k) /\ End(wire[i - 1]) = Len(Source(k))

InSequence(i) ==
  /\ wire[i].kind = "MD" => \A j \in DOMAIN wire : j < i => wire[j].id < wire[i].id
  /\ wire[i].kind = "FD" => Continues(i)
  /\ wire[i].kind = "EOF" /\ wire[i].condition_code = "no_error" => Concludes(i)

\* The last PDU on the wire is where the sender is in its file.
AtLast(k) ==
  /\ Len(wire) \in DOMAIN wire
  /\ wire[Len(wire)].id = sender.id
  /\ wire[Len(wire)].kind \in {"MD", "FD"}
  /\ End(wire[Len(wire)]) = sender.file_position
  /\ sender.file_size = Len(Source(k))
  /\ IsMetadata(k) /\ wire[k].id = sender.id

FileInSequence ==
  /\ \A i \in DOMAIN wire : InSequence(i)
  /\ sender.state = "SEND_FILE" => \E k : AtLast(k)

LEMMA SameCString ==
  ASSUME NEW words \in Seq(Word), \A i \in DOMAIN words : words[i] # 0
  PROVE  SndT!AsCString(words) = words
<1>1. DOMAIN words = 1 .. Len(words) /\ Len(words) \in Nat
  BY LenProperties
<1>2. ASSUME NEW i \in DOMAIN words
      PROVE  ~ \E j \in 1 .. i : words[j] = 0
  BY <1>1
<1>3. SndT!AsCString(words) = [i \in DOMAIN words |-> words[i]]
  BY <1>2 DEF SndT!AsCString
<1> QED BY <1>3

\* What was in sequence stays so.
LEMMA StaysInSequence ==
  ASSUME SndT!Inv, Longer, store' = store, NEW i \in DOMAIN wire, InSequence(i),
         DOMAIN wire' \subseteq DOMAIN wire \cup {Len(wire) + 1}
  PROVE  InSequence(i)'
<1>1. /\ i \in DOMAIN wire' /\ wire'[i] = wire[i]
      /\ \A j \in DOMAIN wire : j \in DOMAIN wire' /\ wire'[j] = wire[j]
  BY DEF Longer
<1>0. Len(wire) \in Nat /\ DOMAIN wire = 1 .. Len(wire)
  BY SenderFacts
<1>2. ASSUME NEW k, Follows(i, k)
      PROVE  Follows(i, k)' /\ wire'[i - 1] = wire[i - 1] /\ Source(k)' = Source(k)
  BY <1>1, <1>2 DEF Follows, IsMetadata, Source
<1>3. Continues(i) => Continues(i)'
  <2> SUFFICES ASSUME NEW k, Follows(i, k),
                      wire[i].segment_offset = End(wire[i - 1]),
                      End(wire[i]) <= Len(Source(k)),
                      \A p \in DOMAIN wire[i].file_data :
                        wire[i].file_data[p] = Source(k)[wire[i].segment_offset + p]
               PROVE  Continues(i)'
    BY DEF Continues
  <2> QED BY <1>1, <1>2 DEF Continues
<1>4. Concludes(i) => Concludes(i)'
  <2> SUFFICES ASSUME NEW k, Follows(i, k), End(wire[i - 1]) = Len(Source(k))
               PROVE  Concludes(i)'
    BY DEF Concludes
  <2> QED BY <1>1, <1>2 DEF Concludes
<1>5. ASSUME wire[i].kind = "MD", NEW j \in DOMAIN wire', j < i
      PROVE  wire'[j].id < wire'[i].id
  <2>1. j \in DOMAIN wire
    BY <1>0, <1>5
  <2> QED BY <1>1, <1>5, <2>1 DEF InSequence
<1> QED BY <1>1, <1>3, <1>4, <1>5 DEF InSequence

LEMMA PostedLen ==
  ASSUME SndT!Inv, NEW pdu \in SndT!Pdus, wire' = Append(wire, pdu)
  PROVE  Len(wire') = Len(wire) + 1
<1>1. wire \in Seq(SndT!Pdus)
  BY SenderFacts
<1> QED BY <1>1, AppendProperties

LEMMA PostedInSequence ==
  ASSUME SndT!Inv, FileInSequence, store' = store, NEW pdu \in SndT!Pdus,
         wire' = Append(wire, pdu), NEW n, n = Len(wire) + 1, InSequence(n)'
  PROVE  \A i \in DOMAIN wire' : InSequence(i)'
<1>1. /\ DOMAIN wire' = DOMAIN wire \cup {n}
      /\ \A i \in DOMAIN wire : wire'[i] = wire[i] /\ i # n
  BY Posted
<1>2. Longer
  BY <1>1 DEF Longer
<1>3. ASSUME NEW i \in DOMAIN wire
      PROVE  InSequence(i)'
  <2>1. InSequence(i)
    BY DEF FileInSequence
  <2> QED BY <1>1, <1>2, <2>1, StaysInSequence
<1> QED BY <1>1, <1>3

LEMMA PutInSequence ==
  ASSUME SndT!Inv, WireInv, FileInSequence,
         NEW src \in SourceFiles, NEW dst \in TargetFiles, SndT!Put(peer, src, dst)
  PROVE  FileInSequence'
<1>0. src \in SndT!SourceNames /\ dst \in SndT!TargetNames /\ peer \in {entity_id, peer}
  BY DEF SndT!SourceNames, SndT!TargetNames
<1>1. /\ sender'.id = sender.id + 1 /\ store' = store
      /\ \/ /\ \E pdu \in SndT!Pdus : /\ pdu.kind = "MD" /\ pdu.id = sender'.id
                                      /\ pdu.source_file_name = src
                                      /\ pdu.destination_file_name = dst
                                      /\ wire' = Append(wire, pdu)
            /\ sender'.source_filename = src
            /\ sender'.destination_filename = dst
         \/ wire' = wire /\ sender'.state = "COMPLETED"
  BY <1>0, SenderAssumed, WordsAssumed, SndT!PutSends
<1>2. SndT!PutOpens
  BY <1>0, SenderAssumed, WordsAssumed, SndT!PutFollows
<1>3. CASE wire' = wire /\ sender'.state = "COMPLETED"
  <2>1. Longer
    BY <1>3 DEF Longer
  <2>2. ASSUME NEW i \in DOMAIN wire
        PROVE  InSequence(i)'
    <3>1. InSequence(i)
      BY DEF FileInSequence
    <3> QED BY <1>1, <1>3, <2>1, <3>1, StaysInSequence
  <2> QED BY <1>3, <2>2 DEF FileInSequence
<1>4. ASSUME NEW pdu \in SndT!Pdus, pdu.kind = "MD", pdu.id = sender'.id,
             pdu.source_file_name = src, pdu.destination_file_name = dst,
             wire' = Append(wire, pdu),
             sender'.source_filename = src, sender'.destination_filename = dst
      PROVE  FileInSequence'
  <2>1. PICK n : n = Len(wire) + 1
    OBVIOUS
  <2>2. /\ DOMAIN wire' = DOMAIN wire \cup {n}
        /\ \A i \in DOMAIN wire : wire'[i] = wire[i] /\ i # n
        /\ wire'[n] = pdu
    BY <1>4, <2>1, Posted
  <2>3. \A j \in DOMAIN wire : wire[j].id <= sender.id /\ wire[j].id \in Nat
    BY SenderFacts, PdusAre DEF WireInv, AnnouncedOnce
  <2>4. sender.id \in Nat /\ n \in Nat
    BY <2>1, SenderFacts
  <2>5. InSequence(n)'
    BY <1>1, <1>4, <2>2, <2>3, <2>4 DEF InSequence
  <2>6. \A i \in DOMAIN wire' : InSequence(i)'
    BY <1>1, <1>4, <2>1, <2>5, PostedInSequence
  <2>7. ASSUME sender'.state = "SEND_FILE"
        PROVE  AtLast(n)'
    <3>1. sender'.file_position = 0 /\ sender'.file_size = Len(SndT!FileWords(sender'))
      BY <1>2, <2>7 DEF SndT!PutOpens
    <3>2. SndT!FileWords(sender') = store[src]
      BY <1>4, SourceWords
    <3>3. Len(wire') = n
      BY <1>4, <2>1, PostedLen
    <3>4. Source(n)' = store[src] /\ End(wire'[n]) = 0
      BY <1>1, <1>4, <2>2 DEF Source, End
    <3>5. IsMetadata(n)'
      BY <1>4, <2>2 DEF IsMetadata
    <3> QED BY <1>4, <2>2, <3>1, <3>2, <3>3, <3>4, <3>5 DEF AtLast
  <2> QED BY <2>6, <2>7 DEF FileInSequence
<1> QED BY <1>1, <1>3, <1>4

\* A segment of a file of text.
LEMMA SegmentContinues ==
  ASSUME PlainContents, SndT!Inv, WireInv, FileInSequence, sender.state = "SEND_FILE",
         SndT!SameTransaction, store' = store,
         NEW pdu \in SndT!Pdus, SndT!NextSegment(pdu), wire' = Append(wire, pdu),
         sender'.file_size = sender.file_size
  PROVE  FileInSequence'
<1>1. PICK n : n = Len(wire) + 1
  OBVIOUS
<1>2. /\ DOMAIN wire' = DOMAIN wire \cup {n}
      /\ \A i \in DOMAIN wire : wire'[i] = wire[i] /\ i # n
      /\ wire'[n] = pdu
      /\ Len(wire') = n
  BY <1>1, Posted, PostedLen
<1>3. PICK k : AtLast(k)
  BY DEF FileInSequence
<1>4. Len(wire) \in Nat /\ DOMAIN wire = 1 .. Len(wire)
  BY SenderFacts
<1>5. /\ sender.source_filename \in SourceFiles
      /\ wire[k].source_file_name = sender.source_filename
  BY <1>3 DEF AtLast, WireInv, AnnouncedOnce
<1>6. PICK c : c = store[sender.source_filename]
  OBVIOUS
<1>7. /\ SndT!FileWords(sender) = c /\ Source(k) = c
      /\ c \in Contents /\ c \in Seq(Word) /\ Len(c) \in Nat /\ DOMAIN c = 1 .. Len(c)
  <2>1. c \in Contents
    BY <1>5, <1>6, SenderFacts
  <2>2. c \in Seq(Word)
    BY <2>1, EntitiesAssumption
  <2> QED BY <1>5, <1>6, <2>1, <2>2, SourceWords, LenProperties DEF Source
<1>8. PICK e : e = sender.file_position /\ e \in Nat
  BY DEF SndT!Inv, SndT!TypeOK, SndT!SenderRecords
<1>9. PICK m : m = Len(pdu.file_data) /\ m \in Nat \ {0}
  BY DEF SndT!NextSegment
<1>10. /\ pdu.kind = "FD" /\ pdu.id = sender.id /\ pdu.segment_offset = e
       /\ e + m <= Len(c)
       /\ pdu.file_data = SndT!AsCString(SubSeq(c, e + 1, e + m))
       /\ sender'.file_position = e + m
  BY <1>7, <1>8, <1>9 DEF SndT!NextSegment
<1>11. /\ DOMAIN pdu.file_data = 1 .. m
       /\ \A p \in 1 .. m : pdu.file_data[p] = c[e + p]
  <2>1. /\ SubSeq(c, e + 1, e + m) \in Seq(Word) /\ Len(SubSeq(c, e + 1, e + m)) = m
        /\ \A p \in 1 .. m : SubSeq(c, e + 1, e + m)[p] = c[e + p]
    <3>1. PICK last : last = e + m /\ last \in Nat /\ last <= Len(c) /\ Len(c) \in Nat
      BY <1>7, <1>8, <1>9, <1>10
    <3>2. PICK first : first = e + 1 /\ first \in Nat
      BY <1>8
    <3>0. e \in Nat /\ m \in Nat /\ m > 0
      BY <1>8, <1>9
    <3>3. /\ first <= last /\ last - first + 1 = m
          /\ \A p \in 1 .. m : first + p - 1 = e + p
      BY <3>0, <3>1, <3>2
    <3>6. ASSUME NEW i \in first .. last
          PROVE  i \in 1 .. Len(c)
      BY <3>0, <3>1, <3>2
    <3>4. \A i \in first .. last : c[i] \in Word
      BY <1>7, <3>6, ElementOfSeq
    <3>5. /\ SubSeq(c, first, last) \in Seq(Word) /\ Len(SubSeq(c, first, last)) = m
          /\ \A p \in 1 .. m : SubSeq(c, first, last)[p] = c[first + p - 1]
      BY <3>1, <3>2, <3>3, <3>4, SubSeqProperties
    <3> QED BY <3>1, <3>2, <3>3, <3>5
  <2>2. DOMAIN SubSeq(c, e + 1, e + m) = 1 .. m
    BY <2>1, LenProperties
  <2>3. \A p \in 1 .. m : e + p \in DOMAIN c
    BY <1>7, <1>8, <1>9, <1>10
  <2>4. \A p \in DOMAIN SubSeq(c, e + 1, e + m) : SubSeq(c, e + 1, e + m)[p] # 0
    BY <1>7, <2>1, <2>2, <2>3 DEF PlainContents
  <2>5. pdu.file_data = SubSeq(c, e + 1, e + m)
    BY <1>10, <2>1, <2>4, SameCString
  <2> QED BY <2>1, <2>2, <2>5
<1>12. /\ n - 1 = Len(wire) /\ n - 1 \in DOMAIN wire
       /\ wire'[n - 1] = wire[Len(wire)]
       /\ wire[Len(wire)].id = sender.id /\ wire[Len(wire)].kind \in {"MD", "FD"}
       /\ End(wire[Len(wire)]) = e
       /\ sender.file_size = Len(c)
       /\ IsMetadata(k) /\ wire[k].id = sender.id
  BY <1>1, <1>2, <1>3, <1>4, <1>7, <1>8 DEF AtLast
<1>13. IsMetadata(k)' /\ wire'[k] = wire[k] /\ Source(k)' = c
  BY <1>2, <1>7, <1>12 DEF IsMetadata, Source
<1>14. Follows(n, k)'
  BY <1>2, <1>10, <1>12, <1>13 DEF Follows
<1>15. End(wire'[n]) = e + m
  BY <1>2, <1>9, <1>10 DEF End
<1>16. Continues(n)'
  <2>1. wire'[n].segment_offset = End(wire'[n - 1])
    BY <1>2, <1>10, <1>12
  <2>2. End(wire'[n]) <= Len(Source(k)')
    BY <1>10, <1>13, <1>15
  <2>3. wire'[n] = pdu /\ pdu.segment_offset = e /\ Source(k)' = c
    BY <1>2, <1>10, <1>13
  <2>4. \A p \in DOMAIN wire'[n].file_data :
           wire'[n].file_data[p] = Source(k)'[wire'[n].segment_offset + p]
    BY <1>11, <2>3
  <2> QED BY <1>14, <2>1, <2>2, <2>4 DEF Continues
<1>17. InSequence(n)'
  BY <1>2, <1>10, <1>16 DEF InSequence
<1>18. \A i \in DOMAIN wire' : InSequence(i)'
  BY <1>1, <1>17, PostedInSequence
<1>19. AtLast(k)'
  BY <1>2, <1>10, <1>12, <1>13, <1>15 DEF AtLast, SndT!SameTransaction
<1> QED BY <1>18, <1>19 DEF FileInSequence

LEMMA OngoingInSequence ==
  ASSUME PlainContents, SndT!Inv, WireInv, FileInSequence,
         SndT!OngoingSends, SndT!SegmentsFollow
  PROVE  FileInSequence'
<1>1. SndT!SameTransaction /\ store' = store
  BY DEF SndT!OngoingSends
<1>2. CASE /\ wire' = wire
           /\ sender'.state = "SEND_FILE" =>
                /\ sender.state = "SEND_FILE"
                /\ sender'.file_position = sender.file_position
                /\ sender'.file_size = sender.file_size
  <2>1. Longer
    BY <1>2 DEF Longer
  <2>2. ASSUME NEW i \in DOMAIN wire
        PROVE  InSequence(i)'
    <3>1. InSequence(i)
      BY DEF FileInSequence
    <3> QED BY <1>1, <1>2, <2>1, <3>1, StaysInSequence
  <2>3. ASSUME sender'.state = "SEND_FILE"
        PROVE  \E k : AtLast(k)'
    <3>1. PICK k : AtLast(k)
      BY <1>2, <2>3 DEF FileInSequence
    <3>2. AtLast(k)'
      BY <1>1, <1>2, <2>3, <3>1 DEF AtLast, IsMetadata, Source, SndT!SameTransaction
    <3> QED BY <3>2
  <2> QED BY <1>2, <2>2, <2>3 DEF FileInSequence
<1>3. CASE /\ sender.state = "SEND_FILE"
           /\ sender'.file_size = sender.file_size
           /\ \E pdu \in SndT!Pdus : SndT!NextSegment(pdu) /\ wire' = Append(wire, pdu)
  BY <1>1, <1>3, SegmentContinues
<1>4. ASSUME sender.state = "SEND_FILE",
             NEW pdu \in SndT!Pdus, SndT!LastPdu(pdu), wire' = Append(wire, pdu)
      PROVE  FileInSequence'
  <2>1. PICK n : n = Len(wire) + 1
    OBVIOUS
  <2>2. /\ DOMAIN wire' = DOMAIN wire \cup {n}
        /\ \A i \in DOMAIN wire : wire'[i] = wire[i] /\ i # n
        /\ wire'[n] = pdu
    BY <1>4, <2>1, Posted
  <2>3. PICK k : AtLast(k)
    BY <1>4 DEF FileInSequence
  <2>4. /\ pdu.kind = "EOF" /\ pdu.id = sender.id /\ sender'.state = "COMPLETED"
        /\ pdu.condition_code = "no_error" => sender.file_position = sender.file_size
    BY <1>4 DEF SndT!LastPdu
  <2>5. /\ n - 1 = Len(wire) /\ n - 1 \in DOMAIN wire
        /\ wire'[n - 1] = wire[Len(wire)]
        /\ wire[Len(wire)].id = sender.id /\ wire[Len(wire)].kind \in {"MD", "FD"}
        /\ End(wire[Len(wire)]) = sender.file_position
        /\ sender.file_size = Len(Source(k))
        /\ IsMetadata(k) /\ wire[k].id = sender.id
    BY <2>1, <2>2, <2>3, SenderFacts DEF AtLast
  <2>6. IsMetadata(k)' /\ wire'[k] = wire[k] /\ Source(k)' = Source(k)
    BY <1>1, <2>2, <2>5 DEF IsMetadata, Source
  <2>7. Follows(n, k)'
    BY <2>2, <2>4, <2>5, <2>6 DEF Follows
  <2>8. pdu.condition_code = "no_error" => Concludes(n)'
    BY <2>4, <2>5, <2>6, <2>7 DEF Concludes
  <2>9. InSequence(n)'
    BY <2>2, <2>4, <2>8 DEF InSequence
  <2>10. \A i \in DOMAIN wire' : InSequence(i)'
    BY <1>1, <1>4, <2>1, <2>9, PostedInSequence
  <2> QED BY <2>4, <2>10 DEF FileInSequence
<1> QED BY <1>2, <1>3, <1>4 DEF SndT!SegmentsFollow

LEMMA SequenceStep ==
  PlainContents /\ SndT!Inv /\ WireInv /\ FileInSequence /\ [Next]_vars => FileInSequence'
<1> SUFFICES ASSUME PlainContents, SndT!Inv, WireInv, FileInSequence, [Next]_vars
             PROVE  FileInSequence'
  OBVIOUS
<1>1. CASE SendingEntity
  <2>1. ASSUME NEW src \in SourceFiles, NEW dst \in TargetFiles, Snd!Put(peer, src, dst)
        PROVE  FileInSequence'
    BY <2>1, SameSender, PutInSequence
  <2>2. CASE Snd!SendFileData \/ Snd!Request \/ Snd!LinkState \/ Snd!TransportIsReadyCallback
    <3>1. SndT!SendFileData \/ SndT!Request \/ SndT!LinkState \/ SndT!TransportIsReadyCallback
      BY <2>2, SameSender
    <3>2. SndT!OngoingSends /\ SndT!SegmentsFollow
      BY <3>1, SenderAssumed, WordsAssumed, SndT!OngoingStep, SndT!OngoingFollows
    <3> QED BY <3>2, OngoingInSequence
  <2> QED BY <1>1, <2>1, <2>2 DEF SendingEntity
<1>2. CASE UNCHANGED senderVars
  BY <1>2 DEF senderVars, FileInSequence, InSequence, Continues, Concludes, Follows, IsMetadata,
              Source, AtLast
<1> QED BY <1>1, <1>2, SenderUntouched DEF Next

LEMMA SequenceInvariance == PlainContents /\ Spec => []FileInSequence
<1>1. Init => FileInSequence
  <2>1. Init => wire = <<>> /\ sender.state = "COMPLETED"
    BY SameSender DEF Init, SndT!Init, SndT!Close, SndT!NewSender
  <2> QED BY <2>1 DEF FileInSequence
<1>2. CASE PlainContents
  <2>1. SndT!Inv /\ WireInv /\ FileInSequence /\ [Next]_vars => FileInSequence'
    BY <1>2, SequenceStep
  <2> QED BY <1>1, <2>1, SenderInvariance, WireInvariance, PTL DEF Spec
<1> QED BY <1>2

\* No file that was announced before for the same name is longer.
NoLongerBefore(k) ==
  \A j \in DOMAIN wire :
    /\ j < k
    /\ wire[j].kind = "MD"
    /\ wire[j].destination_file_name = wire[k].destination_file_name
    => Len(Source(j)) <= Len(Source(k))

\* A file c that has the first e words of another one, and is no longer.
IsPrefix(c, whole, e) ==
  /\ Len(c) <= Len(whole)
  /\ e <= Len(c)
  /\ \A p \in 1 .. e : c[p] = whole[p]

\* The receiver that waits for more of the file announced at k has what has arrived.
HasArrived(k) ==
  /\ arrived \in DOMAIN wire
  /\ wire[arrived].id = receiver.id
  /\ wire[arrived].kind \in {"MD", "FD"}
  /\ IsMetadata(k) /\ k <= arrived /\ wire[k].id = receiver.id
  /\ wire[k].source_file_name = receiver.source_filename
  /\ wire[k].destination_file_name = receiver.destination_filename
  /\ receiver.received_file_size = End(wire[arrived])
  /\ NoLongerBefore(k) =>
       IsPrefix(RcvT!Content(files, wire[k].destination_file_name), Source(k),
                End(wire[arrived]))

\* Every file is one that was announced, or a part of it.
FilesAnnounced ==
  \A name \in DOMAIN files :
    \E j : /\ IsMetadata(j) /\ j <= arrived
           /\ wire[j].destination_file_name = name
           /\ Len(files[name]) <= Len(Source(j))

FileInReceipt ==
  /\ arrived \in Nat
  /\ FilesAnnounced
  /\ receiver.state # "COMPLETED" =>
       \E j \in DOMAIN wire : j <= arrived /\ wire[j].id = receiver.id
  /\ receiver.state = "WAIT_FOR_EOF" => \E k : HasArrived(k)

\* A write makes a file as long as it was or as it takes, and puts its data in place.
LEMMA WrittenIs ==
  ASSUME NEW c \in Seq(Word), NEW offset \in Nat, NEW data \in Seq(Word)
  PROVE  LET w == RcvT!Written(c, offset, data)
             end == offset + Len(data)
         IN  /\ Len(w) = IF end > Len(c) THEN end ELSE Len(c)
             /\ \A p \in 1 .. Len(w) :
                  w[p] = IF p > offset /\ p <= end THEN data[p - offset]
                         ELSE IF p <= Len(c) THEN c[p] ELSE 0
<1> DEFINE w == RcvT!Written(c, offset, data)
           end == offset + Len(data)
           n == IF end > Len(c) THEN end ELSE Len(c)
<1>1. Len(c) \in Nat /\ Len(data) \in Nat
  BY LenProperties
<1>2. n \in Nat
  BY <1>1
<1>3. w = [i \in 1 .. n |-> IF i > offset /\ i <= end THEN data[i - offset]
                            ELSE IF i <= Len(c) THEN c[i] ELSE 0]
  BY DEF RcvT!Written
<1>4. w \in Seq(RcvT!Word)
  <2>1. c \in Seq(RcvT!Word) /\ data \in Seq(RcvT!Word)
    BY SameWords
  <2> QED BY <2>1, ReceiverAssumed, WordsAssumed, RcvT!WrittenType
<1>5. DOMAIN w = 1 .. n
  BY <1>3
<1>6. DOMAIN w = 1 .. Len(w) /\ Len(w) \in Nat
  BY <1>4, LenProperties
<1>7. Len(w) = n
  BY <1>2, <1>5, <1>6
<1> QED BY <1>3, <1>5, <1>6, <1>7

LEMMA WrittenPrefix ==
  ASSUME NEW c \in Seq(Word), NEW whole \in Seq(Word), NEW e \in Nat, NEW data \in Seq(Word),
         IsPrefix(c, whole, e), e + Len(data) <= Len(whole),
         \A p \in DOMAIN data : data[p] = whole[e + p]
  PROVE  IsPrefix(RcvT!Written(c, e, data), whole, e + Len(data))
<1>1. PICK w : w = RcvT!Written(c, e, data)
  OBVIOUS
<1>2. PICK end : end = e + Len(data)
  OBVIOUS
<1>3. /\ Len(c) \in Nat /\ Len(data) \in Nat /\ Len(whole) \in Nat
      /\ DOMAIN data = 1 .. Len(data)
  BY LenProperties
<1>4. /\ Len(w) = IF end > Len(c) THEN end ELSE Len(c)
      /\ \A p \in 1 .. Len(w) :
           w[p] = IF p > e /\ p <= end THEN data[p - e]
                  ELSE IF p <= Len(c) THEN c[p] ELSE 0
  BY <1>1, <1>2, WrittenIs
<1>5. end \in Nat /\ Len(c) <= Len(whole) /\ e <= Len(c) /\ end <= Len(whole)
  BY <1>2, <1>3 DEF IsPrefix
<1>6. Len(w) <= Len(whole) /\ end <= Len(w)
  BY <1>3, <1>4, <1>5
<1>7. ASSUME NEW p \in 1 .. end
      PROVE  w[p] = whole[p]
  <2>1. p \in 1 .. Len(w)
    BY <1>3, <1>4, <1>5
  <2>2. w[p] = IF p > e /\ p <= end THEN data[p - e]
               ELSE IF p <= Len(c) THEN c[p] ELSE 0
    BY <1>4, <2>1
  <2>3. CASE p > e
    <3>1. p - e \in 1 .. Len(data) /\ e + (p - e) = p
      BY <1>2, <1>3, <2>3
    <3>2. data[p - e] = whole[e + (p - e)]
      BY <1>3, <3>1
    <3> QED BY <2>2, <2>3, <3>1, <3>2
  <2>4. CASE ~(p > e)
    <3>1. p \in 1 .. e /\ p <= Len(c)
      BY <1>3, <1>5, <2>4
    <3> QED BY <2>2, <2>4, <3>1 DEF IsPrefix
  <2> QED BY <2>3, <2>4
<1> QED BY <1>1, <1>2, <1>6, <1>7 DEF IsPrefix

\* The sender going on changes nothing of what has arrived.
LEMMA SendingKeepsReceipt ==
  ASSUME FileInReceipt, Longer, store' = store, UNCHANGED receiverVars, arrived' = arrived
  PROVE  FileInReceipt'
<1>1. /\ UNCHANGED <<receiver, files>>
      /\ \A j \in DOMAIN wire : j \in DOMAIN wire' /\ wire'[j] = wire[j]
  BY DEF receiverVars, Longer
<1>2. ASSUME NEW j, IsMetadata(j)
      PROVE  IsMetadata(j)' /\ wire'[j] = wire[j] /\ Source(j)' = Source(j)
  BY <1>1, <1>2 DEF IsMetadata, Source
<1>3. ASSUME NEW k, IsMetadata(k), NoLongerBefore(k)'
      PROVE  NoLongerBefore(k)
  BY <1>1, <1>2, <1>3 DEF NoLongerBefore, IsMetadata
<1>4. FilesAnnounced'
  <2> SUFFICES ASSUME NEW name \in DOMAIN files
               PROVE  \E j : /\ IsMetadata(j)' /\ j <= arrived
                             /\ wire'[j].destination_file_name = name
                             /\ Len(files[name]) <= Len(Source(j)')
    BY <1>1 DEF FilesAnnounced
  <2>1. PICK j : /\ IsMetadata(j) /\ j <= arrived
                 /\ wire[j].destination_file_name = name
                 /\ Len(files[name]) <= Len(Source(j))
    BY DEF FileInReceipt, FilesAnnounced
  <2> QED BY <1>2, <2>1
<1>5. ASSUME NEW k, HasArrived(k)
      PROVE  HasArrived(k)'
  <2>1. IsMetadata(k)' /\ wire'[k] = wire[k] /\ Source(k)' = Source(k)
    BY <1>2, <1>5 DEF HasArrived
  <2>2. arrived \in DOMAIN wire' /\ wire'[arrived] = wire[arrived]
    BY <1>1, <1>5 DEF HasArrived
  <2>3. NoLongerBefore(k)' => NoLongerBefore(k)
    BY <1>3, <1>5 DEF HasArrived
  <2> QED BY <1>1, <1>5, <2>1, <2>2, <2>3 DEF HasArrived
<1> QED BY <1>1, <1>4, <1>5 DEF FileInReceipt

\* Nor do the requests and the timer of the receiver, other than closing it.
LEMMA QuietKeepsReceipt ==
  ASSUME FileInReceipt, RcvT!KeepsWaiting, UNCHANGED senderVars, arrived' = arrived
  PROVE  FileInReceipt'
<1>1. /\ UNCHANGED <<wire, store, files>>
      /\ receiver'.state # "COMPLETED" =>
           /\ receiver.state = receiver'.state
           /\ receiver'.id = receiver.id
           /\ receiver'.source_filename = receiver.source_filename
           /\ receiver'.destination_filename = receiver.destination_filename
           /\ receiver'.received_file_size = receiver.received_file_size
  BY DEF senderVars, RcvT!KeepsWaiting, RcvT!SameTransaction
<1>2. FilesAnnounced'
  BY <1>1 DEF FileInReceipt, FilesAnnounced, IsMetadata, Source
<1>3. ASSUME NEW k, HasArrived(k), receiver'.state # "COMPLETED"
      PROVE  HasArrived(k)'
  BY <1>1, <1>3 DEF HasArrived, IsMetadata, Source, NoLongerBefore
<1> QED BY <1>1, <1>2, <1>3 DEF FileInReceipt

\* What comes next of the transaction that the receiver waits for.
LEMMA NextOfFile ==
  ASSUME SndT!Inv, WireInv, FileInSequence, arrived \in Nat,
         NEW i \in DOMAIN wire, i = arrived + 1, NEW k, HasArrived(k), wire[i].id = receiver.id
  PROVE  /\ wire[i].kind # "MD"
         /\ wire[i].kind = "FD" =>
              /\ wire[i].segment_offset = End(wire[arrived])
              /\ End(wire[i]) <= Len(Source(k))
              /\ \A p \in DOMAIN wire[i].file_data :
                   wire[i].file_data[p] = Source(k)[wire[i].segment_offset + p]
         /\ wire[i].kind = "EOF" /\ wire[i].condition_code = "no_error" =>
              End(wire[arrived]) = Len(Source(k))
<1>1. InSequence(i)
  BY DEF FileInSequence
<1>2. /\ arrived \in DOMAIN wire /\ wire[arrived].id = receiver.id
      /\ IsMetadata(k) /\ wire[k].id = receiver.id
  BY DEF HasArrived
<1>3. arrived < i /\ i - 1 = arrived /\ wire[i].id \in Nat
  BY SenderFacts, PdusAre
<1>4. wire[i].kind # "MD"
  BY <1>1, <1>2, <1>3 DEF InSequence
<1>5. ASSUME NEW n, Follows(i, n)
      PROVE  Source(n) = Source(k)
  BY <1>2, <1>5 DEF Follows, WireInv, AnnouncedOnce, Source
<1>6. CASE wire[i].kind = "FD"
  <2>1. PICK n : /\ Follows(i, n)
                 /\ wire[i].segment_offset = End(wire[i - 1])
                 /\ End(wire[i]) <= Len(Source(n))
                 /\ \A p \in DOMAIN wire[i].file_data :
                      wire[i].file_data[p] = Source(n)[wire[i].segment_offset + p]
    BY <1>1, <1>6 DEF InSequence, Continues
  <2>2. Source(n) = Source(k)
    BY <1>5, <2>1
  <2> QED BY <1>3, <1>6, <2>1, <2>2
<1>7. CASE wire[i].kind = "EOF" /\ wire[i].condition_code = "no_error"
  <2>1. PICK n : Follows(i, n) /\ End(wire[i - 1]) = Len(Source(n))
    BY <1>1, <1>7 DEF InSequence, Concludes
  <2>2. Source(n) = Source(k)
    BY <1>5, <2>1
  <2> QED BY <1>3, <1>7, <2>1, <2>2
<1> QED BY <1>4, <1>6, <1>7

\* A source file that was announced.
LEMMA SourceFile ==
  ASSUME SndT!Inv, WireInv, NEW k, IsMetadata(k)
  PROVE  /\ Source(k) \in Contents /\ Source(k) \in Seq(Word) /\ Len(Source(k)) \in Nat
         /\ wire[k].source_file_name # NoName /\ wire[k].destination_file_name # NoName
         /\ k \in Nat
<1>1. /\ wire[k].source_file_name \in SourceFiles /\ wire[k].destination_file_name \in TargetFiles
      /\ k \in DOMAIN wire
  BY DEF WireInv, AnnouncedOnce, IsMetadata
<1>2. Source(k) \in Contents
  BY <1>1, SenderFacts DEF Source
<1>3. Source(k) \in Seq(Word)
  BY <1>2, EntitiesAssumption
<1>4. k \in Nat
  BY <1>1, SenderFacts
<1> QED BY <1>1, <1>2, <1>3, <1>4, LenProperties, EntitiesAssumption

\* The machine that is served the next PDU stores the file, when it waits for its EOF.
LEMMA ServingMachine ==
  ASSUME SndT!Inv, WireInv, FileInReceipt, NEW i \in DOMAIN wire, NEW r,
         \/ r = receiver /\ RcvT!Active /\ Decoded(wire[i]).id = receiver.id
         \/ r = RcvT!NewReceiver(Decoded(wire[i]))
            /\ ~(Decoded(wire[i]).id = receiver.id /\ RcvT!Active),
         r.state = "WAIT_FOR_EOF"
  PROVE  /\ r = receiver /\ wire[i].id = receiver.id
         /\ \E k : HasArrived(k)
         /\ RcvT!Stores(receiver)
<1>1. Decoded(wire[i]).id = wire[i].id
  BY Arriving DEF WireInv
<1>2. r = receiver /\ wire[i].id = receiver.id
  BY <1>1 DEF RcvT!NewReceiver
<1>3. PICK k : HasArrived(k)
  BY <1>2 DEF FileInReceipt
<1>4. receiver.source_filename # NoName /\ receiver.destination_filename # NoName
  BY <1>3, SourceFile DEF HasArrived
<1>5. RcvT!Stores(receiver)
  BY <1>4 DEF RcvT!Stores, RcvT!IsFileTransfer, RcvT!NoName, NoName
<1> QED BY <1>2, <1>3, <1>5

LEMMA StoredFile ==
  ASSUME RcvT!Inv, NEW name
  PROVE  /\ RcvT!Content(files, name) \in Seq(Word)
         /\ Len(RcvT!Content(files, name)) \in Nat
         /\ name \in DOMAIN files => RcvT!Content(files, name) = files[name]
         /\ name \notin DOMAIN files => RcvT!Content(files, name) = <<>>
<1>1. RcvT!Content(files, name) \in Seq(Word)
  BY SameWords, ReceiverAssumed, WordsAssumed, RcvT!TypeFacts, RcvT!ContentType DEF RcvT!Inv
<1> QED BY <1>1, LenProperties DEF RcvT!Content

LEMMA DeliveryAnnounced ==
  ASSUME SndT!Inv, RcvT!Inv, WireInv, FileInSequence, FileInReceipt,
         NEW i \in DOMAIN wire, i = arrived + 1, RcvT!Served(Decoded(wire[i])),
         UNCHANGED senderVars, arrived' = i
  PROVE  FilesAnnounced'
<1>1. /\ Decoded(wire[i]).kind = wire[i].kind
      /\ wire[i].kind # "MD" => Decoded(wire[i]) = wire[i]
      /\ wire[i].kind = "FD" =>
           wire[i].segment_offset \in Nat /\ wire[i].file_data \in Seq(Word)
  BY Arriving DEF WireInv
<1>2. PICK r :
        /\ \/ r = receiver /\ RcvT!Active /\ Decoded(wire[i]).id = receiver.id
           \/ r = RcvT!NewReceiver(Decoded(wire[i]))
              /\ ~(Decoded(wire[i]).id = receiver.id /\ RcvT!Active)
        /\ RcvT!FilesAfter(r, files, Decoded(wire[i]), files')
  BY DEF RcvT!Served
<1>3. UNCHANGED <<wire, store>> /\ arrived \in Nat /\ arrived <= arrived'
  BY DEF senderVars, FileInReceipt
<1>4. ASSUME NEW name \in DOMAIN files
      PROVE  \E j : /\ IsMetadata(j) /\ j <= arrived'
                    /\ wire[j].destination_file_name = name
                    /\ Len(files[name]) <= Len(Source(j))
  <2>1. PICK j : /\ IsMetadata(j) /\ j <= arrived
                 /\ wire[j].destination_file_name = name
                 /\ Len(files[name]) <= Len(Source(j))
    BY <1>4 DEF FileInReceipt, FilesAnnounced
  <2>2. j \in Nat
    BY <2>1, SourceFile
  <2> QED BY <1>3, <2>1, <2>2
<1>5. SUFFICES ASSUME NEW name \in DOMAIN files'
               PROVE  \E j : /\ IsMetadata(j) /\ j <= arrived'
                             /\ wire[j].destination_file_name = name
                             /\ Len(files'[name]) <= Len(Source(j))
  BY <1>3 DEF FilesAnnounced, IsMetadata, Source
<1>6. CASE files' = files
  BY <1>4, <1>5, <1>6
<1>7. CASE files' = RcvT!Deleted(files, r.destination_filename)
  <2>1. name \in DOMAIN files /\ files'[name] = files[name]
    BY <1>5, <1>7 DEF RcvT!Deleted
  <2> QED BY <1>4, <2>1
<1>8. CASE /\ Decoded(wire[i]).kind = "FD" /\ r.state = "WAIT_FOR_EOF" /\ RcvT!Stores(r)
           /\ files' = RcvT!Replaced(files, r.destination_filename,
                         RcvT!Written(RcvT!Content(files, r.destination_filename),
                                      Decoded(wire[i]).segment_offset,
                                      Decoded(wire[i]).file_data))
  <2>1. /\ r = receiver /\ wire[i].id = receiver.id
        /\ wire[i].kind = "FD" /\ Decoded(wire[i]) = wire[i]
    BY <1>1, <1>2, <1>8, ServingMachine
  <2>2. PICK k : HasArrived(k)
    BY <1>2, <1>8, ServingMachine
  <2>3. PICK g : g = receiver.destination_filename
    OBVIOUS
  <2>4. PICK c : c = RcvT!Content(files, g)
    OBVIOUS
  <2>5. PICK w : w = RcvT!Written(c, wire[i].segment_offset, wire[i].file_data)
    OBVIOUS
  <2>6. /\ files' = RcvT!Replaced(files, g, w)
    BY <1>8, <2>1, <2>3, <2>4, <2>5
  <2>7. /\ DOMAIN files' = DOMAIN files \cup {g} /\ files'[g] = w
        /\ \A other \in DOMAIN files : other # g => files'[other] = files[other]
    BY <2>6 DEF RcvT!Replaced
  <2>8. CASE name # g
    <3>1. name \in DOMAIN files /\ files'[name] = files[name]
      BY <1>5, <2>7, <2>8
    <3> QED BY <1>4, <3>1
  <2>9. CASE name = g
    <3>1. /\ IsMetadata(k) /\ k <= arrived /\ wire[k].destination_file_name = g
          /\ k \in Nat /\ Len(Source(k)) \in Nat
      BY <2>2, <2>3, SourceFile DEF HasArrived
    <3>2. /\ End(wire[i]) <= Len(Source(k))
          /\ End(wire[i]) = wire[i].segment_offset + Len(wire[i].file_data)
      BY <1>3, <2>1, <2>2, NextOfFile DEF End
    <3>3. c \in Seq(Word)
      BY <2>4, StoredFile
    <3>4. Len(w) = IF wire[i].segment_offset + Len(wire[i].file_data) > Len(c)
                   THEN wire[i].segment_offset + Len(wire[i].file_data) ELSE Len(c)
      BY <1>1, <2>1, <2>5, <3>3, WrittenIs
    <3>5. CASE Len(w) = End(wire[i])
      BY <1>3, <2>7, <2>9, <3>1, <3>2, <3>5
    <3>6. CASE Len(w) = Len(c) /\ g \in DOMAIN files
      <4>1. c = files[g]
        BY <2>4, <3>6, StoredFile
      <4> QED BY <1>4, <2>7, <2>9, <3>6, <4>1
    <3>7. CASE Len(w) = Len(c) /\ g \notin DOMAIN files
      <4>1. Len(c) = 0
        BY <2>4, <3>7, StoredFile
      <4> QED BY <1>3, <2>7, <2>9, <3>1, <3>7, <4>1
    <3> QED BY <3>2, <3>4, <3>5, <3>6, <3>7
  <2> QED BY <2>8, <2>9
<1> QED BY <1>2, <1>6, <1>7, <1>8 DEF RcvT!FilesAfter

LEMMA DeliveryReceives ==
  ASSUME SndT!Inv, RcvT!Inv, WireInv, FileInSequence, FileInReceipt,
         NEW i \in DOMAIN wire, i = arrived + 1, RcvT!Served(Decoded(wire[i])),
         UNCHANGED senderVars, arrived' = i, receiver'.state = "WAIT_FOR_EOF"
  PROVE  \E k : HasArrived(k)'
<1>1. /\ Decoded(wire[i]).kind = wire[i].kind
      /\ Decoded(wire[i]).id = wire[i].id
      /\ wire[i].kind = "MD" =>
           /\ Decoded(wire[i]).source_file_name = wire[i].source_file_name
           /\ Decoded(wire[i]).destination_file_name = wire[i].destination_file_name
      /\ wire[i].kind # "MD" => Decoded(wire[i]) = wire[i]
      /\ wire[i].kind = "FD" =>
           wire[i].segment_offset \in Nat /\ wire[i].file_data \in Seq(Word)
  BY Arriving DEF WireInv
<1>2. PICK r :
        /\ \/ r = receiver /\ RcvT!Active /\ Decoded(wire[i]).id = receiver.id
           \/ r = RcvT!NewReceiver(Decoded(wire[i]))
              /\ ~(Decoded(wire[i]).id = receiver.id /\ RcvT!Active)
        /\ r.id = Decoded(wire[i]).id /\ RcvT!SameTransaction(r, receiver')
        /\ RcvT!Waits(r, files, Decoded(wire[i]), receiver', files')
  BY DEF RcvT!Served
<1>3. /\ UNCHANGED <<wire, store>> /\ arrived \in Nat /\ i \in DOMAIN wire'
      /\ \A k : /\ IsMetadata(k)' <=> IsMetadata(k)
                /\ Source(k)' = Source(k)
                /\ NoLongerBefore(k)' <=> NoLongerBefore(k)
  BY DEF senderVars, FileInReceipt, IsMetadata, Source, NoLongerBefore
<1>4. /\ receiver'.id = wire[i].id
      /\ receiver'.source_filename = r.source_filename
      /\ receiver'.destination_filename = r.destination_filename
  BY <1>1, <1>2 DEF RcvT!SameTransaction
<1>5. CASE /\ Decoded(wire[i]).kind = "MD" /\ r.state = "WAIT_FOR_MD"
           /\ receiver'.received_file_size = r.received_file_size
           /\ files' = files
  <2>1. IsMetadata(i) /\ wire[i].kind = "MD" /\ i \in Nat
    BY <1>1, <1>3, <1>5 DEF IsMetadata
  <2>2. ~(r = receiver /\ RcvT!Active /\ Decoded(wire[i]).id = receiver.id)
    <3>1. SUFFICES ASSUME RcvT!Active, wire[i].id = receiver.id PROVE FALSE
      BY <1>1
    <3>2. PICK j \in DOMAIN wire : j <= arrived /\ wire[j].id = receiver.id
      BY <3>1 DEF RcvT!Active, FileInReceipt
    <3>3. j < i /\ wire[j].id \in Nat
      BY <1>3, <3>2, SenderFacts, PdusAre
    <3>4. wire[j].id < wire[i].id
      BY <2>1, <3>3 DEF FileInSequence, InSequence
    <3> QED BY <3>1, <3>2, <3>3, <3>4
  <2>3. r = RcvT!NewReceiver(Decoded(wire[i]))
    BY <1>2, <2>2
  <2>4. /\ r.received_file_size = 0
        /\ r.source_filename = wire[i].source_file_name
        /\ r.destination_filename = wire[i].destination_file_name
    BY <1>1, <2>1, <2>3 DEF RcvT!NewReceiver
  <2>5. End(wire[i]) = 0
    BY <2>1 DEF End
  <2>6. PICK c : c = RcvT!Content(files, wire[i].destination_file_name)
    OBVIOUS
  <2>7. ASSUME NoLongerBefore(i)
        PROVE  IsPrefix(c, Source(i), 0)
    <3>1. Len(c) \in Nat /\ Len(Source(i)) \in Nat
      BY <2>1, <2>6, StoredFile, SourceFile
    <3>2. Len(c) <= Len(Source(i))
      <4>1. CASE wire[i].destination_file_name \in DOMAIN files
        <5>1. PICK j : /\ IsMetadata(j) /\ j <= arrived
                       /\ wire[j].destination_file_name = wire[i].destination_file_name
                       /\ Len(files[wire[i].destination_file_name]) <= Len(Source(j))
          BY <4>1 DEF FileInReceipt, FilesAnnounced
        <5>2. j \in DOMAIN wire /\ j < i /\ wire[j].kind = "MD" /\ Len(Source(j)) \in Nat
          BY <1>3, <5>1, SourceFile DEF IsMetadata
        <5>3. Len(Source(j)) <= Len(Source(i))
          BY <2>7, <5>1, <5>2 DEF NoLongerBefore
        <5>4. c = files[wire[i].destination_file_name]
          BY <2>6, <4>1, StoredFile
        <5> QED BY <3>1, <5>1, <5>2, <5>3, <5>4
      <4>2. CASE wire[i].destination_file_name \notin DOMAIN files
        <5>1. Len(c) = 0
          BY <2>6, <4>2, StoredFile
        <5> QED BY <3>1, <5>1
      <4> QED BY <4>1, <4>2
    <3> QED BY <3>1, <3>2 DEF IsPrefix
  <2>8. i <= i
    BY <2>1
  <2>9. HasArrived(i)'
    BY <1>3, <1>4, <1>5, <2>1, <2>4, <2>5, <2>6, <2>7, <2>8 DEF HasArrived
  <2> QED BY <2>9
<1>6. CASE /\ r.state = "WAIT_FOR_EOF" /\ Decoded(wire[i]).kind # "EOF"
           /\ Decoded(wire[i]).kind = "FD" /\ RcvT!Stores(r) =>
                /\ receiver'.received_file_size
                     = IF r.received_file_size
                            < Decoded(wire[i]).segment_offset + Len(Decoded(wire[i]).file_data)
                       THEN Decoded(wire[i]).segment_offset + Len(Decoded(wire[i]).file_data)
                       ELSE r.received_file_size
                /\ files' = RcvT!Replaced(files, r.destination_filename,
                     RcvT!Written(RcvT!Content(files, r.destination_filename),
                                  Decoded(wire[i]).segment_offset,
                                  Decoded(wire[i]).file_data))
  <2>1. r = receiver /\ wire[i].id = receiver.id /\ RcvT!Stores(receiver)
    BY <1>2, <1>6, ServingMachine
  <2>2. PICK k : HasArrived(k)
    BY <1>2, <1>6, ServingMachine
  <2>3. wire[i].kind \in {"MD", "FD", "EOF"}
    BY SenderFacts, PdusAre
  <2>4. wire[i].kind = "FD"
    BY <1>1, <1>3, <1>6, <2>1, <2>2, <2>3, NextOfFile
  <2>5. /\ wire[i].segment_offset = End(wire[arrived])
        /\ End(wire[i]) <= Len(Source(k))
        /\ \A p \in DOMAIN wire[i].file_data :
             wire[i].file_data[p] = Source(k)[wire[i].segment_offset + p]
    BY <1>3, <2>1, <2>2, <2>4, NextOfFile
  <2>6. PICK e : e = wire[i].segment_offset /\ e \in Nat
    BY <1>1, <2>4
  <2>7. PICK data : data = wire[i].file_data /\ data \in Seq(Word) /\ Len(data) \in Nat
    BY <1>1, <2>4, LenProperties
  <2>8. /\ IsMetadata(k) /\ k <= arrived /\ wire[k].id = receiver.id
        /\ wire[k].source_file_name = receiver.source_filename
        /\ wire[k].destination_file_name = receiver.destination_filename
        /\ receiver.received_file_size = e
        /\ NoLongerBefore(k) =>
             IsPrefix(RcvT!Content(files, wire[k].destination_file_name), Source(k), e)
    BY <2>2, <2>5, <2>6 DEF HasArrived
  <2>9. PICK g : g = receiver.destination_filename
    OBVIOUS
  <2>10. PICK c : c = RcvT!Content(files, g) /\ c \in Seq(Word)
    BY StoredFile
  <2>11. PICK w : w = RcvT!Written(c, e, data)
    OBVIOUS
  <2>12. Decoded(wire[i]) = wire[i]
    BY <1>1, <2>4
  <2>13. /\ receiver'.received_file_size = IF e < e + Len(data) THEN e + Len(data) ELSE e
         /\ files' = RcvT!Replaced(files, g, w)
    BY <1>6, <2>1, <2>4, <2>6, <2>7, <2>8, <2>9, <2>10, <2>11, <2>12
  <2>14. End(wire[i]) = e + Len(data)
    BY <2>4, <2>6, <2>7 DEF End
  <2>15. receiver'.received_file_size = End(wire[i])
    BY <2>6, <2>7, <2>13, <2>14
  <2>16. RcvT!Content(files', g) = w
    BY <2>13 DEF RcvT!Replaced, RcvT!Content
  <2>17. ASSUME NoLongerBefore(k)
         PROVE  IsPrefix(w, Source(k), End(wire[i]))
    <3>1. Source(k) \in Seq(Word)
      BY <2>8, SourceFile
    <3>2. /\ e + Len(data) <= Len(Source(k))
          /\ \A p \in DOMAIN data : data[p] = Source(k)[e + p]
      BY <2>5, <2>6, <2>7, <2>14
    <3>3. IsPrefix(c, Source(k), e)
      BY <2>8, <2>9, <2>10, <2>17
    <3>4. IsPrefix(w, Source(k), e + Len(data))
      BY <2>6, <2>7, <2>10, <2>11, <3>1, <3>2, <3>3, WrittenPrefix
    <3> QED BY <2>14, <3>4
  <2>18. k <= i
    <3>1. k \in Nat
      BY <2>8, SourceFile
    <3> QED BY <1>3, <2>8, <3>1
  <2>19. HasArrived(k)'
    BY <1>3, <1>4, <2>1, <2>4, <2>8, <2>9, <2>15, <2>16, <2>17, <2>18 DEF HasArrived
  <2> QED BY <2>19
<1> QED BY <1>1, <1>2, <1>5, <1>6, SenderFacts, ServingMachine, NextOfFile DEF RcvT!Waits

LEMMA DeliveryKeepsReceipt ==
  ASSUME SndT!Inv, RcvT!Inv, WireInv, FileInSequence, FileInReceipt,
         NEW i \in DOMAIN wire, i = arrived + 1, RcvT!Served(Decoded(wire[i])),
         UNCHANGED senderVars, arrived' = i
  PROVE  FileInReceipt'
<1>1. FilesAnnounced'
  BY DeliveryAnnounced
<1>2. receiver'.state = "WAIT_FOR_EOF" => \E k : HasArrived(k)'
  BY DeliveryReceives
<1>3. arrived \in Nat /\ wire' = wire
  BY DEF FileInReceipt, senderVars
<1>4. receiver'.id = wire[i].id
  <2>1. Decoded(wire[i]).id = wire[i].id
    BY Arriving DEF WireInv
  <2> QED BY <2>1 DEF RcvT!Served, RcvT!SameTransaction
<1>5. \E j \in DOMAIN wire' : j <= arrived' /\ wire'[j].id = receiver'.id
  BY <1>3, <1>4
<1> QED BY <1>1, <1>2, <1>3, <1>5 DEF FileInReceipt

\* Without faults the next PDU of the wire arrives.
LEMMA NextArrives ==
  ASSUME NetworkFaults = {}, SndT!Inv, RcvT!Inv, WireInv, Deliver, arrived \in Nat
  PROVE  \E i \in DOMAIN wire : /\ i = arrived + 1 /\ arrived' = i
                                /\ RcvT!Served(Decoded(wire[i]))
<1>1. PICK i \in DOMAIN wire : /\ MayArrive(i)
                               /\ arrived' = IF i > arrived THEN i ELSE arrived
                               /\ Rcv!ReceivedPdu(Decoded(wire[i]))
  BY DEF Deliver
<1>2. i = arrived + 1
  BY <1>1 DEF MayArrive
<1>3. RcvT!ReceivedPdu(Decoded(wire[i]))
  BY <1>1, SameReceiver
<1>4. Decoded(wire[i]) \in RcvT!Pdus /\ Decoded(wire[i]).kind = wire[i].kind
  BY Arriving DEF WireInv
<1>5. Decoded(wire[i]) \notin RcvT!OtherPdus
  <2>1. wire[i].kind \in {"MD", "FD", "EOF"}
    BY SenderFacts, PdusAre
  <2>2. wire[i].kind # "OTHER"
    BY <2>1
  <2> QED BY <1>4, <2>2 DEF RcvT!OtherPdus
<1>6. RcvT!Served(Decoded(wire[i]))
  BY <1>3, <1>4, <1>5, ReceiverAssumed, WordsAssumed, RcvT!PduIsServed
<1> QED BY <1>1, <1>2, <1>6

LEMMA ReceiptStep ==
  ASSUME NetworkFaults = {}, SndT!Inv, RcvT!Inv, WireInv, FileInSequence, FileInReceipt,
         [Next]_vars
  PROVE  FileInReceipt'
<1>1. CASE SendingEntity
  <2>1. Longer /\ store' = store
    BY <1>1, SendingWire DEF WireInv
  <2>2. UNCHANGED receiverVars /\ arrived' = arrived
    BY <1>1 DEF SendingEntity
  <2> QED BY <2>1, <2>2, SendingKeepsReceipt
<1>2. CASE Deliver
  <2>1. PICK i \in DOMAIN wire : /\ i = arrived + 1 /\ arrived' = i
                                 /\ RcvT!Served(Decoded(wire[i]))
    BY <1>2, NextArrives DEF FileInReceipt
  <2>2. UNCHANGED senderVars
    BY <1>2 DEF Deliver
  <2> QED BY <2>1, <2>2, DeliveryKeepsReceipt
<1>3. CASE ReceivingEntity
  <2>1. RcvT!Request \/ RcvT!TimerExpired
    BY <1>3, SameReceiver DEF ReceivingEntity
  <2>2. RcvT!KeepsWaiting
    BY <2>1, ReceiverAssumed, WordsAssumed, RcvT!QuietKeepsWaiting
  <2>3. UNCHANGED senderVars /\ arrived' = arrived
    BY <1>3 DEF ReceivingEntity
  <2> QED BY <2>2, <2>3, QuietKeepsReceipt
<1>4. CASE UNCHANGED vars
  <2>1. Longer /\ store' = store /\ UNCHANGED receiverVars /\ arrived' = arrived
    BY <1>4 DEF vars, senderVars, Longer
  <2> QED BY <2>1, SendingKeepsReceipt
<1> QED BY <1>1, <1>2, <1>3, <1>4 DEF Next

LEMMA ReceiptInvariance == PlainContents /\ NetworkFaults = {} /\ Spec => []FileInReceipt
<1>1. Init => FileInReceipt
  <2>1. Init => RcvT!Init /\ arrived = 0
    BY SameReceiver DEF Init
  <2>2. RcvT!Init => files = <<>> /\ receiver.state = "COMPLETED"
    BY DEF RcvT!Init
  <2> QED BY <2>1, <2>2 DEF FileInReceipt, FilesAnnounced
<1>2. CASE PlainContents /\ NetworkFaults = {}
  <2>1. /\ SndT!Inv /\ RcvT!Inv /\ WireInv /\ FileInSequence /\ FileInReceipt /\ [Next]_vars
        => FileInReceipt'
    BY <1>2, ReceiptStep
  <2>2. Spec => []FileInSequence
    BY <1>2, SequenceInvariance
  <2> QED BY <1>1, <2>1, <2>2, SenderInvariance, ReceiverInvariance, WireInvariance, PTL DEF Spec
<1> QED BY <1>2

\* The EOF that is indicated closes a file that is as it was announced.
LEMMA EofArrives ==
  ASSUME PlainContents, SndT!Inv, RcvT!Inv, WireInv, FileInSequence, FileInReceipt,
         NEW i \in DOMAIN wire, i = arrived + 1, RcvT!Served(Decoded(wire[i])),
         NEW a \in Indicated("EOF_RECV"), NEW k, IsMetadata(k), wire[k].id = log'[a].id,
         NoLongerBefore(k)
  PROVE  /\ wire[k].destination_file_name \in DOMAIN files'
         /\ files'[wire[k].destination_file_name] = Source(k)
<1>1. a \in Len(log) + 1 .. Len(log') /\ log'[a].kind = "EOF_RECV"
  BY DEF Indicated
<1>2. PICK r :
        /\ \/ r = receiver /\ RcvT!Active /\ Decoded(wire[i]).id = receiver.id
           \/ r = RcvT!NewReceiver(Decoded(wire[i]))
              /\ ~(Decoded(wire[i]).id = receiver.id /\ RcvT!Active)
        /\ log'[a].id = Decoded(wire[i]).id
        /\ r.state = "WAIT_FOR_EOF"
        /\ Decoded(wire[i]).kind = "EOF" /\ Decoded(wire[i]).condition_code = "no_error"
        /\ RcvT!Accepts(r, files, Decoded(wire[i])) => files' = files
  BY <1>1 DEF RcvT!Served
<1>3. /\ Decoded(wire[i]).kind = wire[i].kind
      /\ Decoded(wire[i]).id = wire[i].id
      /\ wire[i].kind # "MD" => Decoded(wire[i]) = wire[i]
  BY Arriving DEF WireInv
<1>4. /\ Decoded(wire[i]) = wire[i]
      /\ wire[i].kind = "EOF" /\ wire[i].condition_code = "no_error"
  BY <1>2, <1>3
<1>5. r = receiver /\ wire[i].id = receiver.id /\ RcvT!Stores(receiver)
  BY <1>2, ServingMachine
<1>6. PICK n : HasArrived(n)
  BY <1>2, ServingMachine
<1>7. arrived \in Nat
  BY DEF FileInReceipt
<1>8. /\ IsMetadata(n) /\ wire[n].id = receiver.id
      /\ wire[n].destination_file_name = receiver.destination_filename
      /\ receiver.received_file_size = End(wire[arrived])
  BY <1>6 DEF HasArrived
<1>9. n = k
  <2>1. wire[n].id = wire[k].id
    BY <1>2, <1>3, <1>5, <1>8
  <2>2. n \in DOMAIN wire /\ k \in DOMAIN wire /\ wire[n].kind = "MD" /\ wire[k].kind = "MD"
    BY <1>8 DEF IsMetadata
  <2>3. n \in Nat /\ k \in Nat /\ wire[n].id \in Nat
    BY <1>8, <2>2, SourceFile, SenderFacts, PdusAre
  <2>4. ~(n < k) /\ ~(k < n)
    BY <2>1, <2>2, <2>3 DEF FileInSequence, InSequence
  <2> QED BY <2>3, <2>4
<1>10. PICK g : g = receiver.destination_filename
  OBVIOUS
<1>11. PICK c : c = RcvT!Content(files, g) /\ c \in Seq(Word) /\ Len(c) \in Nat
  BY StoredFile
<1>12. PICK whole : /\ whole = Source(k) /\ whole \in Seq(Word) /\ whole \in Contents
                    /\ Len(whole) \in Nat
  BY SourceFile
<1>13. IsPrefix(c, whole, Len(whole))
  <2>1. End(wire[arrived]) = Len(whole)
    BY <1>4, <1>5, <1>6, <1>7, <1>9, <1>12, NextOfFile
  <2>2. IsPrefix(c, whole, End(wire[arrived]))
    BY <1>6, <1>8, <1>9, <1>10, <1>11, <1>12 DEF HasArrived
  <2> QED BY <2>1, <2>2
<1>14. c = whole
  <2>1. Len(c) = Len(whole) /\ \A p \in 1 .. Len(whole) : c[p] = whole[p]
    BY <1>11, <1>12, <1>13 DEF IsPrefix
  <2> QED BY <1>11, <1>12, <2>1, SeqEqual
<1>15. files' = files
  <2>1. /\ wire[i].file_size = Len(whole)
        /\ wire[i].file_checksum = Checksum(whole, checksum_type)
    BY <1>4, <1>5, <1>8, <1>9, <1>12 DEF WireInv, EofsTell, Source
  <2>2. receiver.received_file_size <= wire[i].file_size
    <3>1. receiver.received_file_size = Len(whole)
      BY <1>4, <1>5, <1>6, <1>7, <1>8, <1>9, <1>12, NextOfFile
    <3> QED BY <1>12, <2>1, <3>1
  <2>3. RcvT!Checksum(RcvT!Content(files, g), checksum_type) = wire[i].file_checksum
    BY <1>11, <1>14, <2>1, SameChecksum
  <2>4. RcvT!Accepts(receiver, files, wire[i])
    BY <1>5, <1>10, <2>2, <2>3 DEF RcvT!Accepts
  <2> QED BY <1>2, <1>4, <1>5, <2>4
<1>16. g \in DOMAIN files /\ files[g] = c
  <2>1. c # <<>>
    BY <1>12, <1>14 DEF PlainContents
  <2> QED BY <1>11, <2>1, StoredFile
<1> QED BY <1>8, <1>9, <1>10, <1>12, <1>14, <1>15, <1>16

\* WhatIsSentArrives of the transfers for whose name no longer file was announced
\* before: what is behind the end of a file stays where it is when a shorter one is
\* written over it.
FilesArrive ==
  [][\A a \in Indicated("EOF_RECV") : \A k :
       IsMetadata(k) /\ wire[k].id = log'[a].id /\ NoLongerBefore(k) =>
         /\ wire[k].destination_file_name \in DOMAIN files'
         /\ files'[wire[k].destination_file_name] = store[wire[k].source_file_name]]_vars

LEMMA ArriveStep ==
  ASSUME PlainContents, NetworkFaults = {}, SndT!Inv, RcvT!Inv, WireInv, FileInSequence,
         FileInReceipt, [Next]_vars,
         NEW a \in Indicated("EOF_RECV"), NEW k, IsMetadata(k), wire[k].id = log'[a].id,
         NoLongerBefore(k)
  PROVE  /\ wire[k].destination_file_name \in DOMAIN files'
         /\ files'[wire[k].destination_file_name] = store[wire[k].source_file_name]
<1>1. a \in Len(log) + 1 .. Len(log') /\ log'[a].kind = "EOF_RECV"
  BY DEF Indicated
<1>2. log' # log
  <2>1. Len(log) \in Nat
    BY ReceiverAssumed, WordsAssumed, LenProperties DEF RcvT!Inv, RcvT!TypeOK
  <2> QED BY <1>1, <2>1
<1>3. CASE Deliver
  <2>1. PICK i \in DOMAIN wire : i = arrived + 1 /\ RcvT!Served(Decoded(wire[i]))
    BY <1>3, NextArrives DEF FileInReceipt
  <2> QED BY <2>1, EofArrives DEF Source
<1>4. CASE ReceivingEntity
  <2>1. RcvT!Request \/ RcvT!TimerExpired
    BY <1>4, SameReceiver DEF ReceivingEntity
  <2>2. RcvT!KeepsWaiting
    BY <2>1, ReceiverAssumed, WordsAssumed, RcvT!QuietKeepsWaiting
  <2> QED BY <1>1, <2>2 DEF RcvT!KeepsWaiting
<1>5. CASE SendingEntity \/ UNCHANGED vars
  BY <1>2, <1>5 DEF SendingEntity, receiverVars, vars
<1> QED BY <1>3, <1>4, <1>5 DEF Next

\* Over a network without faults every file of text that is reported received is at
\* its destination as it is at its source, whatever the users of both sides request,
\* of any size and after any number of transfers, if none of a longer file to the
\* same name came before.
THEOREM TextFilesArrive == PlainContents /\ NetworkFaults = {} /\ Spec => FilesArrive
<1>1. CASE PlainContents /\ NetworkFaults = {}
  <2>1. /\ SndT!Inv /\ RcvT!Inv /\ WireInv /\ FileInSequence /\ FileInReceipt /\ [Next]_vars
        => [\A a \in Indicated("EOF_RECV") : \A k :
              IsMetadata(k) /\ wire[k].id = log'[a].id /\ NoLongerBefore(k) =>
                /\ wire[k].destination_file_name \in DOMAIN files'
                /\ files'[wire[k].destination_file_name]
                     = store[wire[k].source_file_name]]_vars
    BY <1>1, ArriveStep
  <2>2. Spec => []FileInSequence /\ []FileInReceipt
    BY <1>1, SequenceInvariance, ReceiptInvariance
  <2> QED BY <2>1, <2>2, SenderInvariance, ReceiverInvariance, WireInvariance, PTL
          DEF Spec, FilesArrive
<1> QED BY <1>1

\* Files of one size, as in the runs.
OneSize == \A c, d \in Contents : Len(c) = Len(d)

\* WhatIsSentArrives itself, for any number of transfers of files of one size.
THEOREM WhatIsSentDoesArrive ==
  PlainContents /\ OneSize /\ NetworkFaults = {} /\ Spec => WhatIsSentArrives
<1>1. CASE PlainContents /\ OneSize /\ NetworkFaults = {}
  <2>1. ASSUME SndT!Inv, RcvT!Inv, WireInv, FileInSequence, FileInReceipt, [Next]_vars,
               NEW a \in Indicated("EOF_RECV"), NEW md \in Announced(log'[a].id)
        PROVE  /\ md.destination_file_name \in DOMAIN files'
               /\ files'[md.destination_file_name] = store[md.source_file_name]
    <3>1. PICK k : IsMetadata(k) /\ wire[k].id = log'[a].id /\ md = wire[k]
      BY <2>1 DEF Announced, IsMetadata
    <3>2. NoLongerBefore(k)
      <4>1. ASSUME NEW j, IsMetadata(j)
            PROVE  Len(Source(j)) = Len(Source(k)) /\ Len(Source(k)) \in Nat
        BY <1>1, <2>1, <3>1, <4>1, SourceFile DEF OneSize
      <4>2. ASSUME NEW j \in DOMAIN wire, wire[j].kind = "MD"
            PROVE  Len(Source(j)) <= Len(Source(k))
        BY <4>1, <4>2 DEF IsMetadata
      <4> QED BY <4>2 DEF NoLongerBefore
    <3> QED BY <1>1, <2>1, <3>1, <3>2, ArriveStep
  <2>2. /\ SndT!Inv /\ RcvT!Inv /\ WireInv /\ FileInSequence /\ FileInReceipt /\ [Next]_vars
        => [\A i \in Indicated("EOF_RECV") : \A md \in Announced(log'[i].id) :
              /\ md.destination_file_name \in DOMAIN files'
              /\ files'[md.destination_file_name] = store[md.source_file_name]]_vars
    BY <2>1
  <2>3. Spec => []FileInSequence /\ []FileInReceipt
    BY <1>1, SequenceInvariance, ReceiptInvariance
  <2> QED BY <2>2, <2>3, SenderInvariance, ReceiverInvariance, WireInvariance, PTL
          DEF Spec, WhatIsSentArrives
<1> QED BY <1>1
=============================================================================

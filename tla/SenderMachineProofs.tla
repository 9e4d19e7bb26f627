------------------------ MODULE SenderMachineProofs ------------------------
(***************************************************************************)
(* Theorems about SenderMachine, for every value of its constants: its state *)
(* and its events, then what it puts on the wire, what it tells its user of  *)
(* it, and how deep the segment loop nests.                                  *)
(***************************************************************************)
EXTENDS SenderMachine, SequenceTheorems, FiniteSetTheorems, TLAPS

-----------------------------------------------------------------------------
(***************************************************************************)
(* What the operators of the model return.                                  *)
(***************************************************************************)
\* A checksum is a word.
LEMMA ChecksumType ==
  ASSUME NEW content, NEW type
  PROVE  Checksum(content, type) \in Word
<1>1. 0 \in Word
  BY WordModulusAssumption DEF Word
<1>2. Uint32(ModularSum(content)) \in Word
  BY <1>1 DEF Uint32
<1> QED BY <1>1, <1>2 DEF Checksum

\* The segment buffer holds at least one word.
LEMMA SegmentBufferPositive == FILE_SEGMENT_BUFFER_SIZE \in Nat \ {0}
<1> DEFINE q == (MaxFileData + CFDP_ALIGNMENT_SIZE - 1) \div CFDP_ALIGNMENT_SIZE
<1>1. q \in Nat \ {0}
  BY SenderAssumption
<1>2. \A m \in Nat \ {0}, n \in Nat \ {0} : m * n \in Nat \ {0}
  OBVIOUS
<1>3. q * CFDP_ALIGNMENT_SIZE \in Nat \ {0}
  BY <1>1, <1>2, SenderAssumption
<1> QED BY <1>3 DEF FILE_SEGMENT_BUFFER_SIZE, CFDP_ALIGN

\* A segment of an unfinished file is not empty and ends within the file.
LEMMA SegmentLengthBounds ==
  ASSUME NEW t, t.file_size \in Nat, t.file_position \in Nat,
         ~transaction_is_file_send_complete(t)
  PROVE  /\ SegmentLength(t) \in Nat \ {0}
         /\ t.file_position + SegmentLength(t) <= t.file_size
BY SegmentBufferPositive DEF SegmentLength, transaction_is_file_send_complete

\* Cutting a segment at its first NUL changes no length.
LEMMA AsCStringType ==
  ASSUME NEW words \in Seq(Word)
  PROVE  /\ AsCString(words) \in Seq(Word)
         /\ Len(AsCString(words)) = Len(words)
<1>1. 0 \in Word
  BY WordModulusAssumption DEF Word
<1>2. /\ Len(words) \in Nat
      /\ DOMAIN words = 1 .. Len(words)
      /\ \A i \in 1 .. Len(words) : words[i] \in Word
  BY LenProperties, ElementOfSeq
<1>3. AsCString(words) \in [1 .. Len(words) -> Word]
  BY <1>1, <1>2 DEF AsCString
<1> QED BY <1>2, <1>3, SeqDef

\* A dump leaves a buffer that is no shorter than it was and longer than the text.
LEMMA DumpedType ==
  ASSUME listing \in [data : Seq(Word), size : Nat], NEW text \in Listings
  PROVE  /\ Dumped(text) \in Seq(Word)
         /\ Len(Dumped(text)) >= Len(listing.data)
         /\ Len(Dumped(text)) > Len(text)
         /\ Len(text) \in Nat
<1> DEFINE written == Append(text, 0)
           n == IF Len(written) > Len(listing.data) THEN Len(written)
                                                    ELSE Len(listing.data)
<1>1. 0 \in Word
  BY WordModulusAssumption DEF Word
<1>2. text \in Seq(Word)
  BY SenderAssumption, SeqMonotonic
<1>3. /\ Len(text) \in Nat
      /\ written \in Seq(Word)
      /\ Len(written) = Len(text) + 1
  BY <1>1, <1>2, AppendProperties, LenProperties
<1>4. /\ listing.data \in Seq(Word)
      /\ Len(listing.data) \in Nat
  BY LenProperties
<1>5. n \in Nat
  BY <1>3, <1>4
<1>6. \A i \in 1 .. n :
        (IF i <= Len(written) THEN written[i] ELSE listing.data[i]) \in Word
  BY <1>3, <1>4, <1>5, ElementOfSeq
<1>7. Dumped(text) = [i \in 1 .. n |-> IF i <= Len(written) THEN written[i]
                                                             ELSE listing.data[i]]
  BY DEF Dumped
<1>8. Dumped(text) \in [1 .. n -> Word]
  BY <1>6, <1>7
<1>9. Dumped(text) \in Seq(Word) /\ Len(Dumped(text)) = n
  BY <1>5, <1>8, SeqDef
<1> QED BY <1>3, <1>4, <1>5, <1>9

\* The words of the file of a transaction.
LEMMA FileWordsType ==
  ASSUME store \in [SourceFiles -> Contents],
         listing \in [data : Seq(Word), size : Nat],
         NEW t, t.source_filename \in SourceNames,
         t.virtual_source_file_size \in Nat,
         IsListing(t) => t.virtual_source_file_size <= Len(listing.data)
  PROVE  /\ FileWords(t) \in Seq(Word)
         /\ transaction_get_file_size(t) \in Nat
         /\ IsListing(t) => transaction_get_file_size(t) = t.virtual_source_file_size
<1>1. CASE t.source_filename = NoName
  <2>1. FileWords(t) = <<>> /\ ~IsListing(t)
    BY <1>1 DEF FileWords, IsListing, NoName, VIRTUAL_LISTING_FILENAME
  <2> QED BY <2>1, EmptySeq DEF transaction_get_file_size
<1>2. CASE IsListing(t)
  <2> DEFINE n == t.virtual_source_file_size
  <2>1. FileWords(t) = SubSeq(listing.data, 1, n)
    BY <1>2 DEF FileWords, IsListing, NoName, VIRTUAL_LISTING_FILENAME
  <2>2. /\ listing.data \in Seq(Word)
        /\ Len(listing.data) \in Nat
        /\ n <= Len(listing.data)
    BY <1>2, LenProperties
  <2>3. \A i \in 1 .. n : listing.data[i] \in Word
    BY <2>2, ElementOfSeq
  <2>4. SubSeq(listing.data, 1, n) \in Seq(Word) /\ Len(SubSeq(listing.data, 1, n)) = n
    BY <2>3, SubSeqProperties
  <2> QED BY <2>1, <2>4 DEF transaction_get_file_size
<1>3. CASE t.source_filename # NoName /\ ~IsListing(t)
  <2>1. t.source_filename \in SourceFiles
    BY <1>3 DEF SourceNames, IsListing
  <2>2. FileWords(t) = store[t.source_filename]
    BY <1>3 DEF FileWords
  <2>3. FileWords(t) \in Seq(Word)
    BY <2>1, <2>2, SenderAssumption
  <2> QED BY <1>3, <2>3, LenProperties DEF transaction_get_file_size
<1> QED BY <1>1, <1>2, <1>3

\* A readable segment of the file is a sequence of its length.
LEMMA SegmentType ==
  ASSUME NEW t, FileWords(t) \in Seq(Word),
         t.file_size \in Nat, t.file_position \in Nat,
         ~transaction_is_file_send_complete(t), Readable(t)
  PROVE  /\ AsCString(transaction_get_file_segment(t)) \in Seq(Word)
         /\ Len(AsCString(transaction_get_file_segment(t))) = SegmentLength(t)
<1> DEFINE m == t.file_position + 1
           n == t.file_position + SegmentLength(t)
           segment == SubSeq(FileWords(t), m, n)
<1>1. SegmentLength(t) \in Nat \ {0}
  BY SegmentLengthBounds
<1>2. \A i \in m .. n : FileWords(t)[i] \in Word
  BY <1>1, ElementOfSeq, LenProperties DEF Readable
<1>3. segment \in Seq(Word) /\ Len(segment) = SegmentLength(t)
  BY <1>1, <1>2, SubSeqProperties
<1> QED BY <1>3, AsCStringType DEF transaction_get_file_segment

-----------------------------------------------------------------------------
(***************************************************************************)
(* The inductive invariant: what the handlers rely on between two steps.     *)
(***************************************************************************)
Consistent ==
  /\ sender.id = transaction_sequence_number
  /\ sender.state # "COMPLETED" => sender.id # 0 /\ sender.condition_code = "no_error"
  /\ call = "send_eof" <=> sender.state = "SEND_METADATA"
  /\ call = "send_file_data" => sender.state = "SEND_FILE"
  /\ sender.state # "COMPLETED" => sender.file_position <= sender.file_size
  /\ IsListing(sender) => sender.virtual_source_file_size <= Len(listing.data)
  /\ listing.size <= Len(listing.data)

Inv == TypeOK /\ Consistent

\* The file of the current transaction can be read off the state.
LEMMA CurrentFile ==
  ASSUME Inv
  PROVE  /\ FileWords(sender) \in Seq(Word)
         /\ transaction_get_file_size(sender) \in Nat
BY FileWordsType DEF Inv, TypeOK, Consistent, SenderRecords

LEMMA InitInv == Init => Inv
<1> SUFFICES ASSUME Init PROVE Inv
  OBVIOUS
<1>1. PICK d \in Destinations : sender = Close(NewSender(0, d, NoName, NoName, 0))
  BY DEF Init
<1>2. /\ sender.state = "COMPLETED" /\ sender.id = 0
      /\ sender.source_filename = NoName /\ sender.virtual_source_file_size = 0
      /\ sender \in SenderRecords
  <2>1. sender = [state |-> "COMPLETED", id |-> 0, destination |-> d,
                  source_filename |-> NoName, destination_filename |-> NoName,
                  virtual_source_file_size |-> 0, file_size |-> 0, file_position |-> 0,
                  condition_code |-> "no_error",
                  is_frozen |-> FALSE, is_suspended |-> FALSE]
    BY <1>1 DEF Close, NewSender
  <2>2. 0 \in 0 .. MaxPuts /\ NoName \in SourceNames /\ NoName \in TargetNames
    BY SenderAssumption DEF SourceNames, TargetNames
  <2> QED BY <2>1, <2>2 DEF SenderRecords, SenderStates
<1>3. TypeOK
  <2>1. listing \in [data : Seq(Word), size : Nat] /\ wire \in Seq(Pdus)
    BY EmptySeq DEF Init
  <2>2. indications \in [Ids -> [Indications -> Nat]]
    BY DEF Init
  <2>3. transaction_sequence_number \in 0 .. MaxPuts
    BY SenderAssumption DEF Init
  <2> QED BY <1>2, <2>1, <2>2, <2>3 DEF Init, TypeOK, Calls
<1>4. Consistent
  <2>1. Len(listing.data) = 0 /\ listing.size = 0
    BY EmptySeq DEF Init
  <2> QED BY <1>2, <2>1 DEF Init, Consistent
<1> QED BY <1>3, <1>4 DEF Inv

-----------------------------------------------------------------------------
(***************************************************************************)
(* Effects that several actions share keep their types.                     *)
(***************************************************************************)
LEMMA IndicateType ==
  ASSUME indications \in [Ids -> [Indications -> Nat]],
         NEW id \in Ids, NEW kinds, Indicate(id, kinds)
  PROVE  /\ indications' \in [Ids -> [Indications -> Nat]]
         /\ \A i \in Ids, k \in Indications :
              indications'[i][k] = IF i = id /\ k \in kinds THEN indications[i][k] + 1
                                                            ELSE indications[i][k]
BY DEF Indicate

LEMMA PostType ==
  ASSUME wire \in Seq(Pdus), NEW pdu \in Pdus, wire' = Append(wire, pdu)
  PROVE  wire' \in Seq(Pdus)
BY AppendProperties

\* The EOF of the transaction s, and s after its size was read.
LEMMA EofType ==
  ASSUME Inv, NEW s \in SenderRecords, s.id # 0,
         IsListing(s) => s.virtual_source_file_size <= Len(listing.data)
  PROVE  /\ Eof(s) \in EofPdus({s.id})
         /\ Eof(s) \in Pdus
         /\ Eof(s).condition_code = s.condition_code
         /\ SizeRead(s) \in SenderRecords
         /\ Close(SizeRead(s)) \in SenderRecords
<1>1. transaction_get_file_size(s) \in Nat
  BY FileWordsType DEF Inv, TypeOK, SenderRecords
<1>2. transaction_get_file_checksum(s) \in Word
  BY ChecksumType DEF transaction_get_file_checksum
<1>3. s.condition_code \in ConditionCodes /\ s.id \in Ids
  BY DEF SenderRecords, ConditionCodes, Ids
<1>4. Eof(s) \in EofPdus({s.id}) /\ Eof(s).condition_code = s.condition_code
  BY <1>1, <1>2, <1>3 DEF Eof, EofPdu, EofPdus
<1>5. Eof(s) \in Pdus
  BY <1>3, <1>4 DEF Pdus, EofPdus
<1>6. SizeRead(s) \in SenderRecords /\ Close(SizeRead(s)) \in SenderRecords
  BY <1>1 DEF SizeRead, Close, SenderRecords, SenderStates
<1> QED BY <1>4, <1>5, <1>6

\* The current transaction meets the assumptions of EofType, as it is and with
\* the condition code of a cancellation.
LEMMA CurrentEof ==
  ASSUME Inv, sender.state # "COMPLETED"
  PROVE  /\ sender.id \in Ids
         /\ Eof(sender) \in EofPdus({sender.id}) \cap Pdus
         /\ Eof(sender).condition_code = "no_error"
         /\ Close(SizeRead(sender)) \in SenderRecords
<1>1. sender \in SenderRecords /\ sender.id # 0 /\ sender.id \in Ids
  BY DEF Inv, TypeOK, Consistent, SenderRecords, Ids
<1> QED BY <1>1, EofType DEF Inv, Consistent

-----------------------------------------------------------------------------
(***************************************************************************)
(* A put keeps the invariant.                                               *)
(***************************************************************************)
\* What cfdp_core_put and a listing response have in common.
LEMMA OpenTransactionInv ==
  ASSUME Inv, call = "idle",
         NEW s \in SenderRecords, OpenTransaction(s),
         s.state = "SEND_METADATA", s.id = transaction_sequence_number + 1,
         s.file_position = 0, s.condition_code = "no_error",
         listing' \in [data : Seq(Word), size : Nat],
         listing'.size <= Len(listing'.data),
         IsListing(s) => s.virtual_source_file_size <= Len(listing'.data)
  PROVE  Inv'
<1>1. s.id \in Ids /\ transaction_sequence_number' \in 0 .. MaxPuts
  BY SenderAssumption DEF OpenTransaction, Inv, TypeOK, Ids
<1>2. indications' \in [Ids -> [Indications -> Nat]]
  BY <1>1, IndicateType DEF OpenTransaction, Inv, TypeOK
<1>3. UNCHANGED <<store, owed>> /\ transaction_sequence_number' = s.id
  BY DEF OpenTransaction
<1>4. CASE MetadataSent(s)
  <2> DEFINE pdu == MetadataPdu(s.id, s.file_size, s.source_filename, s.destination_filename)
  <2>1. pdu \in Pdus
    BY <1>1 DEF MetadataPdu, Pdus, MetadataPdus, SenderRecords
  <2>2. wire' \in Seq(Pdus)
    BY <1>4, <2>1, PostType DEF MetadataSent, Inv, TypeOK
  <2>3. sender' \in SenderRecords
    BY <1>4 DEF MetadataSent, SenderRecords, SenderStates
  <2>4. TypeOK'
    BY <1>1, <1>2, <1>3, <1>4, <2>2, <2>3
       DEF MetadataSent, StartSending, Inv, TypeOK, Calls
  <2>5. s.file_position <= s.file_size /\ s.id # 0
    BY <1>1 DEF SenderRecords, Ids
  <2>6. Consistent'
    BY <1>3, <1>4, <2>5 DEF MetadataSent, StartSending, Consistent, IsListing, SenderRecords
  <2> QED BY <2>4, <2>6 DEF Inv
<1>5. CASE MetadataRejected(s)
  <2>1. sender' \in SenderRecords /\ sender'.state = "COMPLETED"
    BY <1>5 DEF MetadataRejected, Close, SenderRecords, SenderStates
  <2>2. errors' \subseteq Ids \X ErrorTypes
    BY <1>1, <1>5 DEF MetadataRejected, IssueError, ErrorTypes, Inv, TypeOK
  <2>3. TypeOK'
    BY <1>1, <1>2, <1>3, <1>5, <2>1, <2>2 DEF MetadataRejected, Return, Inv, TypeOK, Calls
  <2>4. Consistent'
    BY <1>3, <1>5, <2>1 DEF MetadataRejected, Return, Close, Consistent, IsListing, SenderRecords
  <2> QED BY <2>3, <2>4 DEF Inv
<1> QED BY <1>4, <1>5 DEF OpenTransaction

\* The transaction a put hands to the machine.
Fresh(s) ==
  /\ s \in SenderRecords
  /\ s.state = "SEND_METADATA" /\ s.id = transaction_sequence_number + 1
  /\ s.file_position = 0 /\ s.condition_code = "no_error"
  /\ ~s.is_frozen /\ ~s.is_suspended

LEMMA NewTransactionOpens ==
  ASSUME Inv, NewTransaction
  PROVE  /\ call = "idle"
         /\ listing' \in [data : Seq(Word), size : Nat]
         /\ listing'.size <= Len(listing'.data)
         /\ \E s : /\ Fresh(s) /\ OpenTransaction(s)
                   /\ IsListing(s) => s.virtual_source_file_size <= Len(listing'.data)
<1> DEFINE id == transaction_sequence_number + 1
           Goal == /\ call = "idle"
                   /\ listing' \in [data : Seq(Word), size : Nat]
                   /\ listing'.size <= Len(listing'.data)
                   /\ \E s : /\ Fresh(s) /\ OpenTransaction(s)
                             /\ IsListing(s) =>
                                  s.virtual_source_file_size <= Len(listing'.data)
<1>1. ASSUME NEW dest \in Destinations, NEW src \in SourceNames, NEW dst \in TargetNames,
             Put(dest, src, dst)
      PROVE  Goal
  <2> DEFINE n == IF src = VIRTUAL_LISTING_FILENAME THEN listing.size ELSE 0
             t == NewSender(id, dest, src, dst, n)
             s == SizeRead(t)
  <2>1. /\ id \in 0 .. MaxPuts /\ id # 0 /\ n \in Nat
        /\ call = "idle" /\ OpenTransaction(s) /\ UNCHANGED listing
    BY <1>1, SenderAssumption DEF Put, OpenTransaction, Inv, TypeOK
  <2>2. t \in SenderRecords
    BY <2>1 DEF NewSender, SenderRecords, SenderStates
  <2>3. IsListing(t) => t.virtual_source_file_size <= Len(listing.data)
    BY DEF NewSender, IsListing, Inv, Consistent
  <2>4. s \in SenderRecords
    BY <2>1, <2>2, <2>3, EofType DEF NewSender
  <2>5. /\ Fresh(s)
        /\ IsListing(s) => s.virtual_source_file_size <= Len(listing.data)
    BY <2>3, <2>4 DEF Fresh, NewSender, SizeRead, IsListing
  <2> QED BY <2>1, <2>5 DEF Inv, TypeOK, Consistent
<1>2. ASSUME NEW text \in Listings, NEW dst \in TargetNames, AnswerListingRequest(text, dst)
      PROVE  Goal
  <2> DEFINE t == NewSender(id, entity_id, VIRTUAL_LISTING_FILENAME, dst, Len(text))
             s == [t EXCEPT !.file_size = Len(text)]
  <2>1. /\ Dumped(text) \in Seq(Word)
        /\ Len(Dumped(text)) > Len(text)
        /\ Len(text) \in Nat
        /\ Len(Dumped(text)) \in Nat
    BY DumpedType, LenProperties DEF Inv, TypeOK
  <2>2. /\ id \in 0 .. MaxPuts
        /\ call = "idle" /\ OpenTransaction(s)
        /\ listing' = [data |-> Dumped(text), size |-> Len(text)]
    BY <1>2, SenderAssumption DEF AnswerListingRequest, OpenTransaction, Inv, TypeOK
  <2>3. s \in SenderRecords
    BY <2>1, <2>2, SenderAssumption DEF NewSender, SenderRecords, SenderStates, SourceNames
  <2>4. Fresh(s) /\ s.virtual_source_file_size = Len(text)
    BY <2>3 DEF Fresh, NewSender
  <2>5. /\ listing' \in [data : Seq(Word), size : Nat]
        /\ listing'.size <= Len(listing'.data)
        /\ s.virtual_source_file_size <= Len(listing'.data)
    BY <2>1, <2>2, <2>4
  <2> QED BY <2>2, <2>4, <2>5
<1> QED BY <1>1, <1>2 DEF NewTransaction

LEMMA NewTransactionInv == Inv /\ NewTransaction => Inv'
BY NewTransactionOpens, OpenTransactionInv DEF Fresh

-----------------------------------------------------------------------------
(***************************************************************************)
(* A running call keeps the invariant.                                      *)
(***************************************************************************)
\* The machine closes the current transaction; what it sent and told has its type.
LEMMA ClosingInv ==
  ASSUME Inv, call' = "idle", depth' \in Nat,
         sender' \in SenderRecords, sender'.state = "COMPLETED",
         sender'.id = sender.id, sender'.source_filename = sender.source_filename,
         sender'.virtual_source_file_size = sender.virtual_source_file_size,
         wire' \in Seq(Pdus), indications' \in [Ids -> [Indications -> Nat]],
         errors' \subseteq Ids \X ErrorTypes, owed' \in BOOLEAN,
         UNCHANGED <<transaction_sequence_number, store, listing>>
  PROVE  Inv'
<1>1. TypeOK'
  BY DEF Inv, TypeOK, Calls
<1>2. Consistent'
  BY DEF Inv, Consistent, IsListing
<1> QED BY <1>1, <1>2 DEF Inv

\* The two outcomes of an EOF that ends the transaction without error.
EofOutcome ==
  \/ /\ wire' = Append(wire, Eof(sender))
     /\ Indicate(sender.id, {"EOF_SENT", "FINISHED"})
     /\ UNCHANGED errors
  \/ /\ IssueError(sender.id, "TRANSPORT_ERROR")
     /\ UNCHANGED <<wire, indications>>

LEMMA EofOutcomeType ==
  ASSUME Inv, sender.state # "COMPLETED", EofOutcome
  PROVE  /\ wire' \in Seq(Pdus)
         /\ indications' \in [Ids -> [Indications -> Nat]]
         /\ errors' \subseteq Ids \X ErrorTypes
<1>1. sender.id \in Ids /\ Eof(sender) \in Pdus
  BY CurrentEof
<1>2. /\ wire \in Seq(Pdus)
      /\ indications \in [Ids -> [Indications -> Nat]]
      /\ errors \subseteq Ids \X ErrorTypes
  BY DEF Inv, TypeOK
<1>3. CASE wire' = Append(wire, Eof(sender)) /\ Indicate(sender.id, {"EOF_SENT", "FINISHED"})
             /\ UNCHANGED errors
  BY <1>1, <1>2, <1>3, IndicateType, PostType
<1>4. CASE IssueError(sender.id, "TRANSPORT_ERROR") /\ UNCHANGED <<wire, indications>>
  BY <1>1, <1>2, <1>4 DEF IssueError, ErrorTypes
<1> QED BY <1>3, <1>4 DEF EofOutcome

LEMMA FinishWithoutFileInv == Inv /\ FinishWithoutFile => Inv'
<1> SUFFICES ASSUME Inv, FinishWithoutFile PROVE Inv'
  OBVIOUS
<1>1. sender.state # "COMPLETED" /\ EofOutcome
  BY DEF FinishWithoutFile, EofOutcome, Inv, Consistent
<1>2. sender' = Close(SizeRead(sender)) /\ sender' \in SenderRecords
  BY <1>1, CurrentEof DEF FinishWithoutFile
<1>3. /\ sender'.state = "COMPLETED" /\ sender'.id = sender.id
      /\ sender'.source_filename = sender.source_filename
      /\ sender'.virtual_source_file_size = sender.virtual_source_file_size
  BY <1>2 DEF Close, SizeRead, Inv, TypeOK, SenderRecords
<1>4. /\ call' = "idle" /\ depth' \in Nat /\ owed' \in BOOLEAN
      /\ UNCHANGED <<transaction_sequence_number, store, listing>>
  BY DEF FinishWithoutFile, Return, UnchangedFiles, Inv, TypeOK
<1> QED BY <1>1, <1>2, <1>3, <1>4, EofOutcomeType, ClosingInv

LEMMA SendFileDataInv == Inv /\ SendFileData => Inv'
<1> SUFFICES ASSUME Inv, SendFileData PROVE Inv'
  OBVIOUS
<1>1. /\ sender.state = "SEND_FILE" /\ sender \in SenderRecords
      /\ UNCHANGED <<transaction_sequence_number, store, listing>>
  BY DEF SendFileData, UnchangedFiles, Inv, TypeOK, Consistent
<1>2. CASE HeldBack
  <2>1. TypeOK'
    BY <1>1, <1>2 DEF HeldBack, Return, UnchangedOutput, Inv, TypeOK, Calls
  <2>2. Consistent'
    BY <1>1, <1>2 DEF HeldBack, Return, Inv, Consistent, IsListing
  <2> QED BY <2>1, <2>2 DEF Inv
<1>3. CASE TransportNotReady
  <2>1. TypeOK'
    BY <1>1, <1>3 DEF TransportNotReady, Return, UnchangedOutput, Inv, TypeOK, Calls
  <2>2. Consistent'
    BY <1>1, <1>3 DEF TransportNotReady, Return, Inv, Consistent, IsListing
  <2> QED BY <2>1, <2>2 DEF Inv
<1>4. CASE SendSegment
  <2> DEFINE data == AsCString(transaction_get_file_segment(sender))
             pdu == FileDataPdu(sender.id, sender.file_position, data)
  <2>1. /\ SegmentLength(sender) \in Nat
        /\ sender.file_position + SegmentLength(sender) <= sender.file_size
    BY <1>1, <1>4, SegmentLengthBounds DEF SendSegment, SenderRecords
  <2>2. sender.id \in Ids /\ FileWords(sender) \in Seq(Word)
    BY <1>1, CurrentEof, CurrentFile
  <2>3. data \in Seq(Word)
    BY <1>1, <1>4, <2>2, SegmentType DEF SendSegment, SenderRecords
  <2>4. pdu \in Pdus
    BY <1>1, <2>2, <2>3 DEF Pdus, FileDataPdu, FileDataPdus, SenderRecords
  <2>5. wire' \in Seq(Pdus)
    BY <1>4, <2>4, PostType DEF SendSegment, Inv, TypeOK
  <2>6. /\ sender' \in SenderRecords
        /\ sender' = [sender EXCEPT !.file_position = @ + SegmentLength(sender)]
    BY <1>1, <1>4, <2>1 DEF SendSegment, SenderRecords
  <2>7. TypeOK'
    BY <1>1, <1>4, <2>5, <2>6 DEF SendSegment, Inv, TypeOK
  <2>8. Consistent'
    BY <1>1, <1>4, <2>1, <2>6 DEF SendSegment, Inv, Consistent, IsListing, SenderRecords
  <2> QED BY <2>7, <2>8 DEF Inv
<1>5. CASE SegmentFails
  <2> DEFINE moved == [sender EXCEPT !.file_position = @ + SegmentLength(sender)]
  <2>1. SegmentLength(sender) \in Nat
    BY <1>1, <1>5, SegmentLengthBounds DEF SegmentFails, SenderRecords
  <2>2. sender' \in {Close(sender), Close(moved)}
    BY <1>5 DEF SegmentFails
  <2>3. /\ sender' \in SenderRecords /\ sender'.state = "COMPLETED"
        /\ sender'.id = sender.id /\ sender'.source_filename = sender.source_filename
        /\ sender'.virtual_source_file_size = sender.virtual_source_file_size
    <3>1. CASE sender' = Close(sender)
      BY <1>1, <3>1 DEF Close, SenderRecords, SenderStates
    <3>2. CASE sender' = Close(moved)
      <4>1. /\ moved \in SenderRecords /\ moved.id = sender.id
            /\ moved.source_filename = sender.source_filename
            /\ moved.virtual_source_file_size = sender.virtual_source_file_size
        BY <1>1, <2>1 DEF SenderRecords
      <4> QED BY <3>2, <4>1 DEF Close, SenderRecords, SenderStates
    <3> QED BY <2>2, <3>1, <3>2
  <2>4. sender.id \in Ids
    BY <1>1, CurrentEof
  <2>5. errors' \subseteq Ids \X ErrorTypes
    BY <1>5, <2>4 DEF SegmentFails, IssueError, ErrorTypes, Inv, TypeOK
  <2>6. /\ call' = "idle" /\ depth' \in Nat /\ owed' \in BOOLEAN
        /\ wire' \in Seq(Pdus) /\ indications' \in [Ids -> [Indications -> Nat]]
    BY <1>5 DEF SegmentFails, Return, Inv, TypeOK
  <2> QED BY <1>1, <2>3, <2>5, <2>6, ClosingInv
<1>6. CASE CompleteTransfer
  <2>1. EofOutcome /\ sender.state # "COMPLETED"
    BY <1>1, <1>6 DEF CompleteTransfer, EofOutcome
  <2>2. sender' = Close(SizeRead(sender)) /\ sender' \in SenderRecords
    BY <1>1, <1>6, CurrentEof DEF CompleteTransfer
  <2>3. /\ sender'.state = "COMPLETED" /\ sender'.id = sender.id
        /\ sender'.source_filename = sender.source_filename
        /\ sender'.virtual_source_file_size = sender.virtual_source_file_size
    BY <1>1, <2>2 DEF Close, SizeRead, SenderRecords
  <2>4. call' = "idle" /\ depth' \in Nat /\ owed' \in BOOLEAN
    BY <1>6 DEF CompleteTransfer, Return, Inv, TypeOK
  <2> QED BY <1>1, <2>1, <2>2, <2>3, <2>4, EofOutcomeType, ClosingInv
<1> QED BY <1>2, <1>3, <1>4, <1>5, <1>6 DEF SendFileData, TransportReady

-----------------------------------------------------------------------------
(***************************************************************************)
(* Requests, link state procedures and the environment keep the invariant.   *)
(***************************************************************************)
\* A step that only sets flags of the current transaction or starts the loop.
LEMMA FlagsInv ==
  ASSUME Inv, call = "idle", sender.state = "SEND_FILE",
         NEW frozen \in BOOLEAN, NEW suspended \in BOOLEAN,
         sender' = [sender EXCEPT !.is_frozen = frozen, !.is_suspended = suspended],
         call' \in {"idle", "send_file_data"}, depth' \in Nat, owed' \in BOOLEAN,
         indications' \in [Ids -> [Indications -> Nat]],
         errors' \subseteq Ids \X ErrorTypes,
         UNCHANGED <<transaction_sequence_number, store, listing, wire>>
  PROVE  Inv'
<1>1. sender' \in SenderRecords
  BY DEF Inv, TypeOK, SenderRecords
<1>2. TypeOK'
  BY <1>1 DEF Inv, TypeOK, Calls
<1>3. Consistent'
  BY DEF Inv, TypeOK, Consistent, IsListing, SenderRecords
<1> QED BY <1>2, <1>3 DEF Inv

LEMMA CancelInv == ASSUME Inv, NEW id \in Ids, Cancel(id) PROVE Inv'
<1> DEFINE s == [sender EXCEPT !.condition_code = "cancel_request_received"]
<1>1. /\ call = "idle" /\ id = sender.id /\ sender.state = "SEND_FILE"
      /\ sender \in SenderRecords
  BY DEF Cancel, ToActiveSender, Inv, TypeOK
<1>2. s \in SenderRecords /\ s.id # 0
  BY <1>1 DEF SenderRecords, Inv, Consistent
<1>3. IsListing(s) => s.virtual_source_file_size <= Len(listing.data)
  BY DEF IsListing, Inv, Consistent
<1>4. Eof(s) \in Pdus /\ Close(SizeRead(s)) \in SenderRecords
  BY <1>2, <1>3, EofType
<1>5. /\ sender' = Close(SizeRead(s)) /\ sender' \in SenderRecords
      /\ sender'.state = "COMPLETED" /\ sender'.id = sender.id
      /\ sender'.source_filename = sender.source_filename
      /\ sender'.virtual_source_file_size = sender.virtual_source_file_size
  BY <1>1, <1>4 DEF Cancel, Close, SizeRead, SenderRecords
<1>6. wire' \in Seq(Pdus) /\ errors' \subseteq Ids \X ErrorTypes
  <2>1. CASE wire' = Append(wire, Eof(s)) /\ UNCHANGED errors
    BY <1>4, <2>1, PostType DEF Inv, TypeOK
  <2>2. CASE IssueError(id, "TRANSPORT_ERROR") /\ UNCHANGED wire
    BY <2>2 DEF IssueError, ErrorTypes, Inv, TypeOK
  <2> QED BY <2>1, <2>2 DEF Cancel
<1>7. indications' \in [Ids -> [Indications -> Nat]]
  BY IndicateType DEF Cancel, Inv, TypeOK
<1>8. /\ call' = "idle" /\ depth' \in Nat /\ owed' \in BOOLEAN
      /\ UNCHANGED <<transaction_sequence_number, store, listing>>
  BY <1>1 DEF Cancel, UnchangedByRequest, UnchangedFiles, Inv, TypeOK
<1> QED BY <1>5, <1>6, <1>7, <1>8, ClosingInv

LEMMA RequestInv == Inv /\ Request => Inv'
<1> SUFFICES ASSUME Inv, NEW id \in Ids,
                    Cancel(id) \/ Suspend(id) \/ Resume(id) \/ Abandon(id) \/ DeliverPdu(id)
             PROVE  Inv'
  BY DEF Request
<1>1. CASE Cancel(id)
  BY <1>1, CancelInv
<1> SUFFICES ASSUME Suspend(id) \/ Resume(id) \/ Abandon(id) \/ DeliverPdu(id) PROVE Inv'
  BY <1>1
<1>2. /\ call = "idle" /\ id = sender.id /\ sender.state = "SEND_FILE"
      /\ sender \in SenderRecords
      /\ UNCHANGED <<transaction_sequence_number, store, listing, owed>>
  BY DEF Suspend, Resume, Abandon, DeliverPdu, ToActiveSender, UnchangedByRequest,
         UnchangedFiles, Inv, TypeOK
<1>3. /\ indications \in [Ids -> [Indications -> Nat]] /\ wire \in Seq(Pdus)
      /\ errors \subseteq Ids \X ErrorTypes /\ depth \in Nat /\ owed \in BOOLEAN
  BY DEF Inv, TypeOK
<1>4. CASE Suspend(id)
  <2>1. sender' = [sender EXCEPT !.is_frozen = sender.is_frozen, !.is_suspended = TRUE]
    BY <1>2, <1>4 DEF Suspend, SenderRecords
  <2>2. indications' \in [Ids -> [Indications -> Nat]]
    BY <1>3, <1>4, IndicateType DEF Suspend
  <2> QED BY <1>2, <1>3, <1>4, <2>1, <2>2, FlagsInv DEF Suspend, SenderRecords
<1>5. CASE Resume(id)
  <2>1. sender' = [sender EXCEPT !.is_frozen = sender.is_frozen, !.is_suspended = FALSE]
    BY <1>2, <1>5 DEF Resume, SenderRecords
  <2>2. indications' \in [Ids -> [Indications -> Nat]]
    BY <1>3, <1>5, IndicateType DEF Resume
  <2> QED BY <1>2, <1>3, <1>5, <2>1, <2>2, FlagsInv DEF Resume, StartSending, SenderRecords
<1>6. CASE Abandon(id)
  <2>1. indications' \in [Ids -> [Indications -> Nat]]
    BY <1>3, <1>6, IndicateType DEF Abandon
  <2>2. /\ sender' \in SenderRecords /\ sender'.state = "COMPLETED"
        /\ sender'.id = sender.id /\ sender'.source_filename = sender.source_filename
        /\ sender'.virtual_source_file_size = sender.virtual_source_file_size
    BY <1>2, <1>6 DEF Abandon, Close, SenderRecords, SenderStates
  <2>3. UNCHANGED <<call, depth, wire, errors>>
    BY <1>6 DEF Abandon
  <2> QED BY <1>2, <1>3, <2>1, <2>2, <2>3, ClosingInv
<1>7. CASE DeliverPdu(id)
  <2>1. sender' = [sender EXCEPT !.is_frozen = sender.is_frozen,
                                 !.is_suspended = sender.is_suspended]
    BY <1>2, <1>7 DEF DeliverPdu, SenderRecords
  <2>2. errors' \subseteq Ids \X ErrorTypes
    BY <1>3, <1>7 DEF DeliverPdu, IssueError, ErrorTypes
  <2> QED BY <1>2, <1>3, <1>7, <2>1, <2>2, FlagsInv DEF DeliverPdu, SenderRecords
<1> QED BY <1>4, <1>5, <1>6, <1>7

LEMMA LinkStateInv == Inv /\ LinkState => Inv'
<1> SUFFICES ASSUME Inv, NEW dest \in Destinations, Freeze(dest) \/ Thaw(dest) PROVE Inv'
  BY DEF LinkState
<1>1. /\ call = "idle" /\ sender.state = "SEND_FILE" /\ sender \in SenderRecords
      /\ UNCHANGED <<transaction_sequence_number, store, listing, wire, indications,
                     errors, owed>>
  BY DEF Freeze, Thaw, ToActiveSender, UnchangedByRequest, UnchangedFiles,
         UnchangedOutput, Inv, TypeOK
<1>2. \E frozen \in BOOLEAN :
        sender' = [sender EXCEPT !.is_frozen = frozen, !.is_suspended = sender.is_suspended]
  BY <1>1 DEF Freeze, Thaw, SenderRecords
<1>3. call' \in {"idle", "send_file_data"} /\ depth' \in Nat
  BY <1>1 DEF Freeze, Thaw, StartSending, Inv, TypeOK
<1>4. indications' = indications /\ errors' = errors /\ owed' = owed
  BY <1>1
<1> QED BY <1>1, <1>2, <1>3, <1>4, FlagsInv DEF Inv, TypeOK, SenderRecords

LEMMA TransportIsReadyCallbackInv == Inv /\ TransportIsReadyCallback => Inv'
<1> SUFFICES ASSUME Inv, TransportIsReadyCallback PROVE Inv'
  OBVIOUS
<1>1. TypeOK'
  <2>1. call' \in Calls /\ depth' \in Nat
    BY DEF TransportIsReadyCallback, StartSending, Inv, TypeOK, Calls
  <2> QED BY <2>1 DEF TransportIsReadyCallback, UnchangedOutput, UnchangedFiles, Inv, TypeOK
<1>2. Consistent'
  BY DEF TransportIsReadyCallback, StartSending, UnchangedFiles, Inv, Consistent, IsListing
<1> QED BY <1>1, <1>2 DEF Inv

LEMMA EnvironmentInv == Inv /\ Environment => Inv'
<1> SUFFICES ASSUME Inv, Environment PROVE Inv'
  OBVIOUS
<1>1. ASSUME NEW text \in Listings, ListingFails(text) PROVE Inv'
  <2>1. /\ listing' \in [data : Seq(Word), size : Nat] /\ listing'.size = listing.size
        /\ Len(listing'.data) \in Nat /\ Len(listing.data) \in Nat
        /\ Len(listing'.data) >= Len(listing.data)
    BY <1>1, DumpedType, LenProperties DEF ListingFails, Inv, TypeOK
  <2>2. TypeOK'
    BY <1>1, <2>1 DEF ListingFails, UnchangedOutput, Inv, TypeOK
  <2>3. Consistent'
    BY <1>1, <2>1 DEF ListingFails, Inv, TypeOK, Consistent, IsListing, SenderRecords
  <2> QED BY <2>2, <2>3 DEF Inv
<1>2. ASSUME NEW file \in SourceFiles, SourceRewritten(file) PROVE Inv'
  <2>1. TypeOK'
    BY <1>2 DEF SourceRewritten, UnchangedOutput, Inv, TypeOK
  <2>2. Consistent'
    BY <1>2 DEF SourceRewritten, Inv, Consistent, IsListing
  <2> QED BY <2>1, <2>2 DEF Inv
<1> QED BY <1>1, <1>2 DEF Environment

LEMMA StutterInv == Inv /\ UNCHANGED vars => Inv'
BY DEF vars, Inv, TypeOK, Consistent, IsListing

LEMMA NextInv == Inv /\ [Next]_vars => Inv'
BY NewTransactionInv, FinishWithoutFileInv, SendFileDataInv, RequestInv, LinkStateInv,
   TransportIsReadyCallbackInv, EnvironmentInv, StutterInv DEF Next

THEOREM Invariance == Spec => []Inv
BY InitInv, NextInv, PTL DEF Spec

\* Every variable keeps its type, whatever the files, the user and the transport do.
THEOREM TypeCorrect == Spec => []TypeOK
<1>1. Inv => TypeOK
  BY DEF Inv
<1> QED BY <1>1, Invariance, PTL

-----------------------------------------------------------------------------
(***************************************************************************)
(* No wake-up is lost.                                                      *)
(***************************************************************************)
\* Wherever the loop stops without ending the transaction, somebody holds the
\* transfer or owes a call; wherever nobody does any more, the loop is started.
LEMMA NoLostWakeupStep == Inv /\ NoLostWakeup /\ [Next]_vars => NoLostWakeup'
<1> SUFFICES ASSUME Inv, NoLostWakeup, [Next]_vars PROVE NoLostWakeup'
  OBVIOUS
<1> USE DEF NoLostWakeup
<1>1. CASE NewTransaction
  <2>1. PICK s : s.state = "SEND_METADATA" /\ (MetadataSent(s) \/ MetadataRejected(s))
    BY <1>1, NewTransactionOpens DEF Fresh, OpenTransaction
  <2>2. CASE MetadataSent(s)
    BY <2>2 DEF MetadataSent, StartSending
  <2>3. CASE MetadataRejected(s)
    <3>1. sender' = Close(s)
      BY <2>3 DEF MetadataRejected
    <3> QED BY <2>1, <3>1 DEF Close
  <2> QED BY <2>1, <2>2, <2>3
<1>2. CASE FinishWithoutFile
  BY <1>2 DEF FinishWithoutFile, Close, SizeRead, Inv, TypeOK, SenderRecords
<1>3. CASE SendFileData
  <2>1. sender \in SenderRecords
    BY DEF Inv, TypeOK
  <2>2. CASE HeldBack
    BY <2>2 DEF HeldBack, Held
  <2>3. CASE TransportNotReady
    BY <2>3 DEF TransportNotReady
  <2>4. CASE SendSegment
    BY <1>3, <2>4 DEF SendFileData, SendSegment
  <2>5. CASE SegmentFails
    BY <2>1, <2>5 DEF SegmentFails, Close, SenderRecords
  <2>6. CASE CompleteTransfer
    BY <2>1, <2>6 DEF CompleteTransfer, Close, SizeRead, SenderRecords
  <2> QED BY <1>3, <2>2, <2>3, <2>4, <2>5, <2>6 DEF SendFileData, TransportReady
<1>4. CASE Request
  <2>1. PICK id \in Ids : Cancel(id) \/ Suspend(id) \/ Resume(id) \/ Abandon(id) \/ DeliverPdu(id)
    BY <1>4 DEF Request
  <2>2. sender \in SenderRecords
    BY DEF Inv, TypeOK
  <2> QED BY <2>1, <2>2 DEF Cancel, Suspend, Resume, Abandon, DeliverPdu, StartSending,
            UnchangedByRequest, Close, SizeRead, SenderRecords
<1>5. CASE LinkState
  <2>1. sender \in SenderRecords
    BY DEF Inv, TypeOK
  <2> QED BY <1>5, <2>1 DEF LinkState, Freeze, Thaw, StartSending, SenderRecords
<1>6. CASE TransportIsReadyCallback
  BY <1>6 DEF TransportIsReadyCallback, StartSending
<1>7. CASE Environment
  BY <1>7 DEF Environment, ListingFails, SourceRewritten
<1>8. CASE UNCHANGED vars
  BY <1>8 DEF vars
<1> QED BY <1>1, <1>2, <1>3, <1>4, <1>5, <1>6, <1>7, <1>8 DEF Next

\* A file transfer that is not running waits for the user, the link or the
\* transport: sender_machine_update_state, E1, E32, E41 and the ready callback.
THEOREM WakeupIsNeverLost == Spec => []NoLostWakeup
<1>1. Init => NoLostWakeup
  <2>1. Init => sender.state # "SEND_FILE"
    BY DEF Init, Close, NewSender
  <2> QED BY <2>1 DEF NoLostWakeup
<1> QED BY <1>1, NoLostWakeupStep, Invariance, PTL DEF Spec

-----------------------------------------------------------------------------
(***************************************************************************)
(* What a step does to the life of a transaction: it opens the next one,     *)
(* ends the current one, suspends or resumes it, or leaves all that alone.   *)
(***************************************************************************)
Opens ==
  /\ sender'.id = sender.id + 1 /\ sender'.id \in Ids
  /\ ~sender'.is_suspended
  /\ Indicate(sender'.id, {"TRANSACTION"})
  /\ sender'.state = "COMPLETED" => BrokenOff(sender.id)'

Finishes ==
  /\ sender.state # "COMPLETED" /\ sender'.state = "COMPLETED"
  /\ sender'.id = sender.id /\ sender.id \in Ids
  /\ sender'.is_suspended = sender.is_suspended
  /\ \/ Indicate(sender.id, {"EOF_SENT", "FINISHED"})
     \/ Indicate(sender.id, {"FINISHED"})
     \/ Indicate(sender.id, {"ABANDONED"})
     \/ UNCHANGED indications /\ BrokenOff(sender.id)'

Suspends ==
  /\ sender'.state = sender.state /\ sender'.id = sender.id /\ sender.id \in Ids
  /\ ~sender.is_suspended /\ sender'.is_suspended
  /\ Indicate(sender.id, {"SUSPENDED"})

Resumes ==
  /\ sender'.state = sender.state /\ sender'.id = sender.id /\ sender.id \in Ids
  /\ sender.is_suspended /\ ~sender'.is_suspended
  /\ Indicate(sender.id, {"RESUMED"})

Continues ==
  /\ sender'.state = sender.state /\ sender'.id = sender.id
  /\ sender'.is_suspended = sender.is_suspended
  /\ UNCHANGED indications

LEMMA StepEffects ==
  ASSUME Inv, [Next]_vars
  PROVE  /\ errors \subseteq errors'
         /\ Opens \/ Finishes \/ Suspends \/ Resumes \/ Continues
<1> DEFINE Goal == /\ errors \subseteq errors'
                   /\ Opens \/ Finishes \/ Suspends \/ Resumes \/ Continues
<1>0. /\ sender \in SenderRecords
      /\ sender.id = transaction_sequence_number
      /\ sender.state # "COMPLETED" => sender.id \in Ids
  BY CurrentEof DEF Inv, TypeOK, Consistent
<1>1. CASE NewTransaction
  <2>1. PICK s : Fresh(s) /\ OpenTransaction(s)
    BY <1>1, NewTransactionOpens
  <2>2. s.id = sender.id + 1 /\ s.id \in Ids
    BY <1>0, <2>1, SenderAssumption DEF Fresh, OpenTransaction, SenderRecords, Ids
  <2>3. Indicate(s.id, {"TRANSACTION"})
    BY <2>1 DEF OpenTransaction
  <2>4. CASE MetadataSent(s)
    <3>1. /\ sender'.id = s.id /\ ~sender'.is_suspended /\ sender'.state # "COMPLETED"
          /\ errors' = errors
      BY <2>1, <2>4 DEF MetadataSent, Fresh, SenderRecords
    <3> QED BY <2>2, <2>3, <3>1 DEF Opens
  <2>5. CASE MetadataRejected(s)
    <3>1. sender'.id = s.id /\ ~sender'.is_suspended
      BY <2>1, <2>5 DEF MetadataRejected, Close, Fresh, SenderRecords
    <3>2. errors \subseteq errors' /\ BrokenOff(s.id)'
      BY <2>5 DEF MetadataRejected, IssueError, BrokenOff
    <3>3. BrokenOff(sender.id)'
      BY <3>1, <3>2 DEF BrokenOff
    <3> QED BY <2>2, <2>3, <3>1, <3>2, <3>3 DEF Opens
  <2> QED BY <2>1, <2>4, <2>5 DEF OpenTransaction
<1>2. ASSUME EofOutcome, sender.state # "COMPLETED", sender' = Close(SizeRead(sender))
      PROVE  Goal
  <2>1. /\ sender'.state = "COMPLETED" /\ sender'.id = sender.id
        /\ sender'.is_suspended = sender.is_suspended
    BY <1>0, <1>2 DEF Close, SizeRead, SenderRecords
  <2>2. CASE Indicate(sender.id, {"EOF_SENT", "FINISHED"}) /\ UNCHANGED errors
    BY <1>0, <1>2, <2>1, <2>2 DEF Finishes
  <2>3. CASE IssueError(sender.id, "TRANSPORT_ERROR") /\ UNCHANGED indications
    <3>1. errors \subseteq errors' /\ BrokenOff(sender.id)'
      BY <2>1, <2>3 DEF IssueError, BrokenOff
    <3> QED BY <1>0, <1>2, <2>1, <2>3, <3>1 DEF Finishes
  <2> QED BY <1>2, <2>2, <2>3 DEF EofOutcome
<1>3. CASE FinishWithoutFile
  <2>1. EofOutcome /\ sender.state # "COMPLETED" /\ sender' = Close(SizeRead(sender))
    BY <1>3 DEF FinishWithoutFile, EofOutcome, Inv, Consistent
  <2> QED BY <1>2, <2>1
<1>4. CASE SendFileData
  <2>1. sender.state = "SEND_FILE"
    BY <1>4 DEF SendFileData, Inv, Consistent
  <2>2. CASE HeldBack
    BY <2>2 DEF HeldBack, UnchangedOutput, Continues
  <2>3. CASE TransportNotReady
    BY <2>3 DEF TransportNotReady, UnchangedOutput, Continues
  <2>4. CASE SendSegment
    BY <1>0, <2>4 DEF SendSegment, Continues, SenderRecords
  <2>5. CASE SegmentFails
    <3> DEFINE moved == [sender EXCEPT !.file_position = @ + SegmentLength(sender)]
    <3>1. sender' \in {Close(sender), Close(moved)}
      BY <2>5 DEF SegmentFails
    <3>2. /\ sender'.state = "COMPLETED" /\ sender'.id = sender.id
          /\ sender'.is_suspended = sender.is_suspended
      BY <1>0, <3>1 DEF Close, SenderRecords
    <3>3. errors \subseteq errors' /\ BrokenOff(sender.id)' /\ UNCHANGED indications
      BY <2>5, <3>2 DEF SegmentFails, IssueError, BrokenOff
    <3> QED BY <1>0, <2>1, <3>2, <3>3 DEF Finishes
  <2>6. CASE CompleteTransfer
    <3>1. EofOutcome /\ sender' = Close(SizeRead(sender))
      BY <2>6 DEF CompleteTransfer, EofOutcome
    <3> QED BY <1>2, <2>1, <3>1
  <2> QED BY <1>4, <2>2, <2>3, <2>4, <2>5, <2>6 DEF SendFileData, TransportReady
<1>5. CASE Request
  <2>1. PICK id \in Ids :
          Cancel(id) \/ Suspend(id) \/ Resume(id) \/ Abandon(id) \/ DeliverPdu(id)
    BY <1>5 DEF Request
  <2>2. id = sender.id /\ sender.state = "SEND_FILE" /\ sender.id \in Ids
    BY <1>0, <2>1 DEF Cancel, Suspend, Resume, Abandon, DeliverPdu, ToActiveSender
  <2>3. CASE Cancel(id)
    <3>1. /\ sender'.state = "COMPLETED" /\ sender'.id = sender.id
          /\ sender'.is_suspended = sender.is_suspended
      BY <1>0, <2>3 DEF Cancel, Close, SizeRead, SenderRecords
    <3>2. errors \subseteq errors' /\ Indicate(sender.id, {"FINISHED"})
      BY <2>2, <2>3 DEF Cancel, IssueError
    <3> QED BY <2>2, <3>1, <3>2 DEF Finishes
  <2>4. CASE Suspend(id)
    BY <1>0, <2>2, <2>4 DEF Suspend, Suspends, SenderRecords
  <2>5. CASE Resume(id)
    <3>1. /\ sender'.state = sender.state /\ sender'.id = sender.id
          /\ ~sender'.is_suspended /\ errors' = errors
      BY <1>0, <2>5 DEF Resume, SenderRecords
    <3>2. CASE sender.is_suspended
      BY <2>2, <2>5, <3>1, <3>2 DEF Resume, Resumes
    <3>3. CASE ~sender.is_suspended
      <4>1. sender'.is_suspended = sender.is_suspended
        BY <1>0, <2>5, <3>3 DEF Resume, SenderRecords
      <4> QED BY <2>5, <3>1, <3>3, <4>1 DEF Resume, Continues
    <3> QED BY <3>2, <3>3
  <2>6. CASE Abandon(id)
    BY <1>0, <2>2, <2>6 DEF Abandon, Close, Finishes, SenderRecords
  <2>7. CASE DeliverPdu(id)
    BY <2>7 DEF DeliverPdu, IssueError, Continues
  <2> QED BY <2>1, <2>3, <2>4, <2>5, <2>6, <2>7
<1>6. CASE LinkState
  BY <1>0, <1>6 DEF LinkState, Freeze, Thaw, UnchangedOutput, Continues, SenderRecords
<1>7. CASE TransportIsReadyCallback
  BY <1>7 DEF TransportIsReadyCallback, UnchangedOutput, Continues
<1>8. CASE Environment
  BY <1>8 DEF Environment, ListingFails, SourceRewritten, UnchangedOutput, Continues
<1>9. CASE UNCHANGED vars
  BY <1>9 DEF vars, Continues
<1> QED BY <1>1, <1>3, <1>4, <1>5, <1>6, <1>7, <1>8, <1>9 DEF Next

\* Nothing is indicated of a transaction before it is opened.
NothingOfTheFuture ==
  \A id \in Ids : id > sender.id => \A k \in Indications : indications[id][k] = 0

EndsInv == EndIsReported /\ SuspensionBalance /\ NothingOfTheFuture

LEMMA EndsStep == Inv /\ EndsInv /\ [Next]_vars => EndsInv'
<1> SUFFICES ASSUME Inv, EndsInv, [Next]_vars PROVE EndsInv'
  OBVIOUS
<1>0. /\ sender.id \in 0 .. MaxPuts /\ sender.is_suspended \in BOOLEAN
      /\ indications \in [Ids -> [Indications -> Nat]]
      /\ \A id \in Ids : id \in Nat /\ id # 0
      /\ errors \subseteq errors'
      /\ \A id : BrokenOff(id) => BrokenOff(id)'
  BY StepEffects, SenderAssumption DEF Inv, TypeOK, SenderRecords, Ids, BrokenOff
<1>1. {"TRANSACTION", "EOF_SENT", "FINISHED", "ABANDONED", "SUSPENDED", "RESUMED"} = Indications
  BY DEF Indications
<1> USE DEF EndsInv, EndIsReported, SuspensionBalance, NothingOfTheFuture, Ends
<1>2. CASE Opens
  <2>1. /\ sender'.id = sender.id + 1 /\ sender'.id \in Ids /\ ~sender'.is_suspended
        /\ sender'.state = "COMPLETED" => BrokenOff(sender.id)'
    BY <1>2 DEF Opens
  <2>2. \A i \in Ids, k \in Indications :
          indications'[i][k] = IF i = sender'.id /\ k = "TRANSACTION" THEN indications[i][k] + 1
                                                                    ELSE indications[i][k]
    BY <1>0, <1>2, <2>1, IndicateType DEF Opens
  <2>3. \A i \in Ids, k \in Indications \ {"TRANSACTION"} :
          indications'[i][k] = indications[i][k]
    BY <2>2
  <2>4. \A i \in Ids : Ends(i)' = Ends(i)
    BY <1>1, <2>3
  <2>5. Ends(sender'.id) = 0
    BY <1>0, <1>1, <2>1
  <2>6. EndIsReported'
    BY <1>0, <2>1, <2>4, <2>5
  <2>7. /\ indications[sender'.id]["SUSPENDED"] = 0
        /\ indications[sender'.id]["RESUMED"] = 0
    BY <1>0, <1>1, <2>1
  <2>8. SuspensionBalance'
    <3>1. /\ indications'[sender'.id]["SUSPENDED"] = 0
          /\ indications'[sender'.id]["RESUMED"] = 0
      BY <1>1, <2>1, <2>3, <2>7
    <3>2. \A i \in Ids \ {sender'.id} :
            /\ indications'[i]["SUSPENDED"] = indications[i]["SUSPENDED"]
            /\ indications'[i]["RESUMED"] = indications[i]["RESUMED"]
      BY <1>1, <2>3
    <3> QED BY <2>1, <3>1, <3>2
  <2>9. NothingOfTheFuture'
    BY <1>0, <2>1, <2>2
  <2> QED BY <2>6, <2>8, <2>9
<1>3. CASE Finishes
  <2>1. /\ sender.state # "COMPLETED" /\ sender'.state = "COMPLETED"
        /\ sender'.id = sender.id /\ sender.id \in Ids
        /\ sender'.is_suspended = sender.is_suspended
    BY <1>3 DEF Finishes
  <2>2. CASE UNCHANGED indications /\ BrokenOff(sender.id)'
    BY <1>0, <2>1, <2>2
  <2>3. ASSUME NEW kinds, Indicate(sender.id, kinds),
               kinds \in {{"EOF_SENT", "FINISHED"}, {"FINISHED"}, {"ABANDONED"}}
        PROVE  EndsInv'
    <3>1. \A i \in Ids, k \in Indications :
            indications'[i][k] = IF i = sender.id /\ k \in kinds THEN indications[i][k] + 1
                                                               ELSE indications[i][k]
      BY <1>0, <2>1, <2>3, IndicateType
    <3>2. \A i \in Ids : /\ indications'[i]["SUSPENDED"] = indications[i]["SUSPENDED"]
                         /\ indications'[i]["RESUMED"] = indications[i]["RESUMED"]
      BY <1>1, <2>3, <3>1
    <3>3. \A i \in Ids \ {sender.id} : Ends(i)' = Ends(i)
      BY <1>1, <3>1
    <3>4. Ends(sender.id)' = 1
      <4>1. Ends(sender.id) = 0
        BY <1>0, <2>1
      <4>2. /\ indications[sender.id]["FINISHED"] \in Nat
            /\ indications[sender.id]["ABANDONED"] \in Nat
        BY <1>0, <1>1, <2>1
      <4>3. \/ "FINISHED" \in kinds /\ "ABANDONED" \notin kinds
            \/ "FINISHED" \notin kinds /\ "ABANDONED" \in kinds
        BY <2>3
      <4>4. /\ indications'[sender.id]["FINISHED"] =
                 indications[sender.id]["FINISHED"] + (IF "FINISHED" \in kinds THEN 1 ELSE 0)
            /\ indications'[sender.id]["ABANDONED"] =
                 indications[sender.id]["ABANDONED"] + (IF "ABANDONED" \in kinds THEN 1 ELSE 0)
        BY <1>1, <2>1, <3>1, <4>2
      <4> QED BY <2>1, <4>1, <4>2, <4>3, <4>4
    <3>5. EndIsReported'
      BY <1>0, <2>1, <3>3, <3>4
    <3>6. SuspensionBalance'
      BY <1>0, <2>1, <3>2
    <3>7. NothingOfTheFuture'
      BY <1>0, <2>1, <3>1
    <3> QED BY <3>5, <3>6, <3>7
  <2> QED BY <1>3, <2>2, <2>3 DEF Finishes
<1>4. CASE Suspends
  <2>1. \A i \in Ids, k \in Indications :
          indications'[i][k] = IF i = sender.id /\ k = "SUSPENDED" THEN indications[i][k] + 1
                                                                 ELSE indications[i][k]
    BY <1>0, <1>4, IndicateType DEF Suspends
  <2>2. \A i \in Ids : Ends(i)' = Ends(i)
    BY <1>1, <2>1
  <2>3. /\ \A i \in Ids : indications'[i]["RESUMED"] = indications[i]["RESUMED"]
        /\ \A i \in Ids \ {sender.id} : indications'[i]["SUSPENDED"] = indications[i]["SUSPENDED"]
        /\ indications'[sender.id]["SUSPENDED"] = indications[sender.id]["SUSPENDED"] + 1
        /\ indications[sender.id]["SUSPENDED"] \in Nat /\ indications[sender.id]["RESUMED"] \in Nat
    BY <1>0, <1>1, <1>4, <2>1 DEF Suspends
  <2>4. EndIsReported'
    BY <1>0, <1>4, <2>2 DEF Suspends
  <2>5. SuspensionBalance'
    <3>1. indications[sender.id]["SUSPENDED"] - indications[sender.id]["RESUMED"] = 0
      BY <1>0, <1>4, <2>3 DEF Suspends
    <3>2. indications'[sender.id]["SUSPENDED"] - indications'[sender.id]["RESUMED"] = 1
      BY <1>4, <2>3, <3>1 DEF Suspends
    <3> QED BY <1>4, <2>3, <3>2 DEF Suspends
  <2>6. NothingOfTheFuture'
    BY <1>0, <1>4, <2>1 DEF Suspends
  <2> QED BY <2>4, <2>5, <2>6
<1>5. CASE Resumes
  <2>1. \A i \in Ids, k \in Indications :
          indications'[i][k] = IF i = sender.id /\ k = "RESUMED" THEN indications[i][k] + 1
                                                               ELSE indications[i][k]
    BY <1>0, <1>5, IndicateType DEF Resumes
  <2>2. \A i \in Ids : Ends(i)' = Ends(i)
    BY <1>1, <2>1
  <2>3. /\ \A i \in Ids : indications'[i]["SUSPENDED"] = indications[i]["SUSPENDED"]
        /\ \A i \in Ids \ {sender.id} : indications'[i]["RESUMED"] = indications[i]["RESUMED"]
        /\ indications'[sender.id]["RESUMED"] = indications[sender.id]["RESUMED"] + 1
        /\ indications[sender.id]["SUSPENDED"] \in Nat /\ indications[sender.id]["RESUMED"] \in Nat
    BY <1>0, <1>1, <1>5, <2>1 DEF Resumes
  <2>4. EndIsReported'
    BY <1>0, <1>5, <2>2 DEF Resumes
  <2>5. SuspensionBalance'
    BY <1>0, <1>5, <2>3 DEF Resumes
  <2>6. NothingOfTheFuture'
    BY <1>0, <1>5, <2>1 DEF Resumes
  <2> QED BY <2>4, <2>5, <2>6
<1>6. CASE Continues
  BY <1>0, <1>6 DEF Continues
<1> QED BY <1>2, <1>3, <1>4, <1>5, <1>6, StepEffects

LEMMA EndsInit == Init => EndsInv
<1> SUFFICES ASSUME Init PROVE EndsInv
  OBVIOUS
<1>1. sender.id = 0
  BY DEF Init, Close, NewSender
<1>2. \A id \in Ids : id \in Nat /\ id # 0
  BY SenderAssumption DEF Ids
<1>3. \A id \in Ids, k \in Indications : indications[id][k] = 0
  BY DEF Init
<1> QED BY <1>1, <1>2, <1>3
     DEF EndsInv, EndIsReported, SuspensionBalance, NothingOfTheFuture, Ends, Indications

THEOREM EndsInvariance == Spec => []EndsInv
BY EndsInit, EndsStep, Invariance, PTL DEF Spec

\* No transaction ends twice, and the machine never closes a transaction without
\* FINISHED, ABANDONED or an error.
THEOREM EndIsAlwaysReported == Spec => []EndIsReported
<1>1. EndsInv => EndIsReported
  BY DEF EndsInv
<1> QED BY <1>1, EndsInvariance, PTL

\* SUSPENDED and RESUMED alternate and tell the state of the machine.
THEOREM SuspensionsBalance == Spec => []SuspensionBalance
<1>1. EndsInv => SuspensionBalance
  BY DEF EndsInv
<1> QED BY <1>1, EndsInvariance, PTL

-----------------------------------------------------------------------------
(***************************************************************************)
(* The sender implements the abstract stream.                               *)
(***************************************************************************)
\* The stream has a single word and PDU vocabulary with the sender.
LEMMA SamePdus ==
  /\ \A names : Stream!MetadataPdus(Nat, names) = MetadataPdus(Nat, names)
  /\ \A id : Stream!FileDataPdus({id}) = FileDataPdus({id})
  /\ \A id : Stream!EofPdus({id}) = EofPdus({id})
BY DEF Stream!MetadataPdus, Stream!FileDataPdus, Stream!EofPdus, Stream!Word,
       Stream!ConditionCodes, MetadataPdus, FileDataPdus, EofPdus, Word, ConditionCodes

\* Appending a PDU posts that PDU.
LEMMA Posting ==
  ASSUME wire \in Seq(Pdus), NEW pdu \in Pdus, wire' = Append(wire, pdu)
  PROVE  Stream!Posts /\ Stream!Posted = pdu
<1>1. /\ wire' # <<>>
      /\ Len(wire') = Len(wire) + 1
      /\ wire'[Len(wire) + 1] = pdu
  BY AppendProperties
<1> QED BY <1>1 DEF Stream!Posts, Stream!Posted

\* A step that closes the machine after an EOF, or without one.
LEMMA ClosingRefines ==
  ASSUME Inv, sender.state # "COMPLETED", sender'.state = "COMPLETED",
         sender'.id = sender.id,
         NEW pdu \in Pdus \cap EofPdus({sender.id}),
         \/ pdu.condition_code = "cancel_request_received"
         \/ /\ pdu.condition_code = "no_error"
            /\ sender.state = "SEND_FILE" => sender.file_position = sender.file_size,
         wire' = Append(wire, pdu) \/ wire' = wire
  PROVE  Stream!Next
<1>1. /\ AbstractStream' = Stream!Closed(sender.id)
      /\ AbstractStream = [open |-> TRUE, id |-> sender.id,
                           file |-> sender.state = "SEND_FILE",
                           size |-> sender.file_size, sent |-> sender.file_position]
  BY DEF AbstractStream, Stream!Closed
<1>2. sender.id \in Nat
  BY CurrentEof, SenderAssumption DEF Ids
<1>3. CASE wire' = wire
  <2>1. AbstractStream'.id = sender.id
    BY <1>1 DEF Stream!Closed
  <2> QED BY <1>1, <1>2, <1>3, <2>1 DEF Stream!Next, Stream!Abandon
<1>4. CASE wire' = Append(wire, pdu)
  <2>1. Stream!Posts /\ Stream!Posted = pdu
    BY <1>4, Posting DEF Inv, TypeOK
  <2>2. pdu \in Stream!EofPdus({AbstractStream.id})
    BY <1>1, SamePdus
  <2>3. CASE pdu.condition_code = "cancel_request_received"
    BY <1>1, <2>1, <2>2, <2>3 DEF Stream!Next, Stream!Cancel
  <2>4. CASE pdu.condition_code = "no_error"
    BY <1>1, <2>1, <2>2, <2>4 DEF Stream!Next, Stream!Complete
  <2> QED BY <2>3, <2>4
<1> QED BY <1>3, <1>4

LEMMA OpeningRefines == Inv /\ NewTransaction => Stream!Next
<1> SUFFICES ASSUME Inv, NewTransaction PROVE Stream!Next
  OBVIOUS
<1>1. PICK s : Fresh(s) /\ OpenTransaction(s)
  BY NewTransactionOpens
<1>2. /\ s \in SenderRecords /\ s.id \in Ids /\ s.id \in Nat
      /\ s.id = sender.id + 1 /\ sender.id \in Nat
  BY <1>1, SenderAssumption
     DEF Fresh, OpenTransaction, Inv, TypeOK, Consistent, SenderRecords, Ids
<1>3. AbstractStream.id = sender.id
  BY DEF AbstractStream
<1>4. CASE MetadataSent(s)
  <2> DEFINE src == s.source_filename
             dst == s.destination_filename
             pdu == MetadataPdu(s.id, s.file_size, src, dst)
  <2>1. /\ pdu \in Pdus /\ pdu \in MetadataPdus(Nat, SourceNames \cup TargetNames)
        /\ pdu.id = s.id /\ pdu.file_size = s.file_size
        /\ pdu.source_file_name = src /\ pdu.destination_file_name = dst
    BY <1>2 DEF MetadataPdu, Pdus, MetadataPdus, SenderRecords
  <2>2. Stream!Posts /\ Stream!Posted = pdu
    BY <1>4, <2>1, Posting DEF MetadataSent, Inv, TypeOK
  <2>3. AbstractStream' = [open |-> TRUE, id |-> s.id, file |-> IsFileTransfer(src, dst),
                           size |-> s.file_size, sent |-> 0]
    <3>1. CASE /\ IsFileTransfer(src, dst)
               /\ sender' = [s EXCEPT !.state = "SEND_FILE"]
      BY <1>1, <1>2, <3>1 DEF AbstractStream, Fresh, SenderRecords
    <3>2. CASE ~IsFileTransfer(src, dst) /\ sender' = s
      BY <1>1, <3>2 DEF AbstractStream, Fresh, IsFileTransfer
    <3> QED BY <1>4, <3>1, <3>2 DEF MetadataSent
  <2>4. pdu \in Stream!MetadataPdus(Nat, SourceNames \cup TargetNames)
    BY <2>1, SamePdus
  <2>5. Stream!IsFileTransfer(src, dst) = IsFileTransfer(src, dst)
    BY DEF Stream!IsFileTransfer, IsFileTransfer, Stream!NoName, NoName
  <2>6. Stream!Open
    <3>1. s.id > AbstractStream.id
      BY <1>2, <1>3
    <3> QED BY <2>1, <2>2, <2>3, <2>4, <2>5, <3>1 DEF Stream!Open, Stream!Sending
  <2> QED BY <2>6 DEF Stream!Next
<1>5. CASE MetadataRejected(s)
  <2>1. sender'.state = "COMPLETED" /\ sender'.id = s.id /\ wire' = wire
    BY <1>2, <1>5 DEF MetadataRejected, Close, SenderRecords
  <2>2. AbstractStream' = Stream!Closed(s.id) /\ AbstractStream'.id = s.id
    BY <2>1 DEF AbstractStream, Stream!Closed
  <2> QED BY <1>2, <1>3, <2>1, <2>2 DEF Stream!Next, Stream!Abandon
<1> QED BY <1>1, <1>4, <1>5 DEF OpenTransaction

LEMMA SegmentRefines == Inv /\ SendFileData /\ SendSegment => Stream!Next
<1> SUFFICES ASSUME Inv, SendFileData, SendSegment PROVE Stream!Next
  OBVIOUS
<1> DEFINE data == AsCString(transaction_get_file_segment(sender))
           pdu == FileDataPdu(sender.id, sender.file_position, data)
<1>1. /\ sender.state = "SEND_FILE" /\ sender \in SenderRecords
      /\ ~transaction_is_file_send_complete(sender)
  BY DEF SendFileData, SendSegment, Inv, TypeOK, Consistent
<1>2. /\ SegmentLength(sender) \in Nat \ {0}
      /\ sender.file_position + SegmentLength(sender) <= sender.file_size
  BY <1>1, SegmentLengthBounds DEF SenderRecords
<1>3. data \in Seq(Word) /\ Len(data) = SegmentLength(sender) /\ sender.id \in Ids
  BY <1>1, CurrentEof, CurrentFile, SegmentType DEF SendSegment, SenderRecords
<1>4. /\ pdu \in Pdus /\ pdu \in FileDataPdus({sender.id})
      /\ pdu.segment_offset = sender.file_position /\ pdu.file_data = data
  BY <1>1, <1>3 DEF Pdus, FileDataPdu, FileDataPdus, SenderRecords
<1>5. Stream!Posts /\ Stream!Posted = pdu
  BY <1>4, Posting DEF SendSegment, Inv, TypeOK
<1>6. AbstractStream = [open |-> TRUE, id |-> sender.id, file |-> TRUE,
                        size |-> sender.file_size, sent |-> sender.file_position]
  BY <1>1 DEF AbstractStream
<1>7. sender' = [sender EXCEPT !.file_position = @ + SegmentLength(sender)]
  BY DEF SendSegment
<1>8. AbstractStream' = Stream!Sending(AbstractStream.id, TRUE, AbstractStream.size,
                                     AbstractStream.sent + Len(data))
  <2>1. /\ sender'.state = "SEND_FILE" /\ sender'.id = sender.id
        /\ sender'.file_size = sender.file_size
        /\ sender'.file_position = sender.file_position + Len(data)
    BY <1>1, <1>3, <1>7 DEF SenderRecords
  <2> QED BY <1>6, <2>1 DEF AbstractStream, Stream!Sending
<1>9. pdu \in Stream!FileDataPdus({AbstractStream.id})
  BY <1>4, <1>6, SamePdus
<1>10. Stream!SendData
  <2>1. Len(data) > 0 /\ AbstractStream.sent + Len(data) <= AbstractStream.size
    BY <1>2, <1>3, <1>6
  <2>2. AbstractStream.open /\ AbstractStream.file
        /\ pdu.segment_offset = AbstractStream.sent
    BY <1>4, <1>6
  <2> HIDE DEF data, pdu
  <2> QED BY <1>4, <1>5, <1>8, <1>9, <2>1, <2>2 DEF Stream!SendData
<1> QED BY <1>10 DEF Stream!Next

LEMMA StreamStep == Inv /\ [Next]_vars => [Stream!Next]_(Stream!streamVars)
<1> SUFFICES ASSUME Inv, [Next]_vars
             PROVE  Stream!Next \/ (wire' = wire /\ AbstractStream' = AbstractStream)
  BY DEF Stream!streamVars
<1>0. sender \in SenderRecords
  BY DEF Inv, TypeOK
<1>1. CASE NewTransaction
  BY <1>1, OpeningRefines
<1>2. ASSUME sender.state # "COMPLETED", sender' = Close(SizeRead(sender)),
             sender.state = "SEND_FILE" => transaction_is_file_send_complete(sender),
             wire' = Append(wire, Eof(sender)) \/ wire' = wire
      PROVE  Stream!Next
  <2>1. sender'.state = "COMPLETED" /\ sender'.id = sender.id
    BY <1>0, <1>2 DEF Close, SizeRead, SenderRecords
  <2>2. sender.state = "SEND_FILE" => sender.file_position = sender.file_size
    BY <1>0, <1>2 DEF transaction_is_file_send_complete, Inv, Consistent, SenderRecords
  <2> QED BY <1>2, <2>1, <2>2, CurrentEof, ClosingRefines
<1>3. CASE FinishWithoutFile
  BY <1>2, <1>3 DEF FinishWithoutFile, Inv, Consistent
<1>4. CASE SendFileData
  <2>1. sender.state = "SEND_FILE"
    BY <1>4 DEF SendFileData, Inv, Consistent
  <2>2. CASE HeldBack \/ TransportNotReady
    BY <2>2 DEF HeldBack, TransportNotReady, UnchangedOutput, AbstractStream
  <2>3. CASE SendSegment
    BY <1>4, <2>3, SegmentRefines
  <2>4. CASE SegmentFails
    <3> DEFINE moved == [sender EXCEPT !.file_position = @ + SegmentLength(sender)]
    <3>1. sender' \in {Close(sender), Close(moved)} /\ wire' = wire
      BY <2>4 DEF SegmentFails
    <3>2. sender'.state = "COMPLETED" /\ sender'.id = sender.id
      BY <1>0, <3>1 DEF Close, SenderRecords
    <3>3. AbstractStream' = Stream!Closed(sender.id) /\ AbstractStream'.id = sender.id
      BY <3>2 DEF AbstractStream, Stream!Closed
    <3>4. AbstractStream.id = sender.id /\ sender.id \in Nat
      BY <1>0 DEF AbstractStream, SenderRecords
    <3> QED BY <3>1, <3>3, <3>4 DEF Stream!Next, Stream!Abandon
  <2>5. CASE CompleteTransfer
    BY <1>2, <2>1, <2>5 DEF CompleteTransfer
  <2> QED BY <1>4, <2>2, <2>3, <2>4, <2>5 DEF SendFileData, TransportReady
<1>5. CASE Request
  <2>1. PICK id \in Ids :
          Cancel(id) \/ Suspend(id) \/ Resume(id) \/ Abandon(id) \/ DeliverPdu(id)
    BY <1>5 DEF Request
  <2>2. CASE Cancel(id)
    <3> DEFINE s == [sender EXCEPT !.condition_code = "cancel_request_received"]
    <3>1. /\ sender.state = "SEND_FILE" /\ s \in SenderRecords
          /\ s.id = sender.id /\ sender.id # 0
          /\ s.condition_code = "cancel_request_received"
          /\ IsListing(s) => s.virtual_source_file_size <= Len(listing.data)
      BY <1>0, <2>2 DEF Cancel, ToActiveSender, SenderRecords, IsListing, Inv, Consistent
    <3>2. /\ Eof(s) \in Pdus \cap EofPdus({sender.id})
          /\ Eof(s).condition_code = "cancel_request_received"
      BY <3>1, EofType
    <3>3. sender'.state = "COMPLETED" /\ sender'.id = sender.id
      BY <1>0, <2>2 DEF Cancel, Close, SizeRead, SenderRecords
    <3>4. wire' = Append(wire, Eof(s)) \/ wire' = wire
      BY <2>2 DEF Cancel
    <3> QED BY <3>1, <3>2, <3>3, <3>4, ClosingRefines
  <2>3. CASE Suspend(id) \/ Resume(id) \/ DeliverPdu(id)
    <3>1. /\ wire' = wire /\ sender'.state = sender.state /\ sender'.id = sender.id
          /\ sender'.file_size = sender.file_size
          /\ sender'.file_position = sender.file_position
      BY <1>0, <2>3 DEF Suspend, Resume, DeliverPdu, SenderRecords
    <3> QED BY <3>1 DEF AbstractStream
  <2>4. CASE Abandon(id)
    <3>1. sender'.state = "COMPLETED" /\ sender'.id = sender.id /\ wire' = wire
      BY <1>0, <2>4 DEF Abandon, Close, SenderRecords
    <3>2. AbstractStream' = Stream!Closed(sender.id) /\ AbstractStream'.id = sender.id
      BY <3>1 DEF AbstractStream, Stream!Closed
    <3>3. AbstractStream.id = sender.id /\ sender.id \in Nat
      BY <1>0 DEF AbstractStream, SenderRecords
    <3> QED BY <3>1, <3>2, <3>3 DEF Stream!Next, Stream!Abandon
  <2> QED BY <2>1, <2>2, <2>3, <2>4
<1>6. CASE LinkState
  <2>1. /\ wire' = wire /\ sender'.state = sender.state /\ sender'.id = sender.id
        /\ sender'.file_size = sender.file_size
        /\ sender'.file_position = sender.file_position
    BY <1>0, <1>6 DEF LinkState, Freeze, Thaw, UnchangedOutput, SenderRecords
  <2> QED BY <2>1 DEF AbstractStream
<1>7. CASE TransportIsReadyCallback
  BY <1>7 DEF TransportIsReadyCallback, UnchangedOutput, AbstractStream
<1>8. CASE Environment
  BY <1>8 DEF Environment, ListingFails, SourceRewritten, UnchangedOutput, AbstractStream
<1>9. CASE UNCHANGED vars
  BY <1>9 DEF vars, AbstractStream
<1> QED BY <1>1, <1>3, <1>4, <1>5, <1>6, <1>7, <1>8, <1>9 DEF Next

\* What the sender puts on the wire is a Class 1 stream, for every file, every
\* size of segment and every behaviour of user, link, transport and filestore.
THEOREM SenderImplementsClass1Stream == Spec => ImplementsClass1Stream
<1>1. Init => Stream!Init
  BY DEF Init, Close, NewSender, AbstractStream, Stream!Init, Stream!Closed
<1> QED BY <1>1, StreamStep, Invariance, PTL DEF Spec, ImplementsClass1Stream, Stream!Spec
-----------------------------------------------------------------------------
(***************************************************************************)
(* A step announces a transaction, sends a segment, ends the transaction     *)
(* with an EOF or a refused one, or says nothing.                            *)
(***************************************************************************)
EndKinds == {"EOF_SENT", "FINISHED"}

NoEndIndicated ==
  \A id \in Ids, k \in EndKinds : indications'[id][k] = indications[id][k]

Announces ==
  /\ NoEndIndicated
  /\ sender'.id = sender.id + 1 /\ sender'.id \in Ids
  /\ \/ /\ \E pdu \in Pdus : /\ pdu.kind = "MD" /\ pdu.id = sender'.id
                             /\ wire' = Append(wire, pdu)
        /\ errors' = errors
     \/ /\ wire' = wire
        /\ sender'.state = "COMPLETED"
        /\ \E type \in ErrorTypes : errors' = errors \cup {<<sender'.id, type>>}

\* A step of the transaction that the machine is working on.
Works ==
  /\ sender.state # "COMPLETED"
  /\ sender'.id = sender.id /\ sender.id \in Ids

SendsSegment ==
  /\ Works /\ NoEndIndicated
  /\ ~Held
  /\ \E pdu \in Pdus : /\ pdu.kind = "FD" /\ pdu.id = sender.id
                       /\ wire' = Append(wire, pdu)
  /\ errors' = errors

EndsWithEof ==
  /\ Works
  /\ Held => sender.state = "SEND_METADATA"
  /\ \E pdu \in Pdus : /\ pdu.kind = "EOF" /\ pdu.id = sender.id
                       /\ pdu.condition_code = "no_error"
                       /\ wire' = Append(wire, pdu)
  /\ Indicate(sender.id, EndKinds)
  /\ errors' = errors

EndsCancelled ==
  /\ Works
  /\ Indicate(sender.id, {"FINISHED"})
  /\ \/ /\ \E pdu \in Pdus : /\ pdu.kind = "EOF" /\ pdu.id = sender.id
                             /\ pdu.condition_code = "cancel_request_received"
                             /\ wire' = Append(wire, pdu)
        /\ errors' = errors
     \/ /\ wire' = wire
        /\ errors' = errors \cup {<<sender.id, "TRANSPORT_ERROR">>}

Fails ==
  /\ Works /\ NoEndIndicated
  /\ wire' = wire
  /\ \E type \in ErrorTypes :
       /\ errors' = errors \cup {<<sender.id, type>>}
       /\ type = "ASN1SCC_ERROR" =>
            /\ ~transaction_is_file_send_complete(sender)
            /\ SegmentLength(sender) > MaxFileData

Silent ==
  /\ NoEndIndicated
  /\ sender'.id = sender.id
  /\ sender'.state # "COMPLETED" => sender.state # "COMPLETED"
  /\ UNCHANGED <<wire, errors>>

-----------------------------------------------------------------------------
\* What Indicate leaves of the counters of EOF_SENT and FINISHED.
LEMMA OtherIndications ==
  ASSUME Inv, NEW id \in Ids, NEW kinds, Indicate(id, kinds), kinds \cap EndKinds = {}
  PROVE  NoEndIndicated
<1>1. EndKinds \subseteq Indications
  BY DEF EndKinds, Indications
<1> QED BY <1>1, IndicateType DEF NoEndIndicated, Inv, TypeOK

LEMMA UnchangedIndications == UNCHANGED indications => NoEndIndicated
BY DEF NoEndIndicated

LEMMA AnnouncingStep == Inv /\ NewTransaction => Announces
<1> SUFFICES ASSUME Inv, NewTransaction PROVE Announces
  OBVIOUS
<1>1. PICK s : Fresh(s) /\ OpenTransaction(s)
  BY NewTransactionOpens
<1>2. s \in SenderRecords /\ s.id = sender.id + 1 /\ s.id \in Ids
  BY <1>1, SenderAssumption
     DEF Fresh, OpenTransaction, Inv, TypeOK, Consistent, SenderRecords, Ids
<1>3. NoEndIndicated
  <2>1. Indicate(s.id, {"TRANSACTION"}) /\ {"TRANSACTION"} \cap EndKinds = {}
    BY <1>1 DEF OpenTransaction, EndKinds
  <2> QED BY <1>2, <2>1, OtherIndications
<1>4. CASE MetadataSent(s)
  <2> DEFINE pdu == MetadataPdu(s.id, s.file_size, s.source_filename, s.destination_filename)
  <2>1. pdu \in Pdus /\ pdu.kind = "MD" /\ pdu.id = s.id
    BY <1>2 DEF MetadataPdu, Pdus, MetadataPdus, SenderRecords
  <2>2. sender'.id = s.id /\ wire' = Append(wire, pdu) /\ errors' = errors
    BY <1>2, <1>4 DEF MetadataSent, SenderRecords
  <2> HIDE DEF pdu
  <2> QED BY <1>2, <1>3, <2>1, <2>2 DEF Announces
<1>5. CASE MetadataRejected(s)
  <2>1. sender'.id = s.id /\ sender'.state = "COMPLETED" /\ wire' = wire
    BY <1>2, <1>5 DEF MetadataRejected, Close, SenderRecords
  <2>2. \E type \in ErrorTypes : errors' = errors \cup {<<s.id, type>>}
    BY <1>5 DEF MetadataRejected, IssueError, ErrorTypes
  <2> QED BY <1>2, <1>3, <2>1, <2>2 DEF Announces
<1> QED BY <1>1, <1>4, <1>5 DEF OpenTransaction

\* The EOF at the end of a file, or behind a Metadata PDU without one.
LEMMA ClosingStep ==
  ASSUME Inv, EofOutcome, sender.state # "COMPLETED", sender' = Close(SizeRead(sender)),
         Held => sender.state = "SEND_METADATA"
  PROVE  EndsWithEof \/ Fails
<1>1. /\ sender \in SenderRecords /\ sender.id \in Ids
      /\ Eof(sender) \in EofPdus({sender.id}) \cap Pdus
      /\ Eof(sender).condition_code = "no_error"
  BY CurrentEof DEF Inv, TypeOK
<1>2. Works
  BY <1>1 DEF Works, Close, SizeRead, SenderRecords
<1>3. CASE /\ wire' = Append(wire, Eof(sender))
           /\ Indicate(sender.id, {"EOF_SENT", "FINISHED"})
           /\ UNCHANGED errors
  <2>1. Eof(sender).kind = "EOF" /\ Eof(sender).id = sender.id
    BY <1>1 DEF EofPdus
  <2> QED BY <1>1, <1>2, <1>3, <2>1 DEF EndsWithEof, EndKinds
<1>4. CASE IssueError(sender.id, "TRANSPORT_ERROR") /\ UNCHANGED <<wire, indications>>
  <2>1. "TRANSPORT_ERROR" \in ErrorTypes
    BY DEF ErrorTypes
  <2> QED BY <1>2, <1>4, <2>1, UnchangedIndications DEF Fails, IssueError
<1> QED BY <1>3, <1>4 DEF EofOutcome

LEMMA SegmentStep == Inv /\ SendFileData => SendsSegment \/ EndsWithEof \/ Fails \/ Silent
<1> SUFFICES ASSUME Inv, SendFileData
             PROVE  SendsSegment \/ EndsWithEof \/ Fails \/ Silent
  OBVIOUS
<1>1. /\ sender \in SenderRecords /\ sender.id \in Ids
      /\ sender.state = "SEND_FILE"
  BY CurrentEof DEF SendFileData, Inv, TypeOK, Consistent
<1>2. CASE HeldBack \/ TransportNotReady
  BY <1>2, UnchangedIndications DEF HeldBack, TransportNotReady, UnchangedOutput, Silent
<1>3. CASE SendSegment
  <2> DEFINE data == AsCString(transaction_get_file_segment(sender))
             pdu == FileDataPdu(sender.id, sender.file_position, data)
  <2>1. data \in Seq(Word)
    BY <1>1, <1>3, CurrentFile, SegmentType DEF SendSegment, SenderRecords
  <2>2. pdu \in Pdus /\ pdu.kind = "FD" /\ pdu.id = sender.id
    BY <1>1, <2>1 DEF Pdus, FileDataPdu, FileDataPdus, SenderRecords
  <2>3. sender'.id = sender.id /\ ~Held /\ wire' = Append(wire, pdu)
    BY <1>1, <1>3 DEF SendSegment, SenderRecords
  <2>4. NoEndIndicated /\ errors' = errors
    BY <1>3, UnchangedIndications DEF SendSegment
  <2> HIDE DEF pdu
  <2> QED BY <1>1, <2>2, <2>3, <2>4 DEF SendsSegment, Works
<1>4. CASE SegmentFails
  <2> DEFINE moved == [sender EXCEPT !.file_position = @ + SegmentLength(sender)]
  <2>1. sender' \in {Close(sender), Close(moved)}
    BY <1>4 DEF SegmentFails
  <2>2. Works
    BY <1>1, <2>1 DEF Works, Close, SenderRecords
  <2>3. NoEndIndicated /\ wire' = wire
    BY <1>4, UnchangedIndications DEF SegmentFails
  <2>4. \E type \in ErrorTypes :
          /\ errors' = errors \cup {<<sender.id, type>>}
          /\ type = "ASN1SCC_ERROR" => /\ ~transaction_is_file_send_complete(sender)
                                       /\ SegmentLength(sender) > MaxFileData
    BY <1>4 DEF SegmentFails, IssueError, ErrorTypes
  <2> QED BY <2>2, <2>3, <2>4 DEF Fails
<1>5. CASE CompleteTransfer
  <2>1. EofOutcome /\ ~Held /\ sender' = Close(SizeRead(sender))
    BY <1>5 DEF CompleteTransfer, EofOutcome
  <2> QED BY <1>1, <2>1, ClosingStep
<1> QED BY <1>2, <1>3, <1>4, <1>5 DEF SendFileData, TransportReady

LEMMA RequestStep == Inv /\ Request => EndsCancelled \/ Fails \/ Silent
<1> SUFFICES ASSUME Inv, Request PROVE EndsCancelled \/ Fails \/ Silent
  OBVIOUS
<1>1. PICK id \in Ids : Cancel(id) \/ Suspend(id) \/ Resume(id) \/ Abandon(id) \/ DeliverPdu(id)
  BY DEF Request
<1>2. /\ id = sender.id /\ sender.state = "SEND_FILE" /\ sender \in SenderRecords
  BY <1>1 DEF Cancel, Suspend, Resume, Abandon, DeliverPdu, ToActiveSender, Inv, TypeOK
<1>3. CASE Cancel(id)
  <2> DEFINE s == [sender EXCEPT !.condition_code = "cancel_request_received"]
  <2>1. /\ s \in SenderRecords /\ s.id = sender.id /\ sender.id # 0
        /\ s.condition_code = "cancel_request_received"
        /\ IsListing(s) => s.virtual_source_file_size <= Len(listing.data)
    BY <1>2 DEF SenderRecords, IsListing, Inv, Consistent
  <2>2. /\ Eof(s) \in Pdus /\ Eof(s).kind = "EOF" /\ Eof(s).id = sender.id
        /\ Eof(s).condition_code = "cancel_request_received"
    BY <2>1, EofType DEF EofPdus
  <2>3. sender'.id = sender.id /\ Indicate(sender.id, {"FINISHED"})
    BY <1>2, <1>3 DEF Cancel, Close, SizeRead, SenderRecords
  <2>4. \/ wire' = Append(wire, Eof(s)) /\ errors' = errors
        \/ wire' = wire /\ errors' = errors \cup {<<sender.id, "TRANSPORT_ERROR">>}
    BY <1>2, <1>3 DEF Cancel, IssueError
  <2> HIDE DEF s
  <2> QED BY <1>2, <2>2, <2>3, <2>4 DEF EndsCancelled, Works
<1>4. CASE Suspend(id) \/ Resume(id) \/ Abandon(id)
  <2>1. \/ UNCHANGED indications
        \/ \E kind \in {"SUSPENDED", "RESUMED", "ABANDONED"} : Indicate(id, {kind})
    BY <1>4 DEF Suspend, Resume, Abandon
  <2>2. \A kind \in {"SUSPENDED", "RESUMED", "ABANDONED"} : {kind} \cap EndKinds = {}
    BY DEF EndKinds
  <2>3. NoEndIndicated
    BY <2>1, <2>2, OtherIndications, UnchangedIndications
  <2>4. sender'.id = sender.id /\ UNCHANGED <<wire, errors>>
    BY <1>2, <1>4 DEF Suspend, Resume, Abandon, Close, SenderRecords
  <2> QED BY <1>2, <2>3, <2>4 DEF Silent
<1>5. CASE DeliverPdu(id)
  <2>1. NoEndIndicated /\ wire' = wire /\ sender' = sender
    BY <1>5, UnchangedIndications DEF DeliverPdu
  <2>2. errors' = errors \cup {<<sender.id, "UNSUPPORTED_ACTION">>}
    BY <1>2, <1>5 DEF DeliverPdu, IssueError
  <2>3. "UNSUPPORTED_ACTION" \in ErrorTypes /\ "UNSUPPORTED_ACTION" # "ASN1SCC_ERROR"
    BY DEF ErrorTypes
  <2> QED BY <1>2, <2>1, <2>2, <2>3 DEF Fails, Works
<1> QED BY <1>1, <1>3, <1>4, <1>5

LEMMA StepOutput ==
  ASSUME Inv, [Next]_vars
  PROVE  Announces \/ SendsSegment \/ EndsWithEof \/ EndsCancelled \/ Fails \/ Silent
<1>1. CASE FinishWithoutFile
  <2>1. /\ EofOutcome /\ sender' = Close(SizeRead(sender))
        /\ sender.state = "SEND_METADATA"
    BY <1>1 DEF FinishWithoutFile, EofOutcome, Inv, Consistent
  <2> QED BY <2>1, ClosingStep
<1>2. CASE LinkState
  <2>1. sender'.id = sender.id /\ sender'.state = sender.state
    BY <1>2 DEF LinkState, Freeze, Thaw, Inv, TypeOK, SenderRecords
  <2>2. UNCHANGED <<wire, indications, errors>>
    BY <1>2 DEF LinkState, Freeze, Thaw, UnchangedOutput
  <2> QED BY <2>1, <2>2, UnchangedIndications DEF Silent
<1>3. CASE TransportIsReadyCallback \/ Environment \/ UNCHANGED vars
  <2>1. sender' = sender /\ UNCHANGED <<wire, indications, errors>>
    BY <1>3 DEF TransportIsReadyCallback, Environment, ListingFails, SourceRewritten,
                UnchangedOutput, vars
  <2> QED BY <2>1, UnchangedIndications DEF Silent
<1> QED BY <1>1, <1>2, <1>3, AnnouncingStep, SegmentStep, RequestStep DEF Next

-----------------------------------------------------------------------------
(***************************************************************************)
(* Quiet while held.                                                        *)
(***************************************************************************)
\* A transaction without a file is held by nobody: it is over before anybody can.
Unheld == sender.state = "SEND_METADATA" => ~Held

LEMMA UnheldStep == Inv /\ Unheld /\ [Next]_vars => Unheld'
<1> SUFFICES ASSUME Inv, Unheld, [Next]_vars, sender'.state = "SEND_METADATA" PROVE ~Held'
  BY DEF Unheld
<1>0. sender \in SenderRecords
  BY DEF Inv, TypeOK
<1>1. CASE NewTransaction
  <2>1. PICK s : Fresh(s) /\ OpenTransaction(s)
    BY <1>1, NewTransactionOpens
  <2>2. CASE MetadataSent(s)
    BY <2>1, <2>2 DEF MetadataSent, Fresh, Held, SenderRecords
  <2>3. CASE MetadataRejected(s)
    BY <2>1, <2>3 DEF MetadataRejected, Fresh, Close, SenderRecords
  <2> QED BY <2>1, <2>2, <2>3 DEF OpenTransaction
<1>2. CASE FinishWithoutFile
  BY <1>0, <1>2 DEF FinishWithoutFile, Close, SizeRead, SenderRecords
<1>3. CASE SendFileData
  <2>1. sender.state = "SEND_FILE"
    BY <1>3 DEF SendFileData, Inv, Consistent
  <2> QED BY <1>0, <1>3, <2>1 DEF SendFileData, HeldBack, TransportNotReady, TransportReady,
               SendSegment, SegmentFails, CompleteTransfer, Close, SizeRead, SenderRecords
<1>4. CASE Request
  BY <1>0, <1>4 DEF Request, Cancel, Suspend, Resume, Abandon, DeliverPdu, ToActiveSender,
                    Close, SizeRead, SenderRecords
<1>5. CASE LinkState
  BY <1>0, <1>5 DEF LinkState, Freeze, Thaw, ToActiveSender, SenderRecords
<1>6. CASE TransportIsReadyCallback \/ Environment \/ UNCHANGED vars
  BY <1>6 DEF TransportIsReadyCallback, Environment, ListingFails, SourceRewritten, vars,
              Unheld, Held
<1> QED BY <1>1, <1>2, <1>3, <1>4, <1>5, <1>6 DEF Next

\* The last PDU on the wire is the one appended.
LEMMA LastOnWire ==
  ASSUME Inv, NEW pdu \in Pdus, wire' = Append(wire, pdu)
  PROVE  wire'[Len(wire')] = pdu
BY AppendProperties DEF Inv, TypeOK

LEMMA QuietStep ==
  ASSUME Inv, Unheld, [Next]_vars, Held, wire' # wire
  PROVE  LET pdu == wire'[Len(wire')]
         IN  \/ pdu.kind = "EOF" /\ pdu.condition_code = "cancel_request_received"
             \/ pdu.kind = "MD" /\ pdu.id # sender.id
<1> DEFINE Goal == LET pdu == wire'[Len(wire')]
                   IN  \/ pdu.kind = "EOF" /\ pdu.condition_code = "cancel_request_received"
                       \/ pdu.kind = "MD" /\ pdu.id # sender.id
<1>1. CASE Announces
  <2>1. PICK pdu \in Pdus : pdu.kind = "MD" /\ pdu.id = sender'.id /\ wire' = Append(wire, pdu)
    BY <1>1 DEF Announces
  <2>2. sender'.id # sender.id
    BY <1>1 DEF Announces, Inv, TypeOK, SenderRecords
  <2> QED BY <2>1, <2>2, LastOnWire
<1>2. CASE EndsCancelled
  <2>1. PICK pdu \in Pdus : /\ pdu.kind = "EOF"
                            /\ pdu.condition_code = "cancel_request_received"
                            /\ wire' = Append(wire, pdu)
    BY <1>2 DEF EndsCancelled
  <2> QED BY <2>1, LastOnWire
<1>3. ~SendsSegment /\ ~EndsWithEof /\ ~Fails /\ ~Silent
  BY DEF Unheld, SendsSegment, EndsWithEof, Fails, Silent
<1> QED BY <1>1, <1>2, <1>3, StepOutput

\* While the transaction is suspended or frozen nothing leaves the sender but the
\* EOF of its cancellation, or the Metadata PDU of another put.
THEOREM HeldSenderIsQuiet == Spec => QuietWhileHeld
<1>1. Init => Unheld
  BY DEF Init, Close, NewSender, Unheld
<1>2. ASSUME Inv, Unheld, [Next]_vars
      PROVE  [(sender.is_suspended \/ sender.is_frozen) /\ wire' # wire =>
               LET pdu == wire'[Len(wire')]
               IN  \/ pdu.kind = "EOF" /\ pdu.condition_code = "cancel_request_received"
                   \/ pdu.kind = "MD" /\ pdu.id # sender.id]_vars
  BY <1>2, QuietStep DEF Held
<1> QED BY <1>1, <1>2, UnheldStep, Invariance, PTL DEF Spec, QuietWhileHeld

-----------------------------------------------------------------------------
(***************************************************************************)
(* The segments that are cut from a file can be encoded.                    *)
(***************************************************************************)
\* The largest segment fills the buffer, and FileData takes no more than
\* MaxFileData: they agree when that is a multiple of the alignment, as 4096 is.
WholeBuffers == MaxFileData % CFDP_ALIGNMENT_SIZE = 0

LEMMA BufferIsFileData == WholeBuffers => FILE_SEGMENT_BUFFER_SIZE = MaxFileData
<1> SUFFICES ASSUME WholeBuffers PROVE FILE_SEGMENT_BUFFER_SIZE = MaxFileData
  OBVIOUS
<1> DEFINE a == CFDP_ALIGNMENT_SIZE
           q == MaxFileData \div a
<1>1. MaxFileData \in Nat \ {0} /\ a \in Nat \ {0}
  BY SenderAssumption
<1>2. \A m \in Nat, n \in Nat \ {0} :
        /\ m \div n \in Nat
        /\ m = n * (m \div n) + (m % n)
  BY SMT
<1>3. q \in Nat /\ MaxFileData = a * q
  BY <1>1, <1>2 DEF WholeBuffers
<1>4. (MaxFileData + a - 1) \div a = q
  <2>1. \A n \in Nat \ {0}, k \in Nat : (n * k + n - 1) \div n = k
    BY SMT
  <2> QED BY <1>1, <1>3, <2>1
<1>5. \A m \in Nat, n \in Nat : m * n = n * m
  BY SMT
<1> QED BY <1>1, <1>3, <1>4, <1>5 DEF FILE_SEGMENT_BUFFER_SIZE, CFDP_ALIGN

\* Neither the wire nor the errors know of a transaction that has not been opened,
\* and the encoder has not failed the one that is open.
EncodingInv ==
  /\ \A i \in DOMAIN wire : wire[i].id <= sender.id
  /\ \A error \in errors : error[1] <= sender.id
  /\ sender.state # "COMPLETED" => <<sender.id, "ASN1SCC_ERROR">> \notin errors
  /\ SegmentsAreEncodable

\* What is on the wire after a step was there before, or has been appended.
LEMMA OnWire ==
  ASSUME Inv, NEW pdu \in Pdus, wire' = Append(wire, pdu), NEW i \in DOMAIN wire'
  PROVE  \/ i \in DOMAIN wire /\ wire'[i] = wire[i]
         \/ wire'[i] = pdu
BY AppendProperties DEF Inv, TypeOK

LEMMA EncodingStep == WholeBuffers /\ Inv /\ EncodingInv /\ [Next]_vars => EncodingInv'
<1> SUFFICES ASSUME WholeBuffers, Inv, EncodingInv, [Next]_vars PROVE EncodingInv'
  OBVIOUS
<1>0. /\ sender.id \in Nat
      /\ \A i \in DOMAIN wire : wire[i].id \in Nat
      /\ \A error \in errors : error[1] \in Nat
  <2>1. sender.id \in Nat /\ \A id \in Ids : id \in Nat
    BY SenderAssumption DEF Inv, TypeOK, SenderRecords, Ids
  <2>2. \A pdu \in Pdus : pdu.id \in Ids
    BY DEF Pdus, MetadataPdus, FileDataPdus, EofPdus
  <2>3. \A i \in DOMAIN wire : wire[i] \in Pdus
    BY ElementOfSeq, LenProperties DEF Inv, TypeOK
  <2> QED BY <2>1, <2>2, <2>3 DEF Inv, TypeOK
<1> USE DEF EncodingInv, SegmentsAreEncodable
\* A PDU of the transaction that is open is added, and no error.
<1>1. ASSUME NEW pdu \in Pdus, wire' = Append(wire, pdu), pdu.id = sender'.id,
             errors' = errors, sender'.id \in Nat, sender'.id >= sender.id,
             <<sender'.id, "ASN1SCC_ERROR">> \notin errors
      PROVE  EncodingInv'
  <2>1. \A i \in DOMAIN wire' : \/ i \in DOMAIN wire /\ wire'[i] = wire[i]
                                \/ wire'[i] = pdu
    BY <1>1, OnWire
  <2>2. \A i \in DOMAIN wire' : /\ wire'[i].id <= sender'.id
                                /\ <<wire'[i].id, "ASN1SCC_ERROR">> \notin errors'
    <3> TAKE i \in DOMAIN wire'
    <3>1. CASE i \in DOMAIN wire /\ wire'[i] = wire[i]
      BY <1>0, <1>1, <3>1
    <3>2. CASE wire'[i] = pdu
      BY <1>0, <1>1, <3>2
    <3> QED BY <2>1, <3>1, <3>2
  <2>3. \A error \in errors' : error[1] <= sender'.id
    BY <1>0, <1>1
  <2> QED BY <1>1, <2>2, <2>3
\* An error of the transaction that is open is added, and no PDU.
<1>2. ASSUME NEW type, errors' = errors \cup {<<sender'.id, type>>}, wire' = wire,
             sender'.id \in Nat, sender'.id >= sender.id,
             \/ sender'.id # sender.id /\ sender'.state = "COMPLETED"
             \/ /\ type # "ASN1SCC_ERROR"
                /\ sender'.state # "COMPLETED" => sender.state # "COMPLETED"
                /\ sender'.id = sender.id
      PROVE  EncodingInv'
  <2>1. \A i \in DOMAIN wire : wire[i].id <= sender'.id
    BY <1>0, <1>2
  <2>2. \A error \in errors' : error[1] <= sender'.id
    BY <1>0, <1>2
  <2>3. CASE sender'.id # sender.id /\ sender'.state = "COMPLETED"
    <3>1. \A i \in DOMAIN wire : wire[i].id # sender'.id
      BY <1>0, <1>2, <2>3
    <3> QED BY <1>2, <2>1, <2>2, <2>3, <3>1
  <2>4. CASE /\ type # "ASN1SCC_ERROR"
             /\ sender'.state # "COMPLETED" => sender.state # "COMPLETED"
             /\ sender'.id = sender.id
    BY <1>2, <2>1, <2>2, <2>4
  <2> QED BY <1>2, <2>3, <2>4
<1>3. CASE Announces
  <2>1. sender'.id = sender.id + 1 /\ sender'.id \in Nat
    BY <1>0, <1>3 DEF Announces
  <2>2. sender'.id > sender.id /\ <<sender'.id, "ASN1SCC_ERROR">> \notin errors
    BY <1>0, <2>1
  <2>3. CASE \E pdu \in Pdus : /\ pdu.kind = "MD" /\ pdu.id = sender'.id
                               /\ wire' = Append(wire, pdu)
    BY <1>0, <1>1, <1>3, <2>1, <2>2, <2>3 DEF Announces
  <2>4. CASE /\ wire' = wire /\ sender'.state = "COMPLETED"
             /\ \E type \in ErrorTypes : errors' = errors \cup {<<sender'.id, type>>}
    BY <1>0, <1>2, <2>1, <2>2, <2>4
  <2>5. \/ /\ \E pdu \in Pdus : /\ pdu.kind = "MD" /\ pdu.id = sender'.id
                                /\ wire' = Append(wire, pdu)
           /\ errors' = errors
        \/ /\ wire' = wire
           /\ sender'.state = "COMPLETED"
           /\ \E type \in ErrorTypes : errors' = errors \cup {<<sender'.id, type>>}
    BY <1>3 DEF Announces
  <2> QED BY <2>3, <2>4, <2>5
<1>4. CASE SendsSegment \/ EndsWithEof
  <2>1. PICK pdu \in Pdus : pdu.id = sender.id /\ wire' = Append(wire, pdu)
    BY <1>4 DEF SendsSegment, EndsWithEof
  <2>2. sender.state # "COMPLETED" /\ sender'.id = sender.id /\ errors' = errors
    BY <1>4 DEF SendsSegment, EndsWithEof, Works
  <2> QED BY <1>0, <1>1, <2>1, <2>2, SMTT(30)
<1>5. CASE EndsCancelled
  <2>1. sender.state # "COMPLETED" /\ sender'.id = sender.id
    BY <1>5 DEF EndsCancelled, Works
  <2>2. CASE errors' = errors
    <3>1. \/ wire' = wire
          \/ \E pdu \in Pdus : pdu.id = sender.id /\ wire' = Append(wire, pdu)
      BY <1>5 DEF EndsCancelled
    <3>2. CASE wire' = wire
      BY <2>1, <2>2, <3>2
    <3>3. CASE \E pdu \in Pdus : pdu.id = sender.id /\ wire' = Append(wire, pdu)
      <4>1. PICK pdu \in Pdus : pdu.id = sender.id /\ wire' = Append(wire, pdu)
        BY <3>3
      <4> QED BY <1>0, <1>1, <2>1, <2>2, <4>1
    <3> QED BY <3>1, <3>2, <3>3
  <2>3. CASE wire' = wire /\ errors' = errors \cup {<<sender.id, "TRANSPORT_ERROR">>}
    BY <1>0, <1>2, <2>1, <2>3
  <2> QED BY <1>5, <2>2, <2>3 DEF EndsCancelled
<1>6. CASE Fails
  <2>1. sender.state # "COMPLETED" /\ sender'.id = sender.id /\ wire' = wire
    BY <1>6 DEF Fails, Works
  <2>2. PICK type \in ErrorTypes :
          /\ errors' = errors \cup {<<sender.id, type>>}
          /\ type = "ASN1SCC_ERROR" =>
               /\ ~transaction_is_file_send_complete(sender)
               /\ SegmentLength(sender) > MaxFileData
    BY <1>6 DEF Fails
  <2>3. ~transaction_is_file_send_complete(sender) => SegmentLength(sender) <= MaxFileData
    <3>1. FILE_SEGMENT_BUFFER_SIZE = MaxFileData /\ MaxFileData \in Nat
      BY BufferIsFileData, SenderAssumption
    <3>2. sender.file_size \in Nat /\ sender.file_position \in Nat
      BY DEF Inv, TypeOK, SenderRecords
    <3> QED BY <3>1, <3>2 DEF SegmentLength
  <2>4. ~transaction_is_file_send_complete(sender) => SegmentLength(sender) \in Nat
    BY SegmentLengthBounds DEF Inv, TypeOK, SenderRecords
  <2>5. type # "ASN1SCC_ERROR"
    BY <2>2, <2>3, <2>4, SenderAssumption
  <2> QED BY <1>0, <1>2, <2>1, <2>2, <2>5
<1>7. CASE Silent
  BY <1>7 DEF Silent
<1> QED BY <1>3, <1>4, <1>5, <1>6, <1>7, StepOutput

\* With the sizes of the code no transfer is broken off by the encoder once its
\* Metadata PDU is sent: sender_machine_send_file_data, constants.h.
THEOREM SegmentsCanBeEncoded == WholeBuffers /\ Spec => []SegmentsAreEncodable
<1>1. Init => EncodingInv
  <2>1. Init => sender.state = "COMPLETED" /\ wire = <<>> /\ errors = {}
    BY DEF Init, Close, NewSender
  <2> QED BY <2>1 DEF EncodingInv, SegmentsAreEncodable
<1>2. EncodingInv => SegmentsAreEncodable
  BY DEF EncodingInv
<1>3. CASE WholeBuffers
  <2>1. Inv /\ EncodingInv /\ [Next]_vars => EncodingInv'
    BY <1>3, EncodingStep
  <2> QED BY <1>1, <1>2, <2>1, Invariance, PTL DEF Spec
<1> QED BY <1>3

-----------------------------------------------------------------------------
(***************************************************************************)
(* The nesting of E1_SEND_FILE_DATA.                                        *)
(***************************************************************************)
\* Every activation but the first follows a segment: a whole one, or the last.
Nesting ==
  /\ call # "send_file_data" => depth = 0
  /\ call = "send_file_data" =>
       /\ depth \in Nat \ {0}
       /\ \/ (depth - 1) * FILE_SEGMENT_BUFFER_SIZE <= sender.file_position
          \/ /\ sender.file_position = sender.file_size
             /\ (depth - 1) * FILE_SEGMENT_BUFFER_SIZE
                  <= sender.file_size + FILE_SEGMENT_BUFFER_SIZE - 1

\* The loop is started anew by whoever starts it, or has come to its end.
StartedOrEnded ==
  \/ call' = "send_file_data" /\ depth' = 1
  \/ call' # "send_file_data" /\ depth' = 0

LEMMA StartedOrEndedNests == Inv' /\ StartedOrEnded => Nesting'
<1> SUFFICES ASSUME Inv', StartedOrEnded PROVE Nesting'
  OBVIOUS
<1>1. (sender.file_position \in Nat)'
  BY DEF Inv, TypeOK, SenderRecords
<1>2. FILE_SEGMENT_BUFFER_SIZE \in Nat
  BY SegmentBufferPositive
<1>3. (1 - 1) * FILE_SEGMENT_BUFFER_SIZE = 0
  BY <1>2
<1> QED BY <1>1, <1>3 DEF StartedOrEnded, Nesting

\* One segment more.
LEMMA SegmentNests == Inv /\ Nesting /\ SendFileData /\ SendSegment => Nesting'
<1> SUFFICES ASSUME Inv, Nesting, SendFileData, SendSegment PROVE Nesting'
  OBVIOUS
<1> DEFINE b == FILE_SEGMENT_BUFFER_SIZE
           position == sender.file_position
           size == sender.file_size
<1>1. b \in Nat \ {0} /\ position \in Nat /\ size \in Nat /\ position < size
  BY SegmentBufferPositive
     DEF SendSegment, transaction_is_file_send_complete, Inv, TypeOK, SenderRecords
<1>2. depth \in Nat \ {0} /\ (depth - 1) * b <= position
  BY <1>1 DEF SendFileData, Nesting
<1>3. /\ call' = "send_file_data" /\ depth' = depth + 1
      /\ sender'.file_position = position + SegmentLength(sender)
      /\ sender'.file_size = size
  BY DEF SendFileData, SendSegment, Inv, TypeOK, SenderRecords
<1>4. (depth' - 1) * b = (depth - 1) * b + b
  <2>1. \A k \in Nat \ {0}, n \in Nat : k * n = (k - 1) * n + n
    BY SMT
  <2>2. depth' - 1 = depth
    BY <1>2, <1>3
  <2> QED BY <1>1, <1>2, <2>1, <2>2
<1>5. (depth - 1) * b \in Nat
  <2>1. \A k \in Nat, n \in Nat : k * n \in Nat
    BY SMT
  <2> QED BY <1>1, <1>2, <2>1
<1>6. CASE SegmentLength(sender) = b
  <2>1. (depth' - 1) * b <= sender'.file_position
    BY <1>1, <1>2, <1>3, <1>4, <1>5, <1>6
  <2> QED BY <1>2, <1>3, <2>1 DEF Nesting
<1>7. CASE SegmentLength(sender) = size - position
  <2>1. /\ sender'.file_position = sender'.file_size
        /\ (depth' - 1) * b <= sender'.file_size + b - 1
    BY <1>1, <1>2, <1>3, <1>4, <1>5, <1>7
  <2> QED BY <1>2, <1>3, <2>1 DEF Nesting
<1> QED BY <1>6, <1>7 DEF SegmentLength

LEMMA NestingStep == Inv /\ Nesting /\ [Next]_vars => Nesting'
<1> SUFFICES ASSUME Inv, Nesting, [Next]_vars PROVE Nesting'
  OBVIOUS
<1>0. Inv' /\ sender \in SenderRecords
  BY NextInv DEF Inv, TypeOK
<1>1. CASE NewTransaction
  <2>1. PICK s : OpenTransaction(s)
    BY <1>1, NewTransactionOpens
  <2>2. StartedOrEnded
    BY <2>1 DEF OpenTransaction, MetadataSent, MetadataRejected, StartSending, Return,
                StartedOrEnded
  <2> QED BY <1>0, <2>2, StartedOrEndedNests
<1>2. CASE FinishWithoutFile
  BY <1>0, <1>2, StartedOrEndedNests DEF FinishWithoutFile, Return, StartedOrEnded
<1>3. CASE SendFileData
  <2>1. CASE SendSegment
    BY <1>3, <2>1, SegmentNests
  <2>2. CASE HeldBack \/ TransportNotReady \/ SegmentFails \/ CompleteTransfer
    BY <1>0, <2>2, StartedOrEndedNests
       DEF HeldBack, TransportNotReady, SegmentFails, CompleteTransfer, Return, StartedOrEnded
  <2> QED BY <1>3, <2>1, <2>2 DEF SendFileData, TransportReady
<1>4. ASSUME call = "idle",
             \/ StartSending
             \/ UNCHANGED <<call, depth>>
      PROVE  Nesting'
  <2>1. StartedOrEnded
    BY <1>4 DEF Nesting, StartSending, StartedOrEnded
  <2> QED BY <1>0, <2>1, StartedOrEndedNests
<1>5. CASE Request \/ LinkState \/ TransportIsReadyCallback
  <2>1. call = "idle" /\ (StartSending \/ UNCHANGED <<call, depth>>)
    BY <1>5 DEF Request, Cancel, Suspend, Resume, Abandon, DeliverPdu, LinkState, Freeze, Thaw,
                TransportIsReadyCallback, ToActiveSender
  <2> QED BY <1>4, <2>1
<1>6. CASE Environment \/ UNCHANGED vars
  BY <1>6 DEF Environment, ListingFails, SourceRewritten, vars, Nesting
<1> QED BY <1>1, <1>2, <1>3, <1>5, <1>6 DEF Next

\* What fits into a whole number of buffers is bounded by that number.
LEMMA Quotient ==
  ASSUME NEW k \in Nat, NEW n \in Nat \ {0}, NEW m \in Nat, k * n <= m
  PROVE  k <= m \div n
<1> DEFINE q == m \div n
<1>1. q \in Nat /\ m < (q + 1) * n
  BY SMT
<1>2. SUFFICES ASSUME k >= q + 1 PROVE FALSE
  BY <1>1
<1>3. k * n >= (q + 1) * n
  <2>1. \A a \in Nat, b \in Nat, c \in Nat : a >= b => a * c >= b * c
    BY SMT
  <2> QED BY <1>1, <1>2, <2>1
<1>4. (q + 1) * n \in Nat /\ k * n \in Nat
  <2>1. \A a \in Nat, b \in Nat : a * b \in Nat
    BY SMT
  <2> QED BY <1>1, <2>1
<1> QED BY <1>1, <1>3, <1>4

\* The C stack holds at most one activation of E1 for each segment, and one more.
THEOREM RecursionIsBounded == Spec => []RecursionBounded
<1>1. Init => Nesting
  BY DEF Init, Nesting
<1>2. Inv /\ Nesting => RecursionBounded
  <2> SUFFICES ASSUME Inv, Nesting PROVE RecursionBounded
    OBVIOUS
  <2> DEFINE b == FILE_SEGMENT_BUFFER_SIZE
             m == sender.file_size + b - 1
  <2>1. b \in Nat \ {0} /\ m \in Nat /\ depth \in Nat /\ m \div b \in Nat
    <3>1. b \in Nat \ {0} /\ m \in Nat /\ depth \in Nat
      BY SegmentBufferPositive DEF Inv, TypeOK, SenderRecords
    <3> QED BY <3>1
  <2>2. CASE call # "send_file_data"
    BY <2>1, <2>2 DEF Nesting, RecursionBounded
  <2>3. CASE call = "send_file_data"
    <3>1. /\ sender.file_position \in Nat /\ sender.file_size \in Nat
          /\ sender.file_position <= sender.file_size
      BY <2>3 DEF Inv, TypeOK, Consistent, SenderRecords
    <3>2. depth - 1 \in Nat /\ (depth - 1) * b <= m
      <4>1. depth \in Nat \ {0}
        BY <2>3 DEF Nesting
      <4>2. (depth - 1) * b \in Nat
        <5>1. \A k \in Nat, n \in Nat : k * n \in Nat
          BY SMT
        <5> QED BY <2>1, <4>1, <5>1
      <4> QED BY <2>1, <2>3, <3>1, <4>1, <4>2 DEF Nesting
    <3>3. depth - 1 <= m \div b
      BY <2>1, <3>2, Quotient
    <3> QED BY <2>1, <3>2, <3>3 DEF RecursionBounded
  <2> QED BY <2>2, <2>3
<1> QED BY <1>1, <1>2, NestingStep, Invariance, PTL DEF Spec

-----------------------------------------------------------------------------
(***************************************************************************)
(* What the user is told of the EOFs on the wire.                           *)
(***************************************************************************)
IsEof(pdu, id, code) == pdu.kind = "EOF" /\ pdu.id = id /\ pdu.condition_code = code

LEMMA EofsAreFinite ==
  ASSUME Inv, NEW id, NEW code
  PROVE  /\ IsFiniteSet(EofsOnWire(id, code))
         /\ Cardinality(EofsOnWire(id, code)) \in Nat
<1>1. EofsOnWire(id, code) \in SUBSET (1 .. Len(wire)) /\ Len(wire) \in Nat
  BY LenProperties DEF EofsOnWire, Inv, TypeOK
<1>2. IsFiniteSet(1 .. Len(wire))
  <2>1. 1 \in Int /\ Len(wire) \in Int
    BY <1>1
  <2> QED BY <2>1, FS_Interval
<1>3. IsFiniteSet(EofsOnWire(id, code))
  BY <1>1, <1>2, FS_Subset
<1> QED BY <1>3, FS_CardinalityType

\* The number of EOFs grows by the one that is appended.
LEMMA EofsGrow ==
  ASSUME Inv, NEW pdu \in Pdus, wire' = Append(wire, pdu), NEW id, NEW code
  PROVE  /\ Cardinality(EofsOnWire(id, code)) \in Nat
         /\ Cardinality(EofsOnWire(id, code))'
              = Cardinality(EofsOnWire(id, code)) + (IF IsEof(pdu, id, code) THEN 1 ELSE 0)
<1> DEFINE n == Len(wire)
           before == EofsOnWire(id, code)
           after == EofsOnWire(id, code)'
<1>1. /\ n \in Nat /\ DOMAIN wire = 1 .. n /\ DOMAIN wire' = 1 .. n + 1
      /\ \A i \in 1 .. n : wire'[i] = wire[i]
      /\ wire'[n + 1] = pdu
  BY AppendProperties, LenProperties DEF Inv, TypeOK
<1>2. before \subseteq 1 .. n /\ n + 1 \notin before
  BY <1>1 DEF EofsOnWire
<1>3. IsFiniteSet(before)
  BY EofsAreFinite
<1>4. Cardinality(before) \in Nat
  BY EofsAreFinite
<1>5. CASE IsEof(pdu, id, code)
  <2>1. after = before \cup {n + 1}
    BY <1>1, <1>5 DEF EofsOnWire, IsEof
  <2>2. Cardinality(before \cup {n + 1}) = Cardinality(before) + 1
    BY <1>2, <1>3, FS_AddElement
  <2> QED BY <1>4, <1>5, <2>1, <2>2
<1>6. CASE ~IsEof(pdu, id, code)
  <2>1. after = before
    BY <1>1, <1>6 DEF EofsOnWire, IsEof
  <2> QED BY <1>4, <1>6, <2>1
<1> QED BY <1>5, <1>6

\* IndicationsMatchWire of one transaction, in numbers.
Matches(completed, cancelled, sent, finished, failed) ==
  /\ sent = completed
  /\ finished >= completed + cancelled
  /\ finished > completed + cancelled => failed

Completed(id) == Cardinality(EofsOnWire(id, "no_error"))
Cancelled(id) == Cardinality(EofsOnWire(id, "cancel_request_received"))
Failed(id) == <<id, "TRANSPORT_ERROR">> \in errors

LEMMA MatchesWire ==
  IndicationsMatchWire <=>
    \A id \in Ids : Matches(Completed(id), Cancelled(id), indications[id]["EOF_SENT"],
                            indications[id]["FINISHED"], Failed(id))
BY DEF IndicationsMatchWire, Matches, Completed, Cancelled, Failed

\* The same numbers again, or both greater by one.
LEMMA MatchingStep ==
  ASSUME Inv, IndicationsMatchWire, errors \subseteq errors', NEW id \in Ids,
         NEW completed \in {0, 1}, NEW cancelled \in {0, 1}, NEW refused \in {0, 1},
         Completed(id)' = Completed(id) + completed,
         Cancelled(id)' = Cancelled(id) + cancelled,
         indications'[id]["EOF_SENT"] = indications[id]["EOF_SENT"] + completed,
         indications'[id]["FINISHED"]
           = indications[id]["FINISHED"] + completed + cancelled + refused,
         refused = 1 => Failed(id)'
  PROVE  Matches(Completed(id)', Cancelled(id)', indications'[id]["EOF_SENT"],
                 indications'[id]["FINISHED"], Failed(id)')
<1>1. Completed(id) \in Nat /\ Cancelled(id) \in Nat
  BY EofsAreFinite DEF Completed, Cancelled
<1>2. indications[id]["EOF_SENT"] \in Nat /\ indications[id]["FINISHED"] \in Nat
  BY DEF Inv, TypeOK, Indications
<1>3. Failed(id) => Failed(id)'
  BY DEF Failed
<1>4. Matches(Completed(id), Cancelled(id), indications[id]["EOF_SENT"],
              indications[id]["FINISHED"], Failed(id))
  BY MatchesWire
<1> QED BY <1>1, <1>2, <1>3, <1>4 DEF Matches

LEMMA IndicationsStep == Inv /\ IndicationsMatchWire /\ [Next]_vars => IndicationsMatchWire'
<1> SUFFICES ASSUME Inv, IndicationsMatchWire, [Next]_vars, NEW id \in Ids
             PROVE  Matches(Completed(id)', Cancelled(id)', indications'[id]["EOF_SENT"],
                            indications'[id]["FINISHED"], Failed(id)')
  BY DEF IndicationsMatchWire, Matches, Completed, Cancelled, Failed
<1> DEFINE Goal == Matches(Completed(id)', Cancelled(id)', indications'[id]["EOF_SENT"],
                           indications'[id]["FINISHED"], Failed(id)')
<1>0. /\ errors \subseteq errors'
      /\ indications \in [Ids -> [Indications -> Nat]]
      /\ {"EOF_SENT", "FINISHED"} \subseteq Indications
      /\ Completed(id) \in Nat /\ Cancelled(id) \in Nat
      /\ indications[id]["EOF_SENT"] \in Nat /\ indications[id]["FINISHED"] \in Nat
  BY StepEffects, EofsAreFinite DEF Inv, TypeOK, Indications, Completed, Cancelled
\* No EOF is added and none is indicated.
<1>1. ASSUME NoEndIndicated, Completed(id)' = Completed(id), Cancelled(id)' = Cancelled(id)
      PROVE  Goal
  <2>1. /\ indications'[id]["EOF_SENT"] = indications[id]["EOF_SENT"]
        /\ indications'[id]["FINISHED"] = indications[id]["FINISHED"]
    BY <1>1 DEF NoEndIndicated, EndKinds
  <2>2. /\ Completed(id)' = Completed(id) + 0 /\ Cancelled(id)' = Cancelled(id) + 0
        /\ indications'[id]["EOF_SENT"] = indications[id]["EOF_SENT"] + 0
        /\ indications'[id]["FINISHED"] = indications[id]["FINISHED"] + 0 + 0 + 0
    BY <1>0, <1>1, <2>1
  <2> QED BY <1>0, <2>2, MatchingStep
<1>2. wire' = wire => Completed(id)' = Completed(id) /\ Cancelled(id)' = Cancelled(id)
  BY DEF Completed, Cancelled, EofsOnWire
<1>3. ASSUME NEW pdu \in Pdus, wire' = Append(wire, pdu)
      PROVE  /\ Completed(id)' = Completed(id) + (IF IsEof(pdu, id, "no_error") THEN 1 ELSE 0)
             /\ Cancelled(id)' = Cancelled(id) +
                  (IF IsEof(pdu, id, "cancel_request_received") THEN 1 ELSE 0)
  BY <1>3, EofsGrow DEF Completed, Cancelled
<1>4. CASE Announces \/ SendsSegment \/ Fails \/ Silent
  <2>1. /\ NoEndIndicated
        /\ \/ wire' = wire
           \/ \E pdu \in Pdus : pdu.kind \in {"MD", "FD"} /\ wire' = Append(wire, pdu)
    BY <1>4 DEF Announces, SendsSegment, Fails, Silent
  <2>2. CASE wire' = wire
    BY <1>1, <1>2, <2>1, <2>2
  <2>3. CASE \E pdu \in Pdus : pdu.kind \in {"MD", "FD"} /\ wire' = Append(wire, pdu)
    <3>1. PICK pdu \in Pdus : pdu.kind \in {"MD", "FD"} /\ wire' = Append(wire, pdu)
      BY <2>3
    <3>2. ~IsEof(pdu, id, "no_error") /\ ~IsEof(pdu, id, "cancel_request_received")
      BY <3>1 DEF IsEof
    <3>3. Completed(id)' = Completed(id) /\ Cancelled(id)' = Cancelled(id)
      BY <1>0, <1>3, <3>1, <3>2
    <3> QED BY <1>1, <2>1, <3>3
  <2> QED BY <2>1, <2>2, <2>3
<1>5. CASE EndsWithEof
  <2>1. PICK pdu \in Pdus : IsEof(pdu, sender.id, "no_error") /\ wire' = Append(wire, pdu)
    BY <1>5 DEF EndsWithEof, IsEof
  <2>2. /\ sender.id \in Ids
        /\ \A i \in Ids, k \in Indications :
             indications'[i][k] = IF i = sender.id /\ k \in EndKinds THEN indications[i][k] + 1
                                                                     ELSE indications[i][k]
    <3>1. sender.id \in Ids /\ Indicate(sender.id, EndKinds)
      BY <1>5 DEF EndsWithEof, Works
    <3> QED BY <1>0, <3>1, IndicateType
  <2>3. CASE id = sender.id
    <3>1. /\ Completed(id)' = Completed(id) + 1 /\ Cancelled(id)' = Cancelled(id) + 0
          /\ indications'[id]["EOF_SENT"] = indications[id]["EOF_SENT"] + 1
          /\ indications'[id]["FINISHED"] = indications[id]["FINISHED"] + 1 + 0 + 0
      BY <1>0, <1>3, <2>1, <2>2, <2>3 DEF IsEof, EndKinds
    <3> QED BY <1>0, <3>1, MatchingStep
  <2>4. CASE id # sender.id
    <3>1. /\ Completed(id)' = Completed(id) /\ Cancelled(id)' = Cancelled(id)
          /\ NoEndIndicated \/ \A k \in EndKinds : indications'[id][k] = indications[id][k]
      BY <1>0, <1>3, <2>1, <2>2, <2>4 DEF IsEof, EndKinds
    <3>2. /\ Completed(id)' = Completed(id) + 0 /\ Cancelled(id)' = Cancelled(id) + 0
          /\ indications'[id]["EOF_SENT"] = indications[id]["EOF_SENT"] + 0
          /\ indications'[id]["FINISHED"] = indications[id]["FINISHED"] + 0 + 0 + 0
      BY <1>0, <2>2, <2>4, <3>1
    <3> QED BY <1>0, <3>2, MatchingStep
  <2> QED BY <2>3, <2>4
<1>6. CASE EndsCancelled
  <2>1. /\ sender.id \in Ids
        /\ \A i \in Ids, k \in Indications :
             indications'[i][k] = IF i = sender.id /\ k \in {"FINISHED"}
                                  THEN indications[i][k] + 1 ELSE indications[i][k]
    <3>1. sender.id \in Ids /\ Indicate(sender.id, {"FINISHED"})
      BY <1>6 DEF EndsCancelled, Works
    <3> QED BY <1>0, <3>1, IndicateType
  <2>2. /\ indications'[id]["EOF_SENT"] = indications[id]["EOF_SENT"] + 0
        /\ indications'[id]["FINISHED"]
             = indications[id]["FINISHED"] + (IF id = sender.id THEN 1 ELSE 0)
    BY <1>0, <2>1
  <2>3. CASE wire' = wire /\ errors' = errors \cup {<<sender.id, "TRANSPORT_ERROR">>}
    <3>1. CASE id = sender.id
      <4>1. /\ Completed(id)' = Completed(id) + 0 /\ Cancelled(id)' = Cancelled(id) + 0
            /\ indications'[id]["FINISHED"] = indications[id]["FINISHED"] + 0 + 0 + 1
            /\ Failed(id)'
        BY <1>0, <1>2, <2>2, <2>3, <3>1 DEF Failed
      <4> QED BY <1>0, <2>2, <4>1, MatchingStep
    <3>2. CASE id # sender.id
      <4>1. /\ Completed(id)' = Completed(id) + 0 /\ Cancelled(id)' = Cancelled(id) + 0
            /\ indications'[id]["FINISHED"] = indications[id]["FINISHED"] + 0 + 0 + 0
        BY <1>0, <1>2, <2>2, <2>3, <3>2
      <4> QED BY <1>0, <2>2, <4>1, MatchingStep
    <3> QED BY <3>1, <3>2
  <2>4. ASSUME NEW pdu \in Pdus, wire' = Append(wire, pdu),
               IsEof(pdu, sender.id, "cancel_request_received")
        PROVE  Goal
    <3>1. /\ Completed(id)' = Completed(id) + 0
          /\ Cancelled(id)' = Cancelled(id) + (IF id = sender.id THEN 1 ELSE 0)
      BY <1>0, <1>3, <2>4 DEF IsEof
    <3>2. CASE id = sender.id
      <4>1. /\ Cancelled(id)' = Cancelled(id) + 1
            /\ indications'[id]["FINISHED"] = indications[id]["FINISHED"] + 0 + 1 + 0
        BY <1>0, <2>2, <3>1, <3>2
      <4> QED BY <1>0, <2>2, <3>1, <4>1, MatchingStep
    <3>3. CASE id # sender.id
      <4>1. /\ Cancelled(id)' = Cancelled(id) + 0
            /\ indications'[id]["FINISHED"] = indications[id]["FINISHED"] + 0 + 0 + 0
        BY <1>0, <2>2, <3>1, <3>3
      <4> QED BY <1>0, <2>2, <3>1, <4>1, MatchingStep
    <3> QED BY <3>2, <3>3
  <2> QED BY <1>6, <2>3, <2>4 DEF EndsCancelled, IsEof
<1> QED BY <1>4, <1>5, <1>6, StepOutput

\* EOF_SENT is indicated for every EOF without error on the wire, and FINISHED for
\* every EOF, but for a cancellation whose EOF the transport refused.
THEOREM UserIsToldTheTruth == Spec => []IndicationsMatchWire
<1>1. Init => IndicationsMatchWire
  <2> SUFFICES ASSUME Init PROVE IndicationsMatchWire
    OBVIOUS
  <2>1. \A id, code : EofsOnWire(id, code) = {}
    BY DEF Init, EofsOnWire
  <2>2. \A id \in Ids, k \in Indications : indications[id][k] = 0
    BY DEF Init
  <2>3. \A id \in Ids : Completed(id) = 0 /\ Cancelled(id) = 0
    BY <2>1, FS_EmptySet DEF Completed, Cancelled
  <2>4. \A id \in Ids : indications[id]["EOF_SENT"] = 0 /\ indications[id]["FINISHED"] = 0
    BY <2>2 DEF Indications
  <2> QED BY <2>3, <2>4, MatchesWire DEF Matches
<1> QED BY <1>1, IndicationsStep, Invariance, PTL DEF Spec

-----------------------------------------------------------------------------
(***************************************************************************)
(* What a step says of the transaction and its file, for who composes the     *)
(* sender with others.                                                       *)
(***************************************************************************)
\* A put announces the names it was given, or closes the machine again.
LEMMA PutSends ==
  ASSUME Inv, NEW dest \in Destinations, NEW src \in SourceNames, NEW dst \in TargetNames,
         Put(dest, src, dst)
  PROVE  /\ sender'.id = sender.id + 1 /\ sender'.id \in Ids
         /\ UNCHANGED store
         /\ \/ /\ \E pdu \in Pdus : /\ pdu.kind = "MD" /\ pdu.id = sender'.id
                                    /\ pdu.source_file_name = src
                                    /\ pdu.destination_file_name = dst
                                    /\ wire' = Append(wire, pdu)
               /\ sender'.source_filename = src
               /\ sender'.destination_filename = dst
            \/ wire' = wire /\ sender'.state = "COMPLETED"
<1> DEFINE id == transaction_sequence_number + 1
           n == IF src = VIRTUAL_LISTING_FILENAME THEN listing.size ELSE 0
           t == NewSender(id, dest, src, dst, n)
           s == SizeRead(t)
<1>1. /\ id \in 0 .. MaxPuts /\ id \in Ids /\ id = sender.id + 1 /\ n \in Nat
      /\ OpenTransaction(s)
  BY SenderAssumption DEF Put, OpenTransaction, Inv, TypeOK, Consistent, Ids
<1>2. IsListing(t) => t.virtual_source_file_size <= Len(listing.data)
  BY DEF NewSender, IsListing, Inv, Consistent
<1>3. t.id = id /\ t.source_filename = src /\ t.destination_filename = dst
  BY DEF NewSender
<1>4. t \in SenderRecords
  BY <1>1 DEF NewSender, SenderRecords, SenderStates
<1>5. t.id # 0
  BY <1>1, <1>3 DEF Ids
<1> HIDE DEF t, id, n
<1>6. s \in SenderRecords
  BY <1>2, <1>4, <1>5, EofType
<1>7. s.id = id /\ s.source_filename = src /\ s.destination_filename = dst
  BY <1>3, <1>4 DEF SizeRead, SenderRecords
<1> HIDE DEF s
<1>8. CASE MetadataSent(s)
  <2> DEFINE pdu == MetadataPdu(s.id, s.file_size, s.source_filename, s.destination_filename)
  <2>1. /\ pdu \in Pdus /\ pdu.kind = "MD" /\ pdu.id = id
        /\ pdu.source_file_name = src /\ pdu.destination_file_name = dst
    BY <1>1, <1>6, <1>7 DEF MetadataPdu, Pdus, MetadataPdus, SenderRecords
  <2>2. wire' = Append(wire, pdu)
    BY <1>8 DEF MetadataSent
  <2>3. /\ sender'.id = id
        /\ sender'.source_filename = src /\ sender'.destination_filename = dst
    BY <1>6, <1>7, <1>8 DEF MetadataSent, SenderRecords
  <2>4. UNCHANGED store
    BY <1>1 DEF OpenTransaction
  <2> HIDE DEF pdu
  <2> QED BY <1>1, <2>1, <2>2, <2>3, <2>4
<1>9. CASE MetadataRejected(s)
  <2>1. /\ sender'.id = id /\ sender'.state = "COMPLETED" /\ wire' = wire
    BY <1>6, <1>7, <1>9 DEF MetadataRejected, Close, SenderRecords
  <2> QED BY <1>1, <2>1 DEF OpenTransaction
<1> QED BY <1>1, <1>8, <1>9 DEF OpenTransaction

\* The EOF tells size and checksum of the file as it is.
TellsFile(pdu) ==
  /\ pdu.kind = "EOF"
  /\ pdu.condition_code \in {"no_error", "cancel_request_received"}
  /\ pdu.file_size = Len(FileWords(sender))
  /\ pdu.file_checksum = Checksum(FileWords(sender), checksum_type)

SameTransaction ==
  /\ sender'.id = sender.id
  /\ sender'.source_filename = sender.source_filename
  /\ sender'.destination_filename = sender.destination_filename
  /\ sender'.state # "COMPLETED" => sender.state # "COMPLETED"

LEMMA EofTells ==
  ASSUME Inv, sender.state # "COMPLETED",
         NEW code \in {"no_error", "cancel_request_received"}
  PROVE  LET s == [sender EXCEPT !.condition_code = code]
         IN  /\ Eof(s) \in Pdus /\ Eof(s).id = sender.id /\ TellsFile(Eof(s))
             /\ sender' = Close(SizeRead(s)) => SameTransaction
<1> DEFINE s == [sender EXCEPT !.condition_code = code]
<1>1. sender \in SenderRecords /\ sender.id # 0
  BY DEF Inv, TypeOK, Consistent
<1>2. /\ s \in SenderRecords /\ s.id = sender.id /\ s.condition_code = code
      /\ s.source_filename = sender.source_filename
      /\ s.destination_filename = sender.destination_filename
      /\ s.virtual_source_file_size = sender.virtual_source_file_size
  BY <1>1 DEF SenderRecords
<1> HIDE DEF s
<1>3. FileWords(s) = FileWords(sender) /\ (IsListing(s) <=> IsListing(sender))
  BY <1>2 DEF FileWords, IsListing
<1>4. Eof(s) \in Pdus
  BY <1>1, <1>2, <1>3, EofType DEF Inv, Consistent
<1>5. Eof(s).id = sender.id /\ TellsFile(Eof(s))
  BY <1>2, <1>3
     DEF Eof, EofPdu, TellsFile, transaction_get_file_checksum, transaction_get_file_size
<1>6. sender' = Close(SizeRead(s)) => SameTransaction
  BY <1>2 DEF Close, SizeRead, SameTransaction, SenderRecords
<1> QED BY <1>4, <1>5, <1>6 DEF s

\* Whatever else the sender does to a transaction, it sends a segment of it, or an
\* EOF that tells its file, or nothing.
OngoingSends ==
  /\ SameTransaction
  /\ UNCHANGED store
  /\ \/ wire' = wire
     \/ /\ sender.state # "COMPLETED"
        /\ \E pdu \in Pdus : /\ pdu.id = sender.id
                             /\ \/ pdu.kind = "FD"
                                \/ TellsFile(pdu)
                             /\ wire' = Append(wire, pdu)

LEMMA OngoingStep ==
  ASSUME Inv, SendFileData \/ Request \/ LinkState \/ TransportIsReadyCallback
  PROVE  OngoingSends
<1>0. sender \in SenderRecords
  BY DEF Inv, TypeOK
<1>1. CASE SendFileData
  <2>1. sender.state = "SEND_FILE" /\ UNCHANGED store
    BY <1>1 DEF SendFileData, UnchangedFiles, Inv, Consistent
  <2>2. CASE HeldBack \/ TransportNotReady
    BY <2>1, <2>2 DEF HeldBack, TransportNotReady, UnchangedOutput, OngoingSends, SameTransaction
  <2>3. CASE SendSegment
    <3> DEFINE data == AsCString(transaction_get_file_segment(sender))
               pdu == FileDataPdu(sender.id, sender.file_position, data)
    <3>1. data \in Seq(Word)
      BY <1>0, <2>1, <2>3, CurrentFile, SegmentType DEF SendSegment, SenderRecords
    <3>2. pdu \in Pdus /\ pdu.kind = "FD" /\ pdu.id = sender.id
      <4>1. sender.id \in Ids
        BY <2>1, CurrentEof
      <4> QED BY <1>0, <3>1, <4>1 DEF Pdus, FileDataPdu, FileDataPdus, SenderRecords
    <3>3. SameTransaction /\ wire' = Append(wire, pdu)
      BY <1>0, <2>1, <2>3 DEF SendSegment, SameTransaction, SenderRecords
    <3> HIDE DEF pdu
    <3> QED BY <2>1, <3>2, <3>3 DEF OngoingSends
  <2>4. CASE SegmentFails
    <3> DEFINE moved == [sender EXCEPT !.file_position = @ + SegmentLength(sender)]
    <3>1. sender' \in {Close(sender), Close(moved)} /\ wire' = wire
      BY <2>4 DEF SegmentFails
    <3>2. SameTransaction
      BY <1>0, <2>1, <3>1 DEF SameTransaction, Close, SenderRecords
    <3> QED BY <2>1, <3>1, <3>2 DEF OngoingSends
  <2>5. CASE CompleteTransfer
    <3> DEFINE s == [sender EXCEPT !.condition_code = "no_error"]
    <3>1. s = sender
      BY <1>0, <2>1 DEF SenderRecords, Inv, Consistent
    <3>2. /\ sender' = Close(SizeRead(sender))
          /\ wire' = wire \/ wire' = Append(wire, Eof(sender))
      BY <2>5 DEF CompleteTransfer
    <3>3. Eof(s) \in Pdus /\ Eof(s).id = sender.id /\ TellsFile(Eof(s))
      BY <2>1, EofTells
    <3>4. sender' = Close(SizeRead(s)) => SameTransaction
      BY <2>1, EofTells
    <3> HIDE DEF s
    <3> QED BY <2>1, <3>1, <3>2, <3>3, <3>4 DEF OngoingSends
  <2> QED BY <1>1, <2>2, <2>3, <2>4, <2>5 DEF SendFileData, TransportReady
<1>2. CASE Request
  <2>1. PICK id \in Ids : Cancel(id) \/ Suspend(id) \/ Resume(id) \/ Abandon(id) \/ DeliverPdu(id)
    BY <1>2 DEF Request
  <2>2. sender.state = "SEND_FILE" /\ UNCHANGED store
    BY <2>1 DEF Cancel, Suspend, Resume, Abandon, DeliverPdu, ToActiveSender,
                UnchangedByRequest, UnchangedFiles
  <2>3. CASE Cancel(id)
    <3> DEFINE s == [sender EXCEPT !.condition_code = "cancel_request_received"]
    <3>1. /\ sender' = Close(SizeRead(s))
          /\ wire' = wire \/ wire' = Append(wire, Eof(s))
      BY <2>3 DEF Cancel
    <3>2. /\ Eof(s) \in Pdus /\ Eof(s).id = sender.id /\ TellsFile(Eof(s))
          /\ sender' = Close(SizeRead(s)) => SameTransaction
      BY <2>2, EofTells
    <3> HIDE DEF s
    <3> QED BY <2>2, <3>1, <3>2 DEF OngoingSends
  <2>4. CASE Suspend(id) \/ Resume(id) \/ Abandon(id) \/ DeliverPdu(id)
    <3>1. wire' = wire
      BY <2>4 DEF Suspend, Resume, Abandon, DeliverPdu
    <3>2. SameTransaction
      BY <1>0, <2>2, <2>4
         DEF Suspend, Resume, Abandon, DeliverPdu, Close, SameTransaction, SenderRecords
    <3> QED BY <2>2, <3>1, <3>2 DEF OngoingSends
  <2> QED BY <2>1, <2>3, <2>4
<1>3. CASE LinkState
  <2>1. PICK dest \in Destinations : Freeze(dest) \/ Thaw(dest)
    BY <1>3 DEF LinkState
  <2>2. SameTransaction
    BY <1>0, <2>1 DEF Freeze, Thaw, SameTransaction, SenderRecords
  <2>3. UNCHANGED <<store, wire>>
    BY <2>1 DEF Freeze, Thaw, UnchangedOutput, UnchangedByRequest, UnchangedFiles
  <2> QED BY <2>2, <2>3 DEF OngoingSends
<1>4. CASE TransportIsReadyCallback
  BY <1>4 DEF TransportIsReadyCallback, UnchangedOutput, UnchangedFiles, OngoingSends,
              SameTransaction
<1> QED BY <1>1, <1>2, <1>3, <1>4

-----------------------------------------------------------------------------
\* What a put makes of the machine, and what the segments of a file are: for who
\* follows the file.
PutOpens ==
  \/ wire' = wire /\ sender'.state = "COMPLETED"
  \/ /\ IsFileTransfer(sender'.source_filename, sender'.destination_filename)
          => sender'.state = "SEND_FILE"
     /\ sender'.file_position = 0
     /\ sender'.file_size = Len(FileWords(sender'))

\* The next words of the file, as far as strncpy leaves them.
NextSegment(pdu) ==
  /\ pdu.kind = "FD" /\ pdu.id = sender.id
  /\ pdu.segment_offset = sender.file_position
  /\ Len(pdu.file_data) \in Nat \ {0}
  /\ sender.file_position + Len(pdu.file_data) <= Len(FileWords(sender))
  /\ pdu.file_data = AsCString(SubSeq(FileWords(sender), sender.file_position + 1,
                                 sender.file_position + Len(pdu.file_data)))
  /\ sender'.file_position = sender.file_position + Len(pdu.file_data)

\* An EOF closes the machine, and without error only after the whole of the file.
LastPdu(pdu) ==
  /\ pdu.kind = "EOF" /\ pdu.id = sender.id
  /\ sender'.state = "COMPLETED"
  /\ pdu.condition_code = "no_error" => sender.file_position = sender.file_size

SegmentsFollow ==
  \/ /\ wire' = wire
     /\ sender'.state = "SEND_FILE" =>
          /\ sender.state = "SEND_FILE"
          /\ sender'.file_position = sender.file_position
          /\ sender'.file_size = sender.file_size
  \/ /\ sender.state = "SEND_FILE"
     /\ sender'.file_size = sender.file_size
     /\ \E pdu \in Pdus : NextSegment(pdu) /\ wire' = Append(wire, pdu)
  \/ /\ sender.state = "SEND_FILE"
     /\ \E pdu \in Pdus : LastPdu(pdu) /\ wire' = Append(wire, pdu)

LEMMA PutFollows ==
  ASSUME Inv, NEW dest \in Destinations, NEW src \in SourceNames, NEW dst \in TargetNames,
         Put(dest, src, dst)
  PROVE  PutOpens
<1> DEFINE id == transaction_sequence_number + 1
           n == IF src = VIRTUAL_LISTING_FILENAME THEN listing.size ELSE 0
           t == NewSender(id, dest, src, dst, n)
           s == SizeRead(t)
<1>1. OpenTransaction(s) /\ UNCHANGED listing /\ id \in 0 .. MaxPuts /\ n \in Nat
  BY SenderAssumption DEF Put, OpenTransaction, Inv, TypeOK
<1>2. t \in SenderRecords /\ t.file_position = 0
  BY <1>1 DEF NewSender, SenderRecords, SenderStates
<1>3. IsListing(t) => t.virtual_source_file_size <= Len(listing.data)
  BY DEF NewSender, IsListing, Inv, Consistent
<1> HIDE DEF t, id, n
<1>4. transaction_get_file_size(t) \in Nat
  BY <1>2, <1>3, FileWordsType DEF Inv, TypeOK, SenderRecords
<1>5. /\ s \in SenderRecords /\ s.file_position = 0
      /\ s.file_size = transaction_get_file_size(t)
      /\ s.source_filename = t.source_filename
      /\ s.virtual_source_file_size = t.virtual_source_file_size
  BY <1>2, <1>4 DEF SizeRead, SenderRecords
<1> HIDE DEF s
<1>6. CASE MetadataSent(s)
  <2>1. sender' = s \/ sender' = [s EXCEPT !.state = "SEND_FILE"]
    BY <1>6 DEF MetadataSent
  <2>2. /\ sender'.file_position = 0 /\ sender'.file_size = s.file_size
        /\ sender'.source_filename = t.source_filename
        /\ sender'.destination_filename = s.destination_filename
        /\ sender'.virtual_source_file_size = t.virtual_source_file_size
    BY <1>5, <2>1 DEF SenderRecords
  <2>3. FileWords(sender') = FileWords(t)
    BY <2>2 DEF FileWords, IsListing
  <2>4. IsFileTransfer(sender'.source_filename, sender'.destination_filename)
          => sender'.state = "SEND_FILE"
    BY <1>5, <1>6, <2>2 DEF MetadataSent, SenderRecords
  <2> QED BY <1>5, <2>2, <2>3, <2>4 DEF PutOpens, transaction_get_file_size
<1>7. CASE MetadataRejected(s)
  BY <1>5, <1>7 DEF MetadataRejected, Close, SenderRecords, PutOpens
<1> QED BY <1>1, <1>6, <1>7 DEF OpenTransaction

LEMMA OngoingFollows ==
  ASSUME Inv, SendFileData \/ Request \/ LinkState \/ TransportIsReadyCallback
  PROVE  SegmentsFollow
<1>0. sender \in SenderRecords
  BY DEF Inv, TypeOK
<1>1. CASE SendFileData
  <2>1. sender.state = "SEND_FILE"
    BY <1>1 DEF SendFileData, Inv, Consistent
  <2>2. CASE HeldBack \/ TransportNotReady
    BY <2>1, <2>2 DEF HeldBack, TransportNotReady, UnchangedOutput, SegmentsFollow
  <2>3. CASE SendSegment
    <3> DEFINE segment == transaction_get_file_segment(sender)
               pdu == FileDataPdu(sender.id, sender.file_position, AsCString(segment))
    <3>1. AsCString(segment) \in Seq(Word) /\ Len(AsCString(segment)) = SegmentLength(sender)
      BY <1>0, <2>1, <2>3, CurrentFile, SegmentType DEF SendSegment, SenderRecords
    <3>2. pdu \in Pdus
      <4>1. sender.id \in Ids
        BY <2>1, CurrentEof
      <4> QED BY <1>0, <3>1, <4>1 DEF Pdus, FileDataPdu, FileDataPdus, SenderRecords
    <3>3. SegmentLength(sender) \in Nat \ {0}
      BY <1>0, <2>3, SegmentLengthBounds DEF SendSegment, SenderRecords
    <3>4. /\ wire' = Append(wire, pdu)
          /\ sender'.file_position = sender.file_position + SegmentLength(sender)
          /\ sender'.file_size = sender.file_size
          /\ Readable(sender)
      BY <1>0, <2>3 DEF SendSegment, SenderRecords
    <3>5. /\ pdu.kind = "FD" /\ pdu.id = sender.id
          /\ pdu.segment_offset = sender.file_position
          /\ pdu.file_data = AsCString(segment)
      BY DEF FileDataPdu
    <3>6. NextSegment(pdu)
      <4> HIDE DEF pdu
      <4>1. /\ Len(pdu.file_data) = SegmentLength(sender)
            /\ segment = SubSeq(FileWords(sender), sender.file_position + 1,
                           sender.file_position + SegmentLength(sender))
        BY <3>1, <3>5 DEF transaction_get_file_segment
      <4> QED BY <3>3, <3>4, <3>5, <4>1 DEF NextSegment, Readable
    <3> HIDE DEF pdu
    <3> QED BY <2>1, <3>2, <3>4, <3>6 DEF SegmentsFollow
  <2>4. CASE SegmentFails
    <3> DEFINE moved == [sender EXCEPT !.file_position = @ + SegmentLength(sender)]
    <3>1. sender' \in {Close(sender), Close(moved)} /\ wire' = wire
      BY <2>4 DEF SegmentFails
    <3>2. sender'.state = "COMPLETED"
      BY <1>0, <3>1 DEF Close, SenderRecords
    <3> QED BY <3>1, <3>2 DEF SegmentsFollow
  <2>5. CASE CompleteTransfer
    <3> DEFINE s == [sender EXCEPT !.condition_code = "no_error"]
    <3>1. s = sender
      BY <1>0, <2>1 DEF SenderRecords, Inv, Consistent
    <3>2. Eof(s) \in Pdus /\ Eof(s).id = sender.id /\ TellsFile(Eof(s))
      BY <2>1, EofTells
    <3>3. /\ sender'.state = "COMPLETED"
          /\ wire' = wire \/ wire' = Append(wire, Eof(sender))
      BY <1>0, <2>5 DEF CompleteTransfer, Close, SizeRead, SenderRecords
    <3>4. sender.file_position = sender.file_size
      BY <1>0, <2>1, <2>5
         DEF CompleteTransfer, transaction_is_file_send_complete, SenderRecords, Inv, Consistent
    <3> HIDE DEF s
    <3>5. LastPdu(Eof(sender))
      BY <3>1, <3>2, <3>3, <3>4 DEF LastPdu, TellsFile
    <3> QED BY <2>1, <3>1, <3>2, <3>3, <3>5 DEF SegmentsFollow
  <2> QED BY <1>1, <2>2, <2>3, <2>4, <2>5 DEF SendFileData, TransportReady
<1>2. CASE Request
  <2>1. PICK id \in Ids : Cancel(id) \/ Suspend(id) \/ Resume(id) \/ Abandon(id) \/ DeliverPdu(id)
    BY <1>2 DEF Request
  <2>2. sender.state = "SEND_FILE"
    BY <2>1 DEF Cancel, Suspend, Resume, Abandon, DeliverPdu, ToActiveSender
  <2>3. CASE Cancel(id)
    <3> DEFINE s == [sender EXCEPT !.condition_code = "cancel_request_received"]
    <3>1. /\ s \in SenderRecords /\ s.condition_code = "cancel_request_received"
          /\ sender' = Close(SizeRead(s))
          /\ wire' = wire \/ wire' = Append(wire, Eof(s))
      BY <1>0, <2>3 DEF Cancel, SenderRecords
    <3>2. Eof(s) \in Pdus /\ Eof(s).id = sender.id /\ TellsFile(Eof(s))
      BY <2>2, EofTells
    <3> HIDE DEF s
    <3>3. /\ sender'.state = "COMPLETED"
          /\ Eof(s).condition_code = "cancel_request_received"
      BY <3>1 DEF Close, SizeRead, SenderRecords, Eof, EofPdu
    <3>4. LastPdu(Eof(s))
      BY <3>2, <3>3 DEF LastPdu, TellsFile
    <3> QED BY <2>2, <3>1, <3>2, <3>3, <3>4 DEF SegmentsFollow
  <2>4. CASE Suspend(id) \/ Resume(id) \/ Abandon(id) \/ DeliverPdu(id)
    <3>1. wire' = wire
      BY <2>4 DEF Suspend, Resume, Abandon, DeliverPdu
    <3>2. /\ sender'.file_position = sender.file_position
          /\ sender'.file_size = sender.file_size
      BY <1>0, <2>4 DEF Suspend, Resume, Abandon, DeliverPdu, Close, SenderRecords
    <3> QED BY <2>2, <3>1, <3>2 DEF SegmentsFollow
  <2> QED BY <2>1, <2>3, <2>4
<1>3. CASE LinkState
  <2>1. PICK dest \in Destinations : Freeze(dest) \/ Thaw(dest)
    BY <1>3 DEF LinkState
  <2>2. /\ sender'.file_position = sender.file_position
        /\ sender'.file_size = sender.file_size /\ sender'.state = sender.state
    BY <1>0, <2>1 DEF Freeze, Thaw, SenderRecords
  <2>3. wire' = wire
    BY <2>1 DEF Freeze, Thaw, UnchangedOutput
  <2> QED BY <2>2, <2>3 DEF SegmentsFollow
<1>4. CASE TransportIsReadyCallback
  BY <1>4 DEF TransportIsReadyCallback, UnchangedOutput, SegmentsFollow
<1> QED BY <1>1, <1>2, <1>3, <1>4
=============================================================================

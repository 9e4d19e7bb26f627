----------------------- MODULE ReceiverMachineProofs -----------------------
(***************************************************************************)
(* Theorems about ReceiverMachine, for every value of its constants.        *)
(*                                                                          *)
(* A handler is described once, by what each of its results may be (Outcome); *)
(* a step is then a handler's result taken over by the machine, an event that *)
(* a closed machine ignores, or a refused PDU (StepCases).                    *)
(***************************************************************************)
EXTENDS ReceiverMachine, SequenceTheorems, FiniteSetTheorems, TLAPS

Filestores == UNION {[D -> Seq(Word)] : D \in SUBSET FileNames}

-----------------------------------------------------------------------------
(***************************************************************************)
(* What the operators of the model return.                                  *)
(***************************************************************************)
\* A checksum is a word.
LEMMA ChecksumType ==
  ASSUME NEW content, NEW type
  PROVE  Checksum(content, type) \in Word
<1>1. 0 \in Word
  BY WordModulusAssumption DEF Word
<1> QED BY <1>1 DEF Checksum, Uint32

LEMMA FilestoresType ==
  ASSUME NEW f
  PROVE  f \in Filestores <=> \E D \in SUBSET FileNames : f \in [D -> Seq(Word)]
BY DEF Filestores

\* A function on 1 .. n is a sequence of that length.
LEMMA FunctionIsSeq ==
  ASSUME NEW n \in Nat, NEW S, NEW s \in [1 .. n -> S]
  PROVE  s \in Seq(S) /\ Len(s) = n
<1>1. s \in Seq(S)
  BY SeqDef
<1>2. DOMAIN s = 1 .. n /\ DOMAIN s = 1 .. Len(s) /\ Len(s) \in Nat
  BY <1>1, LenProperties
<1> QED BY <1>1, <1>2

\* The content of a file, which is empty if there is none.
LEMMA ContentType ==
  ASSUME NEW f \in Filestores, NEW name
  PROVE  Content(f, name) \in Seq(Word) /\ Len(Content(f, name)) \in Nat
<1>1. PICK D \in SUBSET FileNames : f \in [D -> Seq(Word)]
  BY FilestoresType
<1>2. Content(f, name) \in Seq(Word)
  BY <1>1, EmptySeq DEF Content
<1> QED BY <1>2, LenProperties

\* Writing at an offset makes a file as long as it was or as it takes.
LEMMA WrittenType ==
  ASSUME NEW content \in Seq(Word), NEW offset \in Nat, NEW data \in Seq(Word)
  PROVE  /\ Written(content, offset, data) \in Seq(Word)
         /\ Len(Written(content, offset, data)) >= Len(content)
         /\ Len(Written(content, offset, data)) >= offset + Len(data)
<1> DEFINE end == offset + Len(data)
           n == IF end > Len(content) THEN end ELSE Len(content)
<1>1. 0 \in Word
  BY WordModulusAssumption DEF Word
<1>2. Len(content) \in Nat /\ Len(data) \in Nat
  BY LenProperties
<1>3. n \in Nat /\ n >= Len(content) /\ n >= end
  BY <1>2
<1>4. \A i \in 1 .. n :
        (IF i > offset /\ i <= end THEN data[i - offset]
         ELSE IF i <= Len(content) THEN content[i] ELSE 0) \in Word
  <2> SUFFICES ASSUME NEW i \in 1 .. n
               PROVE  (IF i > offset /\ i <= end THEN data[i - offset]
                       ELSE IF i <= Len(content) THEN content[i] ELSE 0) \in Word
    OBVIOUS
  <2>1. CASE i > offset /\ i <= end
    <3>1. i - offset \in 1 .. Len(data)
      BY <1>2, <1>3, <2>1
    <3>2. data[i - offset] \in Word
      BY <3>1, ElementOfSeq
    <3> QED BY <2>1, <3>2
  <2>2. CASE ~(i > offset /\ i <= end) /\ i <= Len(content)
    <3>1. content[i] \in Word
      BY <1>2, <1>3, <2>2, ElementOfSeq
    <3> QED BY <2>2, <3>1
  <2>3. CASE ~(i > offset /\ i <= end) /\ ~(i <= Len(content))
    BY <1>1, <2>3
  <2> QED BY <2>1, <2>2, <2>3
<1>5. Written(content, offset, data) =
        [i \in 1 .. n |-> IF i > offset /\ i <= end THEN data[i - offset]
                          ELSE IF i <= Len(content) THEN content[i] ELSE 0]
  BY DEF Written
<1>6. Written(content, offset, data) \in [1 .. n -> Word]
  BY <1>4, <1>5
<1>7. Written(content, offset, data) \in Seq(Word) /\ Len(Written(content, offset, data)) = n
  BY <1>3, <1>6, FunctionIsSeq
<1> QED BY <1>3, <1>7

\* A file that is replaced: the others stay as they are.
LEMMA ReplacedType ==
  ASSUME NEW f \in Filestores, NEW name \in FileNames, NEW content \in Seq(Word)
  PROVE  /\ Replaced(f, name, content) \in Filestores
         /\ name \in DOMAIN Replaced(f, name, content)
         /\ Content(Replaced(f, name, content), name) = content
         /\ Deleted(Replaced(f, name, content), name) = Deleted(f, name)
<1>1. PICK D \in SUBSET FileNames : f \in [D -> Seq(Word)]
  BY FilestoresType
<1> DEFINE g == Replaced(f, name, content)
<1>2. g = [other \in D \cup {name} |-> IF other = name THEN content ELSE f[other]]
  BY <1>1 DEF Replaced
<1>3. g \in [D \cup {name} -> Seq(Word)] /\ D \cup {name} \in SUBSET FileNames
  BY <1>1, <1>2
<1>4. name \in DOMAIN g /\ g[name] = content
  BY <1>2
<1>5. Deleted(g, name) = Deleted(f, name)
  <2>1. DOMAIN g \ {name} = DOMAIN f \ {name}
    BY <1>1, <1>2
  <2>2. \A other \in DOMAIN f \ {name} : g[other] = f[other]
    BY <1>1, <1>2
  <2> QED BY <2>1, <2>2 DEF Deleted
<1> QED BY <1>3, <1>4, <1>5, FilestoresType DEF Content

\* A file that is deleted: the others stay as they are.
LEMMA DeletedType ==
  ASSUME NEW f \in Filestores, NEW name
  PROVE  /\ Deleted(f, name) \in Filestores
         /\ Deleted(Deleted(f, name), name) = Deleted(f, name)
<1>1. PICK D \in SUBSET FileNames : f \in [D -> Seq(Word)]
  BY FilestoresType
<1>2. Deleted(f, name) = [other \in D \ {name} |-> f[other]]
  BY <1>1 DEF Deleted
<1>3. Deleted(f, name) \in [D \ {name} -> Seq(Word)] /\ D \ {name} \in SUBSET FileNames
  BY <1>1, <1>2
<1>4. (DOMAIN Deleted(f, name)) \ {name} = DOMAIN Deleted(f, name)
  BY <1>2
<1>5. Deleted(Deleted(f, name), name) = [other \in D \ {name} |-> f[other]]
  BY <1>2, <1>4 DEF Deleted
<1> QED BY <1>2, <1>3, <1>5, FilestoresType

\* Each message leads to one entry that is neither an end nor METADATA_RECV.
Answers == {"LISTING_PUT", "SUCCESSFUL_LISTING", "UNSUCCESSFUL_LISTING", "NOOP"}

LEMMA SaidType ==
  ASSUME NEW messages \in Messages \cup {<<>>}, NEW n \in 0 .. Len(messages)
  PROVE  SaidOfFirst(n, messages) \in Seq(Answers) /\ Len(SaidOfFirst(n, messages)) = n
<1>1. messages \in Seq(MessageTypes)
  BY ReceiverAssumption, EmptySeq
<1>2. n \in Nat /\ Len(messages) \in Nat
  BY <1>1, LenProperties
<1>3. \A i \in 1 .. n : messages[i] \in MessageTypes
  BY <1>1, <1>2, ElementOfSeq
<1>4. \A m \in MessageTypes : Said(m) \in Answers
  BY DEF MessageTypes, Said, Answers
<1>5. SaidOfFirst(n, messages) \in [1 .. n -> Answers]
  BY <1>3, <1>4 DEF SaidOfFirst
<1> QED BY <1>2, <1>5, FunctionIsSeq

-----------------------------------------------------------------------------
(***************************************************************************)
(* What a handler may do to a machine r that is not closed.                 *)
(***************************************************************************)
\* What r counts as received is in the file.
Stored(r, f) ==
  r.state # "COMPLETED" /\ r.received_file_size > 0 =>
    Stores(r) /\ Len(Content(f, r.destination_filename)) >= r.received_file_size

Serving(r, f) ==
  /\ r \in ReceiverRecords
  /\ r.state # "COMPLETED"
  /\ f \in Filestores
  /\ Stored(r, f)

\* In which order a result tells the user of what, and how that goes with the state.
Tells(r, o) ==
  /\ \A i, j \in DOMAIN o.said : i < j => o.said[i] \notin Ends /\ o.said[j] # "METADATA_RECV"
  /\ \A j \in DOMAIN o.said : o.said[j] = "METADATA_RECV" => r.state = "WAIT_FOR_MD"
  /\ \A j \in DOMAIN o.said :
       o.said[j] \notin Ends \cup {"METADATA_RECV"} =>
         \/ r.state = "WAIT_FOR_EOF"
         \/ 1 < j /\ o.said[1] = "METADATA_RECV"
  /\ o.receiver.state = "WAIT_FOR_MD" => r.state = "WAIT_FOR_MD" /\ o.said = <<>>
  /\ o.receiver.state = "WAIT_FOR_EOF" =>
       /\ \A j \in DOMAIN o.said : o.said[j] \notin Ends
       /\ \/ r.state = "WAIT_FOR_EOF"
          \/ 1 \in DOMAIN o.said /\ o.said[1] = "METADATA_RECV"
  /\ o.receiver.state = "COMPLETED" =>
       (\E j \in DOMAIN o.said : o.said[j] \in Ends) \/ "FILESTORE_ERROR" \in o.wrong

Requests(r) ==
  {i \in DOMAIN r.messages : r.messages[i] = "DIRECTORY_LISTING_REQUEST"}

\* Which listings a result puts: those of the first messages, behind METADATA_RECV.
Answering(r, o) ==
  /\ \A j \in DOMAIN o.said : o.said[j] = "LISTING_PUT" =>
       r.state = "WAIT_FOR_MD" /\ j - 1 \in Requests(r)
  /\ r.state = "WAIT_FOR_MD" /\ o.receiver.state = "WAIT_FOR_EOF" =>
       \A i \in Requests(r) : 1 + i \in DOMAIN o.said /\ o.said[1 + i] = "LISTING_PUT"

\* When files change, and what is told if a file is gone.
Guarded(r, f, o) ==
  o.files # f =>
    /\ r.state = "WAIT_FOR_EOF"
    /\ Deleted(o.files, r.destination_filename) = Deleted(f, r.destination_filename)
    /\ r.destination_filename \notin DOMAIN o.files =>
         /\ o.said = <<"EOF_RECV", "FINISHED">>
         /\ o.receiver.condition_code = "cancel_request_received"

SameTransaction(r, s) ==
  /\ s.id = r.id
  /\ s.source_filename = r.source_filename
  /\ s.destination_filename = r.destination_filename
  /\ s.messages = r.messages

Outcome(r, f, o) ==
  /\ o.receiver \in ReceiverRecords /\ SameTransaction(r, o.receiver)
  /\ o.files \in Filestores
  /\ o.said \in Seq(Kinds)
  /\ o.wrong \subseteq ErrorTypes
  /\ Tells(r, o)
  /\ Answering(r, o)
  /\ Guarded(r, f, o)
  /\ Stored(o.receiver, o.files)

\* The fields of a result.
LEMMA ResultFields ==
  ASSUME NEW r, NEW f, NEW said, NEW wrong
  PROVE  LET o == Result(r, f, said, wrong)
         IN  o.receiver = r /\ o.files = f /\ o.said = said /\ o.wrong = wrong
BY DEF Result

\* Closing a machine, with a code or without.
LEMMA ClosedType ==
  ASSUME NEW r \in ReceiverRecords, NEW code \in Codes
  PROVE  /\ Close(r) \in ReceiverRecords /\ SameTransaction(r, Close(r))
         /\ Close(r).state = "COMPLETED" /\ Close(r).condition_code = r.condition_code
         /\ Coded(r, code) \in ReceiverRecords /\ SameTransaction(r, Coded(r, code))
         /\ Coded(r, code).state = r.state
         /\ Coded(r, code).received_file_size = r.received_file_size
         /\ Coded(r, code).condition_code = code
         /\ Close(Coded(r, code)) \in ReceiverRecords
         /\ SameTransaction(r, Close(Coded(r, code)))
         /\ Close(Coded(r, code)).state = "COMPLETED"
         /\ Close(Coded(r, code)).condition_code = code
BY DEF ReceiverRecords, Close, Coded, SameTransaction, ReceiverStates

\* A result that leaves the files alone and closes the machine.
LEMMA ClosingOutcome ==
  ASSUME NEW r, NEW f, Serving(r, f), NEW s \in ReceiverRecords, NEW said, NEW wrong,
         SameTransaction(r, s), s.state = "COMPLETED", wrong \subseteq ErrorTypes,
         \/ said = <<"FINISHED">> \/ said = <<"ABANDONED">>
         \/ r.state = "WAIT_FOR_EOF" /\ said = <<"EOF_RECV", "FINISHED">>
         \/ said = <<>> /\ "FILESTORE_ERROR" \in wrong
  PROVE  Outcome(r, f, Result(s, f, said, wrong))
<1> DEFINE o == Result(s, f, said, wrong)
<1>1. o.receiver = s /\ o.files = f /\ o.said = said /\ o.wrong = wrong
  BY ResultFields
<1> HIDE DEF o
<1>2. said \in Seq(Kinds)
  <2>1. /\ <<>> \in Seq(Kinds) /\ <<"FINISHED">> \in Seq(Kinds)
        /\ <<"ABANDONED">> \in Seq(Kinds) /\ <<"EOF_RECV", "FINISHED">> \in Seq(Kinds)
    BY EmptySeq DEF Kinds
  <2> QED BY <2>1
<1>3. Tells(r, o)
  BY <1>1 DEF Tells, Ends
<1>4. Answering(r, o)
  BY <1>1 DEF Answering
<1> QED BY <1>1, <1>2, <1>3, <1>4 DEF Outcome, Guarded, Stored, Serving, o

\* A result that tells nothing and leaves the state and the files alone.
LEMMA WaitingOutcome ==
  ASSUME NEW r, NEW f, Serving(r, f), NEW wrong, wrong \subseteq ErrorTypes
  PROVE  Outcome(r, f, Result(r, f, <<>>, wrong))
<1> DEFINE o == Result(r, f, <<>>, wrong)
<1>1. o.receiver = r /\ o.files = f /\ o.said = <<>> /\ o.wrong = wrong
  BY ResultFields
<1> HIDE DEF o
<1>2. r.state \in {"WAIT_FOR_MD", "WAIT_FOR_EOF"}
  BY DEF Serving, ReceiverRecords, ReceiverStates
<1>3. Tells(r, o)
  BY <1>1, <1>2 DEF Tells
<1>4. Answering(r, o)
  BY <1>1 DEF Answering
<1> QED BY <1>1, <1>3, <1>4, EmptySeq DEF Outcome, Guarded, Stored, Serving, SameTransaction, o

-----------------------------------------------------------------------------
(***************************************************************************)
(* The handlers.                                                            *)
(***************************************************************************)
LEMMA UnsupportedOutcome ==
  ASSUME NEW r, NEW f, Serving(r, f), NEW o \in Unsupported(r, f)
  PROVE  Outcome(r, f, o)
BY WaitingOutcome DEF Unsupported, ErrorTypes

LEMMA IdleOutcome ==
  ASSUME NEW r, NEW f, Serving(r, f), NEW o \in Idle(r, f)
  PROVE  Outcome(r, f, o)
BY WaitingOutcome DEF Idle

LEMMA CancelOutcome ==
  ASSUME NEW r, NEW f, Serving(r, f), NEW o \in CancelReceived(r, f)
  PROVE  Outcome(r, f, o)
<1>1. "cancel_request_received" \in Codes
  BY DEF Codes
<1> QED BY <1>1, ClosedType, ClosingOutcome DEF CancelReceived, Serving

LEMMA AbandonOutcome ==
  ASSUME NEW r, NEW f, Serving(r, f), NEW o \in AbandonReceived(r, f)
  PROVE  Outcome(r, f, o)
BY ClosedType, ClosingOutcome DEF AbandonReceived, Serving, Codes

\* The default action of every fault the receiver knows is to cancel.
LEMMA FaultCancels ==
  ASSUME NEW r, NEW f,
         NEW condition \in {"file_checksum_failure", "file_size_error", "inactivity_detected"}
  PROVE  Fault(r, f, condition) = CancelReceived(r, f)
<1>1. DEFAULT_FAULT_HANDLER_ACTIONS[condition] = "FAULT_HANDLER_CANCEL"
  BY DEF DEFAULT_FAULT_HANDLER_ACTIONS, ConditionCodes
<1> QED BY <1>1 DEF Fault

LEMMA FinishAtOnceOutcome ==
  ASSUME NEW r, NEW f, Serving(r, f), NEW o \in FinishAtOnce(r, f)
  PROVE  Outcome(r, f, o)
BY ClosedType, ClosingOutcome DEF FinishAtOnce, Serving, Codes

\* METADATA_RECV comes first, and the answers to the messages follow.
LEMMA MetadataSaid ==
  ASSUME NEW s \in Seq(Answers)
  PROVE  LET said == <<"METADATA_RECV">> \o s
         IN  /\ said \in Seq(Kinds)
             /\ 1 \in DOMAIN said /\ said[1] = "METADATA_RECV"
             /\ \A j \in DOMAIN said : j \in Nat /\ (j # 1 => 1 < j /\ said[j] \in Answers)
<1> DEFINE said == <<"METADATA_RECV">> \o s
<1>1. Len(s) \in Nat
  BY LenProperties
<1>2. Len(said) = 1 + Len(s) /\ DOMAIN said = 1 .. 1 + Len(s) /\ said[1] = "METADATA_RECV"
  BY <1>1
<1>3. ASSUME NEW j \in DOMAIN said, j # 1
      PROVE  said[j] \in Answers
  <2>1. j - 1 \in 1 .. Len(s) /\ said[j] = s[j - 1]
    BY <1>1, <1>2, <1>3
  <2> QED BY <2>1, ElementOfSeq
<1>4. \A k \in Answers : k \in Kinds
  BY DEF Answers, Kinds
<1>5. \A j \in 1 .. 1 + Len(s) : said[j] \in Kinds
  BY <1>2, <1>3, <1>4 DEF Kinds
<1>6. said \in Seq(Kinds)
  <2>1. s \in Seq(Kinds)
    BY <1>4, SeqMonotonic
  <2>2. <<"METADATA_RECV">> \in Seq(Kinds)
    BY DEF Kinds
  <2> QED BY <2>1, <2>2
<1> QED BY <1>1, <1>2, <1>3, <1>6

\* Behind METADATA_RECV there is a LISTING_PUT for each request among the first
\* messages, at its place.
LEMMA MetadataAnswers ==
  ASSUME NEW r, r.messages \in Messages \cup {<<>>}, NEW k \in 0 .. Len(r.messages)
  PROVE  LET said == <<"METADATA_RECV">> \o SaidOfFirst(k, r.messages)
         IN  /\ \A j \in DOMAIN said : said[j] = "LISTING_PUT" => j - 1 \in Requests(r)
             /\ k = Len(r.messages) =>
                  \A i \in Requests(r) : 1 + i \in DOMAIN said /\ said[1 + i] = "LISTING_PUT"
<1> DEFINE s == SaidOfFirst(k, r.messages)
           said == <<"METADATA_RECV">> \o s
<1>1. r.messages \in Seq(MessageTypes)
  BY ReceiverAssumption, EmptySeq
<1>2. Len(r.messages) \in Nat /\ DOMAIN r.messages = 1 .. Len(r.messages) /\ k \in Nat
  BY <1>1, LenProperties
<1>3. s \in Seq(Answers) /\ Len(s) = k
  BY SaidType
<1>4. \A i \in 1 .. k : s[i] = Said(r.messages[i])
  BY DEF SaidOfFirst
<1>5. \A i \in 1 .. k : s[i] = "LISTING_PUT" <=> i \in Requests(r)
  <2> SUFFICES ASSUME NEW i \in 1 .. k
               PROVE  s[i] = "LISTING_PUT" <=> i \in Requests(r)
    OBVIOUS
  <2>1. i \in DOMAIN r.messages /\ r.messages[i] \in MessageTypes
    BY <1>1, <1>2, ElementOfSeq
  <2>2. Said(r.messages[i]) = "LISTING_PUT" <=> r.messages[i] = "DIRECTORY_LISTING_REQUEST"
    BY <2>1 DEF Said, MessageTypes
  <2> QED BY <1>4, <2>1, <2>2 DEF Requests
<1> HIDE DEF s
<1>6. /\ Len(said) = 1 + k /\ DOMAIN said = 1 .. 1 + k /\ said[1] = "METADATA_RECV"
      /\ \A i \in 1 .. k : said[1 + i] = s[i]
  BY <1>2, <1>3
<1> HIDE DEF said
<1>7. ASSUME NEW j \in DOMAIN said, said[j] = "LISTING_PUT"
      PROVE  j - 1 \in Requests(r)
  <2>1. j \in 1 .. 1 + k /\ j # 1
    BY <1>6, <1>7
  <2>2. j - 1 \in 1 .. k /\ 1 + (j - 1) = j
    BY <1>2, <2>1
  <2> QED BY <1>5, <1>6, <1>7, <2>2
<1>8. ASSUME k = Len(r.messages), NEW i \in Requests(r)
      PROVE  1 + i \in DOMAIN said /\ said[1 + i] = "LISTING_PUT"
  <2>1. i \in 1 .. k
    BY <1>2, <1>8 DEF Requests
  <2>2. 1 + i \in 1 .. 1 + k
    BY <1>2, <2>1
  <2> QED BY <1>5, <1>6, <2>1, <2>2
<1> QED BY <1>7, <1>8 DEF said, s

LEMMA MetadataOutcome ==
  ASSUME NEW r, NEW f, Serving(r, f), r.state = "WAIT_FOR_MD",
         NEW o \in MetadataReceived(r, f)
  PROVE  Outcome(r, f, o)
<1> DEFINE n == Len(r.messages)
           waiting == [r EXCEPT !.state = "WAIT_FOR_EOF"]
<1>1. r \in ReceiverRecords /\ r.messages \in Messages \cup {<<>>} /\ n \in Nat
  <2>1. r \in ReceiverRecords /\ r.messages \in Messages \cup {<<>>}
    BY DEF Serving, ReceiverRecords
  <2> QED BY <2>1, ReceiverAssumption, EmptySeq, LenProperties
<1>2. ASSUME NEW k \in 0 .. n, NEW s \in ReceiverRecords, SameTransaction(r, s),
             NEW wrong, wrong \subseteq ErrorTypes,
             s.received_file_size = r.received_file_size \/ s.state = "COMPLETED",
             \/ s.state = "WAIT_FOR_EOF" /\ k = n
             \/ s.state = "COMPLETED" /\ "FILESTORE_ERROR" \in wrong,
             o = Result(s, f, <<"METADATA_RECV">> \o SaidOfFirst(k, r.messages), wrong)
      PROVE  Outcome(r, f, o)
  <2> DEFINE said == <<"METADATA_RECV">> \o SaidOfFirst(k, r.messages)
  <2>1. SaidOfFirst(k, r.messages) \in Seq(Answers)
    BY <1>1, SaidType
  <2>2. /\ said \in Seq(Kinds)
        /\ 1 \in DOMAIN said /\ said[1] = "METADATA_RECV"
        /\ \A j \in DOMAIN said : j \in Nat /\ (j # 1 => 1 < j /\ said[j] \in Answers)
    BY <2>1, MetadataSaid
  <2>3. o.receiver = s /\ o.files = f /\ o.said = said /\ o.wrong = wrong
    <3>1. o = Result(s, f, said, wrong)
      BY <1>2
    <3> HIDE DEF said
    <3> QED BY <3>1, ResultFields
  <2>4. \A k2 \in Answers : k2 \notin Ends /\ k2 # "METADATA_RECV"
    BY DEF Answers, Ends
  <2> HIDE DEF said
  <2>5. Tells(r, o)
    <3>1. \A i, j \in DOMAIN o.said :
            i < j => o.said[i] \notin Ends /\ o.said[j] # "METADATA_RECV"
      <4> SUFFICES ASSUME NEW i \in DOMAIN said, NEW j \in DOMAIN said, i < j
                   PROVE  said[i] \notin Ends /\ said[j] # "METADATA_RECV"
        BY <2>3
      <4>1. i \in Nat /\ j \in Nat /\ j # 1
        BY <2>2
      <4> QED BY <2>2, <2>4, <4>1 DEF Ends
    <3>2. \A j \in DOMAIN said : said[j] \notin Ends
      BY <2>2, <2>4 DEF Ends
    <3>3. \A j \in DOMAIN said : j # 1 => 1 < j
      BY <2>2
    <3> QED BY <1>2, <2>2, <2>3, <3>1, <3>2, <3>3 DEF Tells
  <2>6. Stored(s, f)
    BY <1>2 DEF Serving, Stored, SameTransaction, Stores
  <2>7. Answering(r, o)
    <3>1. /\ \A j \in DOMAIN said : said[j] = "LISTING_PUT" => j - 1 \in Requests(r)
          /\ k = n => \A i \in Requests(r) : 1 + i \in DOMAIN said /\ said[1 + i] = "LISTING_PUT"
      BY <1>1, MetadataAnswers DEF said
    <3> QED BY <1>2, <2>3, <3>1 DEF Answering
  <2> QED BY <1>2, <2>2, <2>3, <2>5, <2>6, <2>7 DEF Outcome, Guarded, Serving
<1>3. CASE o = Result(waiting, f, <<"METADATA_RECV">> \o SaidOfFirst(n, r.messages), {})
  <2>1. /\ waiting \in ReceiverRecords /\ SameTransaction(r, waiting)
        /\ waiting.state = "WAIT_FOR_EOF"
        /\ waiting.received_file_size = r.received_file_size
    BY <1>1 DEF ReceiverRecords, ReceiverStates, SameTransaction
  <2>2. n \in 0 .. n /\ {} \subseteq ErrorTypes
    BY <1>1
  <2> HIDE DEF waiting, n
  <2> QED BY <1>2, <1>3, <2>1, <2>2
<1>4. ASSUME NEW i \in 1 .. n,
             o = Result(Close(r), f, <<"METADATA_RECV">> \o SaidOfFirst(i - 1, r.messages),
                        {"FILESTORE_ERROR"})
      PROVE  Outcome(r, f, o)
  <2>1. i - 1 \in 0 .. n
    BY <1>1
  <2>2. /\ Close(r) \in ReceiverRecords /\ SameTransaction(r, Close(r))
        /\ Close(r).state = "COMPLETED" /\ {"FILESTORE_ERROR"} \subseteq ErrorTypes
    BY <1>1, ClosedType DEF Codes, ErrorTypes
  <2> QED BY <1>2, <1>4, <2>1, <2>2
<1> QED BY <1>3, <1>4 DEF MetadataReceived

LEMMA FileDataOutcome ==
  ASSUME NEW r, NEW f, Serving(r, f), r.state = "WAIT_FOR_EOF",
         NEW pdu, pdu.segment_offset \in Nat, pdu.file_data \in Seq(Word),
         NEW o \in FileDataReceived(r, f, pdu)
  PROVE  Outcome(r, f, o)
<1> DEFINE end == pdu.segment_offset + Len(pdu.file_data)
           name == r.destination_filename
           content == Written(Content(f, name), pdu.segment_offset, pdu.file_data)
           s == [r EXCEPT !.received_file_size = IF @ < end THEN end ELSE @]
<1>1. r \in ReceiverRecords /\ f \in Filestores /\ Len(pdu.file_data) \in Nat
  BY LenProperties DEF Serving
<1>2. CASE ~Stores(r)
  BY <1>2, WaitingOutcome DEF FileDataReceived
<1>3. CASE Stores(r) /\ o = Result(Close(r), f, <<>>, {"FILESTORE_ERROR"})
  BY <1>1, <1>3, ClosedType, ClosingOutcome DEF Codes, ErrorTypes
<1>4. CASE Stores(r) /\ o = Result(s, Replaced(f, name, content), <<>>, {})
  <2>1. name \in FileNames
    BY <1>1, <1>4 DEF Stores, IsFileTransfer, ReceiverRecords, Names
  <2>2. /\ content \in Seq(Word) /\ Len(content) \in Nat
        /\ Len(content) >= Len(Content(f, name)) /\ Len(Content(f, name)) \in Nat
        /\ Len(content) >= end
    BY <1>1, ContentType, WrittenType, LenProperties
  <2> HIDE DEF content
  <2>3. /\ Replaced(f, name, content) \in Filestores
        /\ name \in DOMAIN Replaced(f, name, content)
        /\ Content(Replaced(f, name, content), name) = content
        /\ Deleted(Replaced(f, name, content), name) = Deleted(f, name)
    BY <1>1, <2>1, <2>2, ReplacedType
  <2>4. /\ s \in ReceiverRecords /\ SameTransaction(r, s) /\ s.state = "WAIT_FOR_EOF"
        /\ s.received_file_size = IF r.received_file_size < end THEN end
                                                               ELSE r.received_file_size
        /\ r.received_file_size \in Nat
    BY <1>1 DEF ReceiverRecords, SameTransaction
  <2> HIDE DEF s
  <2>5. /\ o.receiver = s /\ o.files = Replaced(f, name, content)
        /\ o.said = <<>> /\ o.wrong = {}
    BY <1>4, ResultFields
  <2>6. Tells(r, o)
    BY <2>4, <2>5 DEF Tells
  <2>7. Stored(s, o.files)
    <3>1. Stores(s) /\ s.destination_filename = name
      BY <1>4, <2>4 DEF SameTransaction, Stores
    <3>2. Len(content) >= s.received_file_size
      <4>1. r.received_file_size > 0 => Len(Content(f, name)) >= r.received_file_size
        BY DEF Serving, Stored
      <4>2. end \in Nat
        BY <1>1
      <4> QED BY <2>2, <2>4, <4>1, <4>2
    <3> QED BY <2>3, <2>5, <3>1, <3>2 DEF Stored
  <2>8. Guarded(r, f, o)
    BY <2>3, <2>5 DEF Guarded
  <2>9. Answering(r, o)
    BY <2>5 DEF Answering
  <2> QED BY <2>3, <2>4, <2>5, <2>6, <2>7, <2>8, <2>9, EmptySeq DEF Outcome
<1> QED BY <1>2, <1>3, <1>4 DEF FileDataReceived

\* EOF_RECV is told before what the end of the transaction tells.
LEMMA EofSaid ==
  ASSUME NEW s, NEW g, NEW w
  PROVE  [Result(s, g, <<"FINISHED">>, w) EXCEPT !.said = <<"EOF_RECV">> \o @]
           = Result(s, g, <<"EOF_RECV", "FINISHED">>, w)
<1>1. <<"EOF_RECV">> \o <<"FINISHED">> = <<"EOF_RECV", "FINISHED">>
  <2> DEFINE told == <<"EOF_RECV">> \o <<"FINISHED">>
  <2>1. /\ <<"EOF_RECV">> \in Seq(Kinds) /\ <<"FINISHED">> \in Seq(Kinds)
        /\ <<"EOF_RECV", "FINISHED">> \in Seq(Kinds)
    BY DEF Kinds
  <2>2. told \in Seq(Kinds) /\ Len(told) = 2 /\ told[1] = "EOF_RECV" /\ told[2] = "FINISHED"
    BY <2>1
  <2> DEFINE both == <<"EOF_RECV", "FINISHED">>
  <2>3. Len(both) = 2 /\ both[1] = "EOF_RECV" /\ both[2] = "FINISHED"
    OBVIOUS
  <2>4. \A i \in 1 .. 2 : i = 1 \/ i = 2
    OBVIOUS
  <2>5. both \in Seq(Kinds)
    BY <2>1
  <2> HIDE DEF told, both
  <2>6. told = both
    BY <2>2, <2>3, <2>4, <2>5, SeqEqual
  <2> QED BY <2>6 DEF told, both
<1> QED BY <1>1 DEF Result

\* A file that failed its checksum is gone, or the filestore would not delete it.
LEMMA RejectedResults ==
  ASSUME NEW r, NEW f, NEW o \in Rejected(r, f)
  PROVE  LET s == Close(Coded(r, "cancel_request_received"))
         IN  \/ o = Result(s, Deleted(f, r.destination_filename), <<"FINISHED">>, {})
             \/ o = Result(Close(s), f, <<"FINISHED">>, {"FILESTORE_ERROR"})
<1> DEFINE s == Close(Coded(r, "cancel_request_received"))
           p == Result(s, f, <<"FINISHED">>, {})
<1>1. Fault(r, f, "file_checksum_failure") = {p}
  BY FaultCancels DEF CancelReceived
<1>2. p.receiver = s /\ p.said = <<"FINISHED">> /\ p.wrong = {}
  BY ResultFields
<1> HIDE DEF s, p
<1>3. \/ o = Result(p.receiver, Deleted(f, r.destination_filename), p.said, p.wrong)
      \/ o = Result(Close(p.receiver), f, p.said, p.wrong \cup {"FILESTORE_ERROR"})
  BY <1>1 DEF Rejected
<1>4. {} \cup {"FILESTORE_ERROR"} = {"FILESTORE_ERROR"}
  OBVIOUS
<1> QED BY <1>2, <1>3, <1>4 DEF s

LEMMA EofOutcome ==
  ASSUME NEW r, NEW f, Serving(r, f), r.state = "WAIT_FOR_EOF",
         NEW pdu, NEW o \in EofReceived(r, f, pdu)
  PROVE  Outcome(r, f, o)
<1> DEFINE name == r.destination_filename
           cancelled == Close(Coded(r, "cancel_request_received"))
           told == <<"EOF_RECV", "FINISHED">>
<1>1. r \in ReceiverRecords /\ f \in Filestores
  BY DEF Serving
<1>2. ASSUME NEW s \in ReceiverRecords, SameTransaction(r, s), s.state = "COMPLETED",
             NEW w, w \subseteq ErrorTypes, o = Result(s, f, told, w)
      PROVE  Outcome(r, f, o)
  BY <1>2, ClosingOutcome
<1>3. /\ Close(r) \in ReceiverRecords /\ SameTransaction(r, Close(r))
      /\ Close(r).state = "COMPLETED"
      /\ cancelled \in ReceiverRecords /\ SameTransaction(r, cancelled)
      /\ cancelled.state = "COMPLETED"
      /\ cancelled.condition_code = "cancel_request_received"
  BY <1>1, ClosedType DEF Codes
<1>4. /\ Close(cancelled) \in ReceiverRecords /\ SameTransaction(r, Close(cancelled))
      /\ Close(cancelled).state = "COMPLETED"
  <2> HIDE DEF cancelled
  <2>1. /\ Close(cancelled) \in ReceiverRecords /\ SameTransaction(cancelled, Close(cancelled))
        /\ Close(cancelled).state = "COMPLETED"
    BY <1>3, ClosedType DEF Codes
  <2> QED BY <1>3, <2>1 DEF SameTransaction
<1>5. CASE o = Result(cancelled, Deleted(f, name), told, {})
  <2> HIDE DEF cancelled
  <2>1. /\ o.receiver = cancelled /\ o.files = Deleted(f, name) /\ o.said = told
        /\ o.wrong = {}
    BY <1>5, ResultFields
  <2>2. Deleted(f, name) \in Filestores /\ Deleted(Deleted(f, name), name) = Deleted(f, name)
    BY <1>1, DeletedType
  <2>3. Tells(r, o)
    BY <1>3, <2>1 DEF Tells, Ends
  <2>4. Guarded(r, f, o)
    BY <1>3, <2>1, <2>2 DEF Guarded
  <2>5. told \in Seq(Kinds)
    BY DEF Kinds
  <2>6. Stored(o.receiver, o.files)
    BY <1>3, <2>1 DEF Stored
  <2>7. Answering(r, o)
    BY <2>1 DEF Answering
  <2> QED BY <1>3, <2>1, <2>2, <2>3, <2>4, <2>5, <2>6, <2>7 DEF Outcome
<1>6. CASE \E p \in {Result(Close(r), f, <<"FINISHED">>, {})} :
             o = [p EXCEPT !.said = <<"EOF_RECV">> \o @]
  <2>1. [Result(Close(r), f, <<"FINISHED">>, {}) EXCEPT !.said = <<"EOF_RECV">> \o @]
          = Result(Close(r), f, told, {})
    BY EofSaid
  <2>2. o = Result(Close(r), f, told, {})
    BY <1>6, <2>1
  <2> QED BY <1>2, <1>3, <2>2
<1>7. CASE \E p \in Fault(r, f, "file_size_error") :
             o = [p EXCEPT !.said = <<"EOF_RECV">> \o @]
  <2>1. Fault(r, f, "file_size_error") = {Result(cancelled, f, <<"FINISHED">>, {})}
    BY FaultCancels DEF CancelReceived
  <2> HIDE DEF cancelled
  <2>2. [Result(cancelled, f, <<"FINISHED">>, {}) EXCEPT !.said = <<"EOF_RECV">> \o @]
          = Result(cancelled, f, told, {})
    BY EofSaid
  <2>3. o = Result(cancelled, f, told, {})
    BY <1>7, <2>1, <2>2
  <2> QED BY <1>2, <1>3, <2>3
<1>8. CASE \E p \in Rejected(r, f) : o = [p EXCEPT !.said = <<"EOF_RECV">> \o @]
  <2>1. PICK p \in Rejected(r, f) : o = [p EXCEPT !.said = <<"EOF_RECV">> \o @]
    BY <1>8
  <2>2. \/ p = Result(cancelled, Deleted(f, name), <<"FINISHED">>, {})
        \/ p = Result(Close(cancelled), f, <<"FINISHED">>, {"FILESTORE_ERROR"})
    BY <2>1, RejectedResults
  <2> HIDE DEF cancelled
  <2>3. /\ [Result(cancelled, Deleted(f, name), <<"FINISHED">>, {})
             EXCEPT !.said = <<"EOF_RECV">> \o @]
             = Result(cancelled, Deleted(f, name), told, {})
        /\ [Result(Close(cancelled), f, <<"FINISHED">>, {"FILESTORE_ERROR"})
             EXCEPT !.said = <<"EOF_RECV">> \o @]
             = Result(Close(cancelled), f, told, {"FILESTORE_ERROR"})
    BY EofSaid
  <2>4. \/ o = Result(cancelled, Deleted(f, name), told, {})
        \/ o = Result(Close(cancelled), f, told, {"FILESTORE_ERROR"})
    BY <2>1, <2>2, <2>3
  <2>5. {"FILESTORE_ERROR"} \subseteq ErrorTypes
    BY DEF ErrorTypes
  <2> QED BY <1>2, <1>4, <1>5, <2>4, <2>5
<1> QED BY <1>6, <1>7, <1>8 DEF EofReceived

-----------------------------------------------------------------------------
(***************************************************************************)
(* PDUs.                                                                    *)
(***************************************************************************)
\* What the fields of a PDU may be.
LEMMA PduTypes ==
  ASSUME NEW pdu \in Pdus
  PROVE  /\ pdu.id \in Transactions
         /\ pdu.kind = "MD" => /\ pdu.source_file_name \in Names
                               /\ pdu.destination_file_name \in Names
                               /\ pdu.messages \in Messages
         /\ pdu.kind = "FD" => pdu.segment_offset \in Nat /\ pdu.file_data \in Seq(Word)
         /\ pdu.kind = "EOF" => pdu.condition_code \in Codes /\ pdu.file_size \in Nat
<1>1. CASE pdu \in [kind : {"MD"}, id : Transactions, source_file_name : Names,
                    destination_file_name : Names, messages : Messages]
  BY <1>1
<1>2. CASE pdu \in {[kind |-> "FD", id |-> id, segment_offset |-> s.segment_offset,
                     file_data |-> s.file_data] : id \in Transactions, s \in Segments}
  <2>1. PICK id \in Transactions, s \in Segments :
          pdu = [kind |-> "FD", id |-> id, segment_offset |-> s.segment_offset,
                 file_data |-> s.file_data]
    BY <1>2
  <2>2. s.segment_offset \in Nat /\ s.file_data \in Seq(Word)
    BY ReceiverAssumption
  <2> QED BY <2>1, <2>2
<1>3. CASE pdu \in [kind : {"EOF"}, id : Transactions,
                    condition_code : {"no_error", "cancel_request_received"},
                    file_checksum : EofChecksums, file_size : EofSizes]
  BY <1>3, ReceiverAssumption DEF Codes
<1>4. CASE pdu \in OtherPdus
  BY <1>4 DEF OtherPdus
<1> QED BY <1>1, <1>2, <1>3, <1>4 DEF Pdus

\* Every PDU leaves the machine with an outcome.
LEMMA DeliveryOutcome ==
  ASSUME NEW r, NEW f, Serving(r, f), NEW pdu \in Pdus, NEW o \in DeliverPdu(r, f, pdu)
  PROVE  Outcome(r, f, o)
<1>1. r.state \in {"WAIT_FOR_MD", "WAIT_FOR_EOF"} /\ r \in ReceiverRecords
  BY DEF Serving, ReceiverRecords, ReceiverStates
<1>2. CASE pdu.kind = "EOF" /\ pdu.condition_code # "no_error"
  <2> DEFINE s == Coded(r, pdu.condition_code)
  <2>1. pdu.condition_code \in Codes
    BY <1>2, PduTypes
  <2>2. s \in ReceiverRecords /\ SameTransaction(r, s)
    BY <1>1, <2>1, ClosedType
  <2>3. /\ Close(s) \in ReceiverRecords /\ SameTransaction(r, Close(s))
        /\ Close(s).state = "COMPLETED"
    BY <1>1, <2>1, ClosedType
  <2>4. o = Result(Close(s), f, <<"FINISHED">>, {})
    BY <1>2 DEF DeliverPdu, FinishAtOnce
  <2> HIDE DEF s
  <2> QED BY <2>3, <2>4, ClosingOutcome
<1>3. CASE pdu.kind = "EOF" /\ pdu.condition_code = "no_error" /\ r.state = "WAIT_FOR_MD"
  <2>1. o \in FinishAtOnce(r, f)
    BY <1>3 DEF DeliverPdu
  <2> QED BY <2>1, FinishAtOnceOutcome
<1>4. CASE pdu.kind = "EOF" /\ pdu.condition_code = "no_error" /\ r.state = "WAIT_FOR_EOF"
  <2>1. o \in EofReceived(r, f, pdu)
    BY <1>4 DEF DeliverPdu
  <2> QED BY <1>4, <2>1, EofOutcome
<1>5. CASE pdu.kind = "MD" /\ r.state = "WAIT_FOR_MD"
  <2>1. o \in MetadataReceived(r, f)
    BY <1>5 DEF DeliverPdu
  <2> QED BY <1>5, <2>1, MetadataOutcome
<1>6. CASE pdu.kind = "FD" /\ r.state = "WAIT_FOR_EOF"
  <2>1. o \in FileDataReceived(r, f, pdu)
    BY <1>6 DEF DeliverPdu
  <2>2. pdu.segment_offset \in Nat /\ pdu.file_data \in Seq(Word)
    BY <1>6, PduTypes
  <2> QED BY <1>6, <2>1, <2>2, FileDataOutcome
<1>7. CASE /\ pdu.kind # "EOF"
           /\ ~(pdu.kind = "MD" /\ r.state = "WAIT_FOR_MD")
           /\ ~(pdu.kind = "FD" /\ r.state = "WAIT_FOR_EOF")
  <2>1. o \in Unsupported(r, f)
    BY <1>7 DEF DeliverPdu
  <2> QED BY <2>1, UnsupportedOutcome
<1> QED BY <1>1, <1>2, <1>3, <1>4, <1>5, <1>6, <1>7

\* The machine for a new transaction is ready to serve it.
LEMMA NewReceiverServes ==
  ASSUME NEW pdu \in Pdus, NEW f \in Filestores
  PROVE  /\ Serving(NewReceiver(pdu), f)
         /\ NewReceiver(pdu).state = "WAIT_FOR_MD"
         /\ NewReceiver(pdu).id = pdu.id /\ pdu.id \in Transactions
<1>1. pdu.id \in Ids /\ pdu.id \in Transactions
  BY PduTypes DEF Ids
<1>2. NoName \in Names
  BY DEF Names
<1>3. NewReceiver(pdu) \in ReceiverRecords
  BY <1>1, <1>2, PduTypes DEF NewReceiver, ReceiverRecords, ReceiverStates, Codes
<1> QED BY <1>1, <1>3 DEF NewReceiver, Serving, Stored

-----------------------------------------------------------------------------
(***************************************************************************)
(* Steps.                                                                   *)
(***************************************************************************)
\* A machine that waits has a transaction, in a life of its own; what it counts is
\* in its file; and it is watched.
Consistent ==
  /\ Active => receiver.id \in Transactions /\ openings > 0
  /\ ReceivedIsStored
  /\ ActiveIsWatched

Inv == TypeOK /\ Consistent

\* A handler served machine r in the given life, and the machine took its result.
Advance(r, o, life) ==
  /\ Serving(r, files)
  /\ r.id \in Transactions
  /\ Outcome(r, files, o)
  /\ life \in 1 .. MaxOpenings
  /\ openings' = life
  /\ \/ r = receiver /\ life = openings
     \/ r.state = "WAIT_FOR_MD" /\ life = openings + 1
  /\ Becomes(o, life)

\* Nothing happens but errors, and what a closed machine does to its timer.
Rest ==
  /\ UNCHANGED <<receiver, files, openings, log>>
  /\ errors \subseteq errors'
  /\ errors' \subseteq (0 .. MaxOpenings) \X ErrorTypes
  /\ timer' \in [armed : BOOLEAN, id : Ids]
  /\ Active => timer' = timer

LEMMA TypeFacts ==
  ASSUME TypeOK
  PROVE  /\ receiver \in ReceiverRecords
         /\ files \in Filestores
         /\ openings \in 0 .. MaxOpenings /\ MaxOpenings \in Nat
         /\ receiver.id \in Ids
         /\ errors \subseteq (0 .. MaxOpenings) \X ErrorTypes
BY FilestoresType, ReceiverAssumption DEF TypeOK, ReceiverRecords

LEMMA ActiveServes == Inv /\ Active => Serving(receiver, files) /\ receiver.id \in Transactions
                                       /\ openings \in 1 .. MaxOpenings
BY TypeFacts DEF Inv, Consistent, Active, ReceivedIsStored, Serving, Stored

\* A result with nothing to tell leaves the log.
LEMMA NothingTold ==
  ASSUME TypeOK, NEW life, NEW id, NEW code
  PROVE  log \o Entries(life, id, code, <<>>) = log
<1> DEFINE E == [life : 1 .. MaxOpenings, id : Transactions, kind : Kinds, code : Codes]
<1>1. Entries(life, id, code, <<>>) = <<>>
  <2>1. Len(<<>>) = 0 /\ 1 .. 0 = {}
    OBVIOUS
  <2> QED BY <2>1 DEF Entries
<1>2. log \in Seq(E)
  BY DEF TypeOK
<1> HIDE DEF E
<1> QED BY <1>1, <1>2, ConcatEmptySeq

\* The timer that is restarted names the transaction of the machine.
LEMMA TimerTaken ==
  ASSUME NEW o, NEW life, Becomes(o, life), o.receiver.id \in Ids
  PROVE  /\ timer' \in [armed : BOOLEAN, id : Ids]
         /\ \/ timer' = [armed |-> TRUE, id |-> o.receiver.id]
            \/ <<life, "TIMER_ERROR">> \in errors'
<1>1. CASE timer' = [armed |-> TRUE, id |-> o.receiver.id]
  BY <1>1
<1>2. CASE /\ timer' \in [armed : BOOLEAN, id : {o.receiver.id}]
           /\ <<life, "TIMER_ERROR">> \in errors'
  <2>1. [armed : BOOLEAN, id : {o.receiver.id}] \subseteq [armed : BOOLEAN, id : Ids]
    OBVIOUS
  <2> QED BY <1>2, <2>1
<1> QED BY <1>1, <1>2 DEF Becomes, TimerId

\* A request or an expiry that reaches the machine.
LEMMA HandledCases ==
  ASSUME Inv, NEW id, NEW results, Handled(id, results),
         Active => \A o \in results : Outcome(receiver, files, o)
  PROVE  Rest \/ \E r, o, life : Advance(r, o, life)
<1>1. CASE Active
  <2>1. PICK o \in results : Becomes(o, openings)
    BY <1>1 DEF Handled
  <2>2. openings' = openings
    BY DEF Handled
  <2> QED BY <1>1, <2>1, <2>2, ActiveServes DEF Advance
<1>2. CASE ~Active
  <2> DEFINE o == Result(receiver, files, <<>>, {})
  <2>1. Becomes(o, openings) /\ openings' = openings
    BY <1>2 DEF Handled, Idle
  <2>2. o.receiver = receiver /\ o.files = files /\ o.said = <<>> /\ o.wrong = {}
    BY ResultFields
  <2> HIDE DEF o
  <2>3. receiver' = receiver /\ files' = files /\ log' = log
    BY <2>1, <2>2, NothingTold DEF Becomes, Inv
  <2>4. /\ errors \subseteq errors'
        /\ errors' \subseteq errors \cup {<<openings, "TIMER_ERROR">>}
    BY <2>1, <2>2 DEF Becomes
  <2>5. errors' \subseteq (0 .. MaxOpenings) \X ErrorTypes
    <3>1. <<openings, "TIMER_ERROR">> \in (0 .. MaxOpenings) \X ErrorTypes
      BY TypeFacts DEF Inv, ErrorTypes
    <3> QED BY <2>4, <3>1, TypeFacts DEF Inv
  <2>6. timer' \in [armed : BOOLEAN, id : Ids]
    BY <2>1, <2>2, TimerTaken, TypeFacts DEF Inv
  <2> QED BY <1>2, <2>1, <2>3, <2>4, <2>5, <2>6 DEF Rest
<1> QED BY <1>1, <1>2

LEMMA StepCases ==
  ASSUME Inv, [Next]_vars
  PROVE  Rest \/ \E r, o, life : Advance(r, o, life)
<1>1. CASE Receives
  <2>1. PICK pdu \in Pdus : ReceivedPdu(pdu)
    BY <1>1 DEF Receives
  <2>2. CASE PduOfKnownTransaction(pdu)
    <3>1. PICK o \in DeliverPdu(receiver, files, pdu) : Becomes(o, openings)
      BY <2>2 DEF PduOfKnownTransaction
    <3>2. Active /\ openings' = openings
      BY <2>2 DEF PduOfKnownTransaction
    <3>3. Outcome(receiver, files, o)
      BY <3>1, <3>2, ActiveServes, DeliveryOutcome
    <3> QED BY <3>1, <3>2, <3>3, ActiveServes DEF Advance
  <2>3. CASE PduOfNewTransaction(pdu)
    <3>1. PICK o \in DeliverPdu(NewReceiver(pdu), files, pdu) : Becomes(o, openings + 1)
      BY <2>3 DEF PduOfNewTransaction
    <3>2. /\ Serving(NewReceiver(pdu), files)
          /\ NewReceiver(pdu).state = "WAIT_FOR_MD" /\ NewReceiver(pdu).id \in Transactions
      BY NewReceiverServes, TypeFacts DEF Inv
    <3>3. Outcome(NewReceiver(pdu), files, o)
      BY <3>1, <3>2, DeliveryOutcome
    <3>4. openings' = openings + 1 /\ openings + 1 \in 1 .. MaxOpenings
      BY <2>3, TypeFacts DEF PduOfNewTransaction, Inv
    <3> QED BY <3>1, <3>2, <3>3, <3>4 DEF Advance
  <2>4. CASE PduRefused(pdu)
    <3>1. <<openings, "UNSUPPORTED_ACTION">> \in (0 .. MaxOpenings) \X ErrorTypes
      BY TypeFacts DEF Inv, ErrorTypes
    <3> QED BY <2>4, <3>1 DEF PduRefused, Rest, Inv, TypeOK
  <2> QED BY <2>1, <2>2, <2>3, <2>4 DEF ReceivedPdu
<1>2. CASE Request
  <2>1. PICK id \in Transactions : Cancel(id) \/ Abandon(id) \/ SuspendOrResume(id) \/ Report(id)
    BY <1>2 DEF Request
  <2>2. CASE Cancel(id)
    BY <2>2, ActiveServes, CancelOutcome, HandledCases DEF Cancel
  <2>3. CASE Abandon(id)
    BY <2>3, ActiveServes, AbandonOutcome, HandledCases DEF Abandon
  <2>4. CASE SuspendOrResume(id)
    BY <2>4, ActiveServes, UnsupportedOutcome, HandledCases DEF SuspendOrResume
  <2>5. CASE Report(id)
    BY <2>5, ActiveServes, IdleOutcome, HandledCases DEF Report
  <2> QED BY <2>1, <2>2, <2>3, <2>4, <2>5
<1>3. CASE TimerExpired
  <2>1. Fault(receiver, files, "inactivity_detected") = CancelReceived(receiver, files)
    BY FaultCancels
  <2> QED BY <1>3, <2>1, ActiveServes, CancelOutcome, HandledCases DEF TimerExpired
<1>4. CASE UNCHANGED vars
  BY <1>4 DEF vars, Rest, Inv, TypeOK
<1> QED BY <1>1, <1>2, <1>3, <1>4 DEF Next

-----------------------------------------------------------------------------
(***************************************************************************)
(* Types, and what the invariant adds to them.                              *)
(***************************************************************************)
LogEntries == [life : 1 .. MaxOpenings, id : Transactions, kind : Kinds, code : Codes]

\* What an advance makes of the log.
LEMMA AdvanceLogs ==
  ASSUME Inv, NEW r, NEW o, NEW life, Advance(r, o, life)
  PROVE  /\ life \in 1 .. MaxOpenings /\ o.receiver.id \in Transactions
         /\ o.receiver.condition_code \in Codes /\ o.said \in Seq(Kinds)
         /\ log' = log \o Entries(life, o.receiver.id, o.receiver.condition_code, o.said)
         /\ receiver' = o.receiver /\ files' = o.files /\ openings' = life
         /\ errors' = errors \cup {<<life, e>> : e \in o.wrong}
            \/ errors' = errors \cup {<<life, e>> : e \in o.wrong \cup {"TIMER_ERROR"}}
BY DEF Advance, Outcome, SameTransaction, Becomes, ReceiverRecords

\* The entries of a result are appended to the log.
LEMMA AdvanceGrows ==
  ASSUME Inv, NEW r, NEW o, NEW life, Advance(r, o, life)
  PROVE  /\ log' \in Seq(LogEntries)
         /\ Len(log) \in Nat /\ Len(log') = Len(log) + Len(o.said)
         /\ DOMAIN log = 1 .. Len(log) /\ DOMAIN log' = 1 .. Len(log')
         /\ DOMAIN o.said = 1 .. Len(o.said) /\ Len(o.said) \in Nat
         /\ \A i \in DOMAIN log : i \in DOMAIN log' /\ log'[i] = log[i]
         /\ \A i \in DOMAIN log' \ DOMAIN log :
              /\ i - Len(log) \in DOMAIN o.said
              /\ log'[i].life = life /\ log'[i].kind = o.said[i - Len(log)]
              /\ log'[i].code = o.receiver.condition_code
              /\ log'[i].id = o.receiver.id
<1> DEFINE id == o.receiver.id
           code == o.receiver.condition_code
           said == o.said
<1>0. /\ life \in 1 .. MaxOpenings /\ id \in Transactions /\ code \in Codes
      /\ said \in Seq(Kinds) /\ log' = log \o Entries(life, id, code, said)
  BY AdvanceLogs
<1> HIDE DEF id, code, said
<1> DEFINE more == Entries(life, id, code, said)
<1>1. Len(said) \in Nat /\ DOMAIN said = 1 .. Len(said)
  BY <1>0, LenProperties
<1>2. \A j \in 1 .. Len(said) :
        [life |-> life, id |-> id, kind |-> said[j], code |-> code] \in LogEntries
  <2>1. \A j \in 1 .. Len(said) : said[j] \in Kinds
    BY <1>0, ElementOfSeq
  <2> QED BY <1>0, <2>1 DEF LogEntries
<1>3. more = [j \in 1 .. Len(said) |->
                [life |-> life, id |-> id, kind |-> said[j], code |-> code]]
  BY DEF Entries
<1>4. more \in [1 .. Len(said) -> LogEntries]
  BY <1>2, <1>3
<1>5. more \in Seq(LogEntries) /\ Len(more) = Len(said)
  BY <1>1, <1>4, FunctionIsSeq
<1>6. \A j \in 1 .. Len(said) :
        more[j] = [life |-> life, id |-> id, kind |-> said[j], code |-> code]
  BY <1>3
<1> HIDE DEF more
<1>7. log \in Seq(LogEntries) /\ Len(log) \in Nat /\ DOMAIN log = 1 .. Len(log)
  <2>1. log \in Seq(LogEntries)
    BY DEF Inv, TypeOK, LogEntries
  <2> QED BY <2>1, LenProperties
<1>8. log' = log \o more
  BY <1>0 DEF more
<1>9. /\ log' \in Seq(LogEntries)
      /\ Len(log') = Len(log) + Len(said)
      /\ \A i \in 1 .. Len(log) + Len(said) :
           log'[i] = IF i <= Len(log) THEN log[i] ELSE more[i - Len(log)]
  <2>1. /\ log \o more \in Seq(LogEntries)
        /\ Len(log \o more) = Len(log) + Len(more)
        /\ \A i \in 1 .. Len(log) + Len(more) :
             (log \o more)[i] = IF i <= Len(log) THEN log[i] ELSE more[i - Len(log)]
    BY <1>5, <1>7, ConcatProperties, Zenon
  <2> QED BY <1>5, <1>8, <2>1, Zenon
<1>10. DOMAIN log' = 1 .. Len(log')
  BY <1>9, LenProperties
<1>11. \A i \in DOMAIN log : i \in DOMAIN log' /\ log'[i] = log[i]
  BY <1>1, <1>7, <1>9, <1>10
<1>12. ASSUME NEW i \in DOMAIN log' \ DOMAIN log
       PROVE  /\ i - Len(log) \in 1 .. Len(said)
              /\ log'[i] = more[i - Len(log)]
  <2>1. i \in 1 .. Len(log) + Len(said) /\ i \notin 1 .. Len(log)
    BY <1>7, <1>9, <1>10
  <2>2. i > Len(log)
    BY <1>7, <2>1
  <2> QED BY <1>1, <1>7, <1>9, <2>1, <2>2
<1>13. \A i \in DOMAIN log' \ DOMAIN log :
         /\ log'[i].life = life /\ log'[i].kind = said[i - Len(log)]
         /\ log'[i].code = code /\ log'[i].id = id
  <2>1. \A j \in 1 .. Len(said) : /\ more[j].life = life /\ more[j].kind = said[j]
                                  /\ more[j].code = code /\ more[j].id = id
    <3> SUFFICES ASSUME NEW j \in 1 .. Len(said)
                 PROVE  /\ more[j].life = life /\ more[j].kind = said[j]
                        /\ more[j].code = code /\ more[j].id = id
      OBVIOUS
    <3> DEFINE e == [life |-> life, id |-> id, kind |-> said[j], code |-> code]
    <3>1. e.life = life /\ e.kind = said[j] /\ e.code = code /\ e.id = id
      OBVIOUS
    <3>2. more[j] = e
      BY <1>6
    <3> QED BY <3>1, <3>2, Zenon
  <2> QED BY <1>12, <2>1
<1> QED BY <1>1, <1>7, <1>9, <1>10, <1>11, <1>12, <1>13 DEF id, code, said

LEMMA TypeStep == Inv /\ [Next]_vars => TypeOK'
<1> SUFFICES ASSUME Inv, [Next]_vars PROVE TypeOK'
  OBVIOUS
<1>1. CASE Rest
  BY <1>1 DEF Rest, Inv, TypeOK
<1>2. ASSUME NEW r, NEW o, NEW life, Advance(r, o, life)
      PROVE  TypeOK'
  <2>1. /\ receiver' \in ReceiverRecords /\ files' \in Filestores
        /\ openings' \in 0 .. MaxOpenings
    <3>1. o.receiver \in ReceiverRecords /\ o.files \in Filestores /\ openings' \in 1 .. MaxOpenings
      BY <1>2 DEF Advance, Outcome
    <3>2. openings' \in 0 .. MaxOpenings
      BY <3>1, ReceiverAssumption
    <3> QED BY <1>2, <3>1, <3>2, AdvanceLogs
  <2>2. \E D \in SUBSET FileNames : files' \in [D -> Seq(Word)]
    BY <2>1, FilestoresType
  <2>3. timer' \in [armed : BOOLEAN, id : Ids]
    <3>1. o.receiver.id \in Ids /\ Becomes(o, life)
      BY <1>2 DEF Advance, Outcome, ReceiverRecords
    <3> QED BY <3>1, TimerTaken
  <2>4. log' \in Seq(LogEntries)
    BY <1>2, AdvanceGrows
  <2>5. errors' \subseteq (0 .. MaxOpenings) \X ErrorTypes
    <3>1. o.wrong \subseteq ErrorTypes /\ "TIMER_ERROR" \in ErrorTypes
      BY <1>2 DEF Advance, Outcome, ErrorTypes
    <3>2. life \in 0 .. MaxOpenings
      BY <1>2, ReceiverAssumption DEF Advance
    <3>3. \A e \in ErrorTypes : <<life, e>> \in (0 .. MaxOpenings) \X ErrorTypes
      BY <3>2
    <3>4. errors \subseteq (0 .. MaxOpenings) \X ErrorTypes
      BY TypeFacts DEF Inv
    <3> QED BY <1>2, <3>1, <3>3, <3>4, AdvanceLogs
  <2> QED BY <2>1, <2>2, <2>3, <2>4, <2>5 DEF TypeOK, LogEntries
<1> QED BY <1>1, <1>2, StepCases

LEMMA ConsistentStep == Inv /\ [Next]_vars => Consistent'
<1> SUFFICES ASSUME Inv, [Next]_vars PROVE Consistent'
  OBVIOUS
<1>1. CASE Rest
  BY <1>1 DEF Rest, Inv, Consistent, Active, ReceivedIsStored, ActiveIsWatched
<1>2. ASSUME NEW r, NEW o, NEW life, Advance(r, o, life)
      PROVE  Consistent'
  <2>1. receiver' = o.receiver /\ files' = o.files /\ openings' = life
    BY <1>2, AdvanceLogs
  <2>2. receiver'.id \in Transactions /\ openings' > 0
    BY <1>2, <2>1, AdvanceLogs
  <2>3. ReceivedIsStored'
    BY <1>2, <2>1 DEF Advance, Outcome, Stored, ReceivedIsStored, Active
  <2>4. ActiveIsWatched'
    <3>1. Becomes(o, life) /\ o.receiver.id \in Ids
      BY <1>2 DEF Advance, Outcome, ReceiverRecords
    <3> QED BY <2>1, <3>1, TimerTaken DEF ActiveIsWatched
  <2> QED BY <2>2, <2>3, <2>4 DEF Consistent
<1> QED BY <1>1, <1>2, StepCases

LEMMA InvInit == Init => Inv
<1> SUFFICES ASSUME Init PROVE Inv
  OBVIOUS
<1>1. files \in [{} -> Seq(Word)]
  BY DEF Init
<1>2. receiver \in ReceiverRecords
  BY DEF Init, ReceiverRecords, ReceiverStates, Ids, Names, Codes
<1>3. timer \in [armed : BOOLEAN, id : Ids]
  BY DEF Init, Ids
<1>4. openings \in 0 .. MaxOpenings
  BY ReceiverAssumption DEF Init
<1>5. TypeOK
  BY <1>1, <1>2, <1>3, <1>4, EmptySeq DEF Init, TypeOK
<1>6. ~Active
  BY DEF Init, Active
<1> QED BY <1>5, <1>6 DEF Inv, Consistent, ReceivedIsStored, ActiveIsWatched

THEOREM Invariance == Spec => []Inv
<1>1. Inv /\ [Next]_vars => Inv'
  BY TypeStep, ConsistentStep DEF Inv
<1> QED BY <1>1, InvInit, PTL DEF Spec

\* Every variable of the receiver keeps its type.
THEOREM TypeCorrect == Spec => []TypeOK
<1>1. Inv => TypeOK
  BY DEF Inv
<1> QED BY <1>1, Invariance, PTL

\* A machine that waits for the network is watched by a timer that will name its
\* transaction: receiver_machine_init, receiver_machine_update_state and
\* receiver_timer_restart, whatever PDUs, requests and failures come.
THEOREM WaitingIsWatched == Spec => []ActiveIsWatched
<1>1. Inv => ActiveIsWatched
  BY DEF Inv, Consistent
<1> QED BY <1>1, Invariance, PTL

\* The size that is compared at EOF speaks of octets that are in the file:
\* transaction_store_data_to_file and E11.
THEOREM CountedIsStored == Spec => []ReceivedIsStored
<1>1. Inv => ReceivedIsStored
  BY DEF Inv, Consistent
<1> QED BY <1>1, Invariance, PTL

-----------------------------------------------------------------------------
(***************************************************************************)
(* Files.                                                                   *)
(***************************************************************************)
FilesGuarded ==
  files' # files =>
    /\ receiver.state = "WAIT_FOR_EOF"
    /\ openings' = openings
    /\ Deleted(files', receiver.destination_filename)
         = Deleted(files, receiver.destination_filename)
    /\ receiver.destination_filename \notin DOMAIN files' =>
         /\ Len(log') = Len(log) + 2
         /\ log'[Len(log) + 1].kind = "EOF_RECV"
         /\ log'[Len(log) + 2].kind = "FINISHED"
         /\ log'[Len(log) + 2].code = "cancel_request_received"

LEMMA FilesStep == Inv /\ [Next]_vars => FilesGuarded
<1> SUFFICES ASSUME Inv, [Next]_vars, files' # files
             PROVE  /\ receiver.state = "WAIT_FOR_EOF"
                    /\ openings' = openings
                    /\ Deleted(files', receiver.destination_filename)
                         = Deleted(files, receiver.destination_filename)
                    /\ receiver.destination_filename \notin DOMAIN files' =>
                         /\ Len(log') = Len(log) + 2
                         /\ log'[Len(log) + 1].kind = "EOF_RECV"
                         /\ log'[Len(log) + 2].kind = "FINISHED"
                         /\ log'[Len(log) + 2].code = "cancel_request_received"
  BY DEF FilesGuarded
<1>1. PICK r, o, life : Advance(r, o, life)
  BY StepCases DEF Rest
<1>2. o.files = files' /\ openings' = life
  BY <1>1, AdvanceLogs
<1>3. /\ r.state = "WAIT_FOR_EOF"
      /\ Deleted(files', r.destination_filename) = Deleted(files, r.destination_filename)
      /\ r.destination_filename \notin DOMAIN files' =>
           /\ o.said = <<"EOF_RECV", "FINISHED">>
           /\ o.receiver.condition_code = "cancel_request_received"
  BY <1>1, <1>2 DEF Advance, Outcome, Guarded
<1>4. r = receiver /\ life = openings
  BY <1>1, <1>3 DEF Advance
<1>5. ASSUME r.destination_filename \notin DOMAIN files'
      PROVE  /\ Len(log') = Len(log) + 2
             /\ log'[Len(log) + 1].kind = "EOF_RECV"
             /\ log'[Len(log) + 2].kind = "FINISHED"
             /\ log'[Len(log) + 2].code = "cancel_request_received"
  <2>2. /\ Len(log) \in Nat /\ Len(log') = Len(log) + Len(o.said)
        /\ DOMAIN log = 1 .. Len(log) /\ DOMAIN log' = 1 .. Len(log')
        /\ \A i \in DOMAIN log' \ DOMAIN log :
             /\ log'[i].kind = o.said[i - Len(log)]
             /\ log'[i].code = o.receiver.condition_code
    BY <1>1, AdvanceGrows
  <2>3. /\ Len(o.said) = 2 /\ o.said[1] = "EOF_RECV" /\ o.said[2] = "FINISHED"
        /\ o.receiver.condition_code = "cancel_request_received"
    BY <1>3, <1>5
  <2>4. \A j \in {1, 2} : /\ Len(log) + j \in DOMAIN log' \ DOMAIN log
                          /\ (Len(log) + j) - Len(log) = j
    BY <2>2, <2>3
  <2>5. \A j \in {1, 2} :
          /\ log'[Len(log) + j].kind = o.said[j]
          /\ log'[Len(log) + j].code = o.receiver.condition_code
    BY <2>2, <2>4
  <2> QED BY <2>2, <2>3, <2>5
<1> QED BY <1>3, <1>4, <1>5, <1>2

\* A file changes only under the transaction that waits for its EOF and names it,
\* and is deleted only with EOF_RECV and a FINISHED that says so (E11, E12).
THEOREM FilesStayGuarded == Spec => FilesAreGuarded
<1>1. Inv /\ [Next]_vars => [FilesGuarded]_vars
  BY FilesStep
<1> QED BY <1>1, Invariance, PTL DEF Spec, FilesAreGuarded, FilesGuarded

-----------------------------------------------------------------------------
(***************************************************************************)
(* Indications.                                                             *)
(***************************************************************************)
\* What was told of the current life, by the state the machine is in.
ToldSoFar ==
  /\ \A i \in DOMAIN log : log[i].life <= openings
  /\ receiver.state = "WAIT_FOR_MD" => \A i \in DOMAIN log : log[i].life # openings
  /\ receiver.state = "WAIT_FOR_EOF" =>
       \E i \in DOMAIN log : log[i].life = openings /\ log[i].kind = "METADATA_RECV"
  /\ LifecycleOrder
  /\ NothingBeforeMetadata
  /\ EndIsReported

\* The facts of an advance about the log, free of the machine.
LEMMA AdvanceTells ==
  ASSUME Inv, ToldSoFar, NEW r, NEW o, NEW life, Advance(r, o, life)
  PROVE  /\ Tells(r, o)
         /\ r.state \in {"WAIT_FOR_MD", "WAIT_FOR_EOF"}
         /\ life \in Nat /\ openings \in Nat /\ openings <= life
         /\ \A i \in DOMAIN log : log[i].life <= life
         /\ r.state = "WAIT_FOR_MD" => \A i \in DOMAIN log : log[i].life # life
         /\ r.state = "WAIT_FOR_EOF" =>
              \E i \in DOMAIN log : log[i].life = life /\ log[i].kind = "METADATA_RECV"
         /\ \A i \in DOMAIN log : log[i].life = life => log[i].kind \notin Ends
         /\ Len(log) \in Nat /\ DOMAIN log = 1 .. Len(log) /\ DOMAIN log' = 1 .. Len(log')
         /\ Len(log') = Len(log) + Len(o.said) /\ Len(o.said) \in Nat
         /\ DOMAIN o.said = 1 .. Len(o.said)
         /\ \A i \in DOMAIN log : i \in DOMAIN log' /\ log'[i] = log[i] /\ log[i].life \in Nat
         /\ \A i \in DOMAIN log' \ DOMAIN log :
              /\ i - Len(log) \in DOMAIN o.said
              /\ log'[i].life = life /\ log'[i].kind = o.said[i - Len(log)]
<1>1. /\ r.state \in {"WAIT_FOR_MD", "WAIT_FOR_EOF"} /\ Tells(r, o)
      /\ life \in Nat /\ openings \in Nat
      /\ \/ r = receiver /\ life = openings
         \/ r.state = "WAIT_FOR_MD" /\ life = openings + 1
  BY TypeFacts DEF Advance, Outcome, Serving, ReceiverRecords, ReceiverStates, Inv
<1>0. /\ Len(log) \in Nat /\ DOMAIN log = 1 .. Len(log) /\ DOMAIN log' = 1 .. Len(log')
      /\ Len(log') = Len(log) + Len(o.said) /\ Len(o.said) \in Nat
      /\ DOMAIN o.said = 1 .. Len(o.said)
      /\ \A i \in DOMAIN log : i \in DOMAIN log' /\ log'[i] = log[i]
      /\ \A i \in DOMAIN log' \ DOMAIN log :
           /\ i - Len(log) \in DOMAIN o.said
           /\ log'[i].life = life /\ log'[i].kind = o.said[i - Len(log)]
  BY AdvanceGrows
<1>2. log \in Seq(LogEntries)
  BY DEF Inv, TypeOK, LogEntries
<1>3. \A i \in DOMAIN log : log[i] \in LogEntries
  BY <1>2, ElementOfSeq, LenProperties
<1>4. \A i \in DOMAIN log : log[i].life \in Nat
  BY <1>3, ReceiverAssumption DEF LogEntries
<1>5. \A i \in DOMAIN log : log[i].life <= openings
  BY DEF ToldSoFar
<1>6. CASE r = receiver /\ life = openings
  <2>1. \A i \in DOMAIN log : log[i].life = life => log[i].kind \notin Ends
    BY <1>1, <1>6 DEF ToldSoFar, EndIsReported, EndIndicated, Active
  <2> QED BY <1>1, <1>4, <1>5, <1>6, <2>1, <1>0 DEF ToldSoFar
<1>7. CASE r.state = "WAIT_FOR_MD" /\ life = openings + 1
  <2>1. \A i \in DOMAIN log : log[i].life <= life /\ log[i].life # life
    BY <1>1, <1>4, <1>5, <1>7
  <2> QED BY <1>1, <1>4, <1>7, <2>1, <1>0
<1> QED BY <1>1, <1>6, <1>7

LEMMA ToldStep == Inv /\ ToldSoFar /\ [Next]_vars => ToldSoFar'
<1> SUFFICES ASSUME Inv, ToldSoFar, [Next]_vars PROVE ToldSoFar'
  OBVIOUS
<1>1. CASE Rest
  BY <1>1 DEF Rest, ToldSoFar, LifecycleOrder, NothingBeforeMetadata, EndIsReported,
              EndIndicated, Active
<1>2. ASSUME NEW r, NEW o, NEW life, Advance(r, o, life)
      PROVE  ToldSoFar'
  <2> DEFINE n == Len(log)
             IsNew(i) == i \in DOMAIN log' \ DOMAIN log
  <2>1. /\ receiver' = o.receiver /\ openings' = life
        /\ \A e \in o.wrong : <<life, e>> \in errors'
        /\ o.receiver.state \in ReceiverStates
    BY <1>2, AdvanceLogs DEF Advance, Outcome, ReceiverRecords
  <2>2. /\ life \in Nat
        /\ \A i \in DOMAIN log : log[i].life <= life /\ log[i].life \in Nat
        /\ r.state = "WAIT_FOR_MD" => \A i \in DOMAIN log : log[i].life # life
        /\ r.state = "WAIT_FOR_EOF" =>
             \E i \in DOMAIN log : log[i].life = life /\ log[i].kind = "METADATA_RECV"
        /\ \A i \in DOMAIN log : log[i].life = life => log[i].kind \notin Ends
        /\ r.state \in {"WAIT_FOR_MD", "WAIT_FOR_EOF"}
    BY <1>2, AdvanceTells
  <2>3. /\ n \in Nat /\ DOMAIN log = 1 .. n /\ DOMAIN log' = 1 .. Len(log')
        /\ Len(log') = n + Len(o.said) /\ Len(o.said) \in Nat
        /\ DOMAIN o.said = 1 .. Len(o.said)
        /\ \A i \in DOMAIN log : i \in DOMAIN log' /\ log'[i] = log[i]
    BY <1>2, AdvanceTells
  <2>4. \A i : IsNew(i) =>
          /\ i \in Nat /\ n < i /\ i - n \in DOMAIN o.said
          /\ log'[i].life = life /\ log'[i].kind = o.said[i - n]
    <3>1. \A i : IsNew(i) => i \in Nat /\ n < i
      BY <2>3
    <3> QED BY <1>2, <3>1, AdvanceTells
  <2>5. \A j \in DOMAIN o.said : IsNew(n + j) /\ (n + j) - n = j
    BY <2>3
  <2>6. Tells(r, o)
    BY <1>2, AdvanceTells
  <2>7. \A i \in DOMAIN log' : i \in DOMAIN log \/ IsNew(i)
    OBVIOUS
  <2>8. \A i \in DOMAIN log' : log'[i].life <= life /\ log'[i].life \in Nat
    BY <2>2, <2>3, <2>4, <2>7
  <2>9. o.receiver.state = "WAIT_FOR_MD" => \A i \in DOMAIN log' : log'[i].life # life
    <3>1. SUFFICES ASSUME o.receiver.state = "WAIT_FOR_MD"
                   PROVE  \A i \in DOMAIN log' : log'[i].life # life
      OBVIOUS
    <3>2. r.state = "WAIT_FOR_MD" /\ o.said = <<>>
      BY <2>6, <3>1 DEF Tells
    <3>3. DOMAIN o.said = {}
      BY <3>2
    <3>4. \A i : ~IsNew(i)
      BY <2>4, <3>3
    <3> QED BY <2>2, <2>3, <2>7, <3>2, <3>4
  <2>10. o.receiver.state = "WAIT_FOR_EOF" =>
           \E i \in DOMAIN log' : log'[i].life = life /\ log'[i].kind = "METADATA_RECV"
    <3>1. CASE r.state = "WAIT_FOR_EOF"
      BY <2>2, <2>3, <3>1
    <3>2. CASE 1 \in DOMAIN o.said /\ o.said[1] = "METADATA_RECV"
      <4>1. IsNew(n + 1) /\ log'[n + 1].life = life /\ log'[n + 1].kind = "METADATA_RECV"
        BY <2>4, <2>5, <3>2
      <4> QED BY <4>1
    <3> QED BY <2>6, <3>1, <3>2 DEF Tells
  <2>11. LifecycleOrder'
    <3> SUFFICES ASSUME NEW i \in DOMAIN log', NEW j \in DOMAIN log', i < j
                 PROVE  /\ log'[i].life <= log'[j].life
                        /\ log'[i].life = log'[j].life =>
                             log'[i].kind \notin Ends /\ log'[j].kind # "METADATA_RECV"
      BY DEF LifecycleOrder
    <3>1. CASE i \in DOMAIN log /\ j \in DOMAIN log
      BY <2>3, <3>1 DEF ToldSoFar, LifecycleOrder
    <3>2. CASE i \in DOMAIN log /\ IsNew(j)
      <4>1. log'[i] = log[i] /\ log'[j].life = life /\ log[i].life <= life
            /\ log'[j].kind = o.said[j - n] /\ j - n \in DOMAIN o.said
        BY <2>2, <2>3, <2>4, <3>2
      <4>2. log[i].life = life => log[i].kind \notin Ends /\ r.state # "WAIT_FOR_MD"
        BY <2>2, <3>2
      <4>3. o.said[j - n] = "METADATA_RECV" => r.state = "WAIT_FOR_MD"
        BY <2>6, <4>1 DEF Tells
      <4> QED BY <4>1, <4>2, <4>3
    <3>3. CASE IsNew(i) /\ IsNew(j)
      <4>1. /\ i - n \in DOMAIN o.said /\ j - n \in DOMAIN o.said /\ i - n < j - n
            /\ log'[i].life = life /\ log'[j].life = life
            /\ log'[i].kind = o.said[i - n] /\ log'[j].kind = o.said[j - n]
        BY <2>3, <2>4, <3>3
      <4>2. o.said[i - n] \notin Ends /\ o.said[j - n] # "METADATA_RECV"
        BY <2>6, <4>1 DEF Tells
      <4> QED BY <2>2, <4>1, <4>2
    <3>4. ~(IsNew(i) /\ j \in DOMAIN log)
      BY <2>3, <2>4
    <3> QED BY <2>7, <3>1, <3>2, <3>3, <3>4
  <2>12. NothingBeforeMetadata'
    <3> SUFFICES ASSUME NEW j \in DOMAIN log',
                        log'[j].kind \notin Ends \cup {"METADATA_RECV"}
                 PROVE  \E i \in 1 .. j - 1 : /\ log'[i].kind = "METADATA_RECV"
                                              /\ log'[i].life = log'[j].life
      BY DEF NothingBeforeMetadata
    <3>1. CASE j \in DOMAIN log
      <4>1. log'[j] = log[j]
        BY <2>3, <3>1
      <4>2. PICK i \in 1 .. j - 1 : log[i].kind = "METADATA_RECV" /\ log[i].life = log[j].life
        BY <3>1, <4>1 DEF ToldSoFar, NothingBeforeMetadata
      <4>3. i \in DOMAIN log
        BY <2>3, <3>1
      <4> QED BY <2>3, <4>1, <4>2, <4>3
    <3>2. CASE IsNew(j)
      <4>1. /\ j \in Nat /\ n < j /\ j - n \in DOMAIN o.said
            /\ log'[j].life = life /\ log'[j].kind = o.said[j - n]
        BY <2>4, <3>2
      <4>2. \/ r.state = "WAIT_FOR_EOF"
            \/ 1 < j - n /\ o.said[1] = "METADATA_RECV"
        BY <2>6, <4>1 DEF Tells
      <4>3. CASE r.state = "WAIT_FOR_EOF"
        <5>1. PICK i \in DOMAIN log : log[i].life = life /\ log[i].kind = "METADATA_RECV"
          BY <2>2, <4>3
        <5>2. i \in 1 .. j - 1 /\ log'[i] = log[i]
          BY <2>3, <4>1
        <5> QED BY <4>1, <5>1, <5>2
      <4>4. CASE 1 < j - n /\ o.said[1] = "METADATA_RECV"
        <5>1. 1 \in DOMAIN o.said /\ n + 1 \in 1 .. j - 1
          BY <2>3, <4>1, <4>4
        <5>2. log'[n + 1].kind = "METADATA_RECV" /\ log'[n + 1].life = life
          BY <2>4, <2>5, <4>4, <5>1
        <5> QED BY <4>1, <5>1, <5>2
      <4> QED BY <4>2, <4>3, <4>4
    <3> QED BY <2>7, <3>1, <3>2
  <2>13. EndIsReported'
    <3>1. ASSUME o.receiver.state # "COMPLETED", NEW i \in DOMAIN log', log'[i].life = life
          PROVE  log'[i].kind \notin Ends
      <4>1. CASE i \in DOMAIN log
        BY <2>2, <2>3, <3>1, <4>1
      <4>2. CASE IsNew(i)
        <5>1. i - n \in DOMAIN o.said /\ log'[i].kind = o.said[i - n]
          BY <2>4, <4>2
        <5>2. o.receiver.state = "WAIT_FOR_EOF"
          BY <2>1, <2>9, <3>1 DEF ReceiverStates
        <5> QED BY <2>6, <5>1, <5>2 DEF Tells
      <4> QED BY <2>7, <4>1, <4>2
    <3>2. ASSUME o.receiver.state = "COMPLETED"
          PROVE  \/ \E i \in DOMAIN log' : log'[i].life = life /\ log'[i].kind \in Ends
                 \/ <<life, "FILESTORE_ERROR">> \in errors'
      <4>1. CASE \E j \in DOMAIN o.said : o.said[j] \in Ends
        <5>1. PICK j \in DOMAIN o.said : o.said[j] \in Ends
          BY <4>1
        <5>2. IsNew(n + j) /\ log'[n + j].life = life /\ log'[n + j].kind \in Ends
          BY <2>4, <2>5, <5>1
        <5> QED BY <5>2
      <4>2. CASE "FILESTORE_ERROR" \in o.wrong
        BY <2>1, <4>2
      <4> QED BY <2>6, <3>2, <4>1, <4>2 DEF Tells
    <3> QED BY <2>1, <3>1, <3>2 DEF EndIsReported, EndIndicated, Active
  <2> QED BY <2>1, <2>8, <2>9, <2>10, <2>11, <2>12, <2>13 DEF ToldSoFar
<1> QED BY <1>1, <1>2, StepCases

LEMMA ToldInit == Init => ToldSoFar
<1> SUFFICES ASSUME Init PROVE ToldSoFar
  OBVIOUS
<1>1. DOMAIN log = {}
  BY DEF Init
<1> QED BY <1>1 DEF Init, ToldSoFar, LifecycleOrder, NothingBeforeMetadata, EndIsReported,
                    EndIndicated, Active

THEOREM ToldInvariance == Spec => []ToldSoFar
BY ToldInit, ToldStep, Invariance, PTL DEF Spec

\* The user is told of one life after the other, of each its Metadata first and once,
\* and nothing after its end: receiver_machine_update_state, whatever PDUs come.
THEOREM LivesAreToldInOrder == Spec => []LifecycleOrder
<1>1. ToldSoFar => LifecycleOrder
  BY DEF ToldSoFar
<1> QED BY <1>1, ToldInvariance, PTL

\* EOF_RECV and the answers to messages follow the Metadata of their life: E10, E12.
THEOREM MetadataComesFirst == Spec => []NothingBeforeMetadata
<1>1. ToldSoFar => NothingBeforeMetadata
  BY DEF ToldSoFar
<1> QED BY <1>1, ToldInvariance, PTL

\* A life is closed exactly when its end was told, or the filestore failed it.
THEOREM EveryEndIsReported == Spec => []EndIsReported
<1>1. ToldSoFar => EndIsReported
  BY DEF ToldSoFar
<1> QED BY <1>1, ToldInvariance, PTL

-----------------------------------------------------------------------------
(***************************************************************************)
(* Listings.                                                                *)
(***************************************************************************)
\* The listings put of this life stand in the log as their requests stand in the
\* message list, from some place n on: all of them once the machine waits for the
\* EOF, none while it waits for Metadata.
PlacedFrom(n) ==
  /\ \A i \in Of("LISTING_PUT") : i - n \in Requests(receiver)
  /\ receiver.state = "WAIT_FOR_EOF" =>
       \A j \in Requests(receiver) : n + j \in Of("LISTING_PUT")

Placed ==
  /\ \E n \in Nat : PlacedFrom(n)
  /\ receiver.state = "WAIT_FOR_MD" => Of("LISTING_PUT") = {}

\* An advance keeps the listings of the life or, from Metadata, makes the first.
LEMMA PlacedAdvance ==
  ASSUME Inv, ToldSoFar, Placed, NEW r, NEW o, NEW life, Advance(r, o, life)
  PROVE  Placed'
<1> DEFINE Puts == {j \in DOMAIN o.said : o.said[j] = "LISTING_PUT"}
<1>1. /\ receiver' = o.receiver /\ openings' = life
      /\ Tells(r, o) /\ Answering(r, o)
      /\ Requests(o.receiver) = Requests(r)
  BY AdvanceLogs DEF Advance, Outcome, SameTransaction, Requests
<1>0. PICK n : n = Len(log)   \* a constant: it is not primed with the log
  OBVIOUS
<1>2. /\ r.state \in {"WAIT_FOR_MD", "WAIT_FOR_EOF"}
      /\ r.state = "WAIT_FOR_MD" => \A i \in DOMAIN log : log[i].life # life
      /\ n \in Nat /\ DOMAIN log = 1 .. n /\ DOMAIN log' = 1 .. Len(log')
      /\ Len(log') = n + Len(o.said) /\ Len(o.said) \in Nat
      /\ DOMAIN o.said = 1 .. Len(o.said)
      /\ \A i \in DOMAIN log : i \in DOMAIN log' /\ log'[i] = log[i]
      /\ \A i \in DOMAIN log' \ DOMAIN log :
           /\ i - n \in DOMAIN o.said
           /\ log'[i].life = life /\ log'[i].kind = o.said[i - n]
  BY <1>0, AdvanceTells
<1>3. \A j \in DOMAIN o.said : n + j \in DOMAIN log' \ DOMAIN log /\ (n + j) - n = j
  BY <1>2
<1>4. \A i : i \in Of("LISTING_PUT")' <=>
              i \in DOMAIN log' /\ log'[i].life = life /\ log'[i].kind = "LISTING_PUT"
  BY <1>1 DEF Of
<1>5. CASE r.state = "WAIT_FOR_MD"
  <2>1. \A i \in Of("LISTING_PUT")' : i \in DOMAIN log' \ DOMAIN log /\ i - n \in Puts
    BY <1>2, <1>4, <1>5
  <2>2. \A j \in Puts : n + j \in Of("LISTING_PUT")'
    BY <1>2, <1>3, <1>4
  <2>3. \A j \in Puts : j - 1 \in Requests(r)
    BY <1>1 DEF Answering
  <2>4. \A i \in Of("LISTING_PUT")' : i - (n + 1) \in Requests(o.receiver)
    <3> SUFFICES ASSUME NEW i \in Of("LISTING_PUT")'
                 PROVE  i - (n + 1) \in Requests(o.receiver)
      OBVIOUS
    <3>1. (i - n) - 1 \in Requests(r)
      BY <2>1, <2>3
    <3>2. i \in Nat
      BY <1>2, <2>1
    <3>3. (i - n) - 1 = i - (n + 1)
      BY <1>2, <3>2
    <3> QED BY <1>1, <3>1, <3>3
  <2>5. ASSUME o.receiver.state = "WAIT_FOR_EOF", NEW j \in Requests(o.receiver)
        PROVE  (n + 1) + j \in Of("LISTING_PUT")'
    <3>1. 1 + j \in Puts
      BY <1>1, <1>5, <2>5 DEF Answering
    <3>2. n + (1 + j) \in Of("LISTING_PUT")'
      BY <2>2, <3>1
    <3>3. j \in Int
      <4>1. 1 + j \in 1 .. Len(o.said)
        BY <1>2, <3>1
      <4>2. r.messages \in Seq(MessageTypes)
        BY ReceiverAssumption, EmptySeq DEF Advance, Serving, ReceiverRecords
      <4>3. DOMAIN r.messages \subseteq Int
        BY <4>2, LenProperties
      <4> QED BY <1>1, <2>5, <4>3 DEF Requests
    <3>4. n + (1 + j) = (n + 1) + j
      BY <1>2, <3>3
    <3> QED BY <3>2, <3>4
  <2>6. PlacedFrom(n + 1)'
    BY <1>1, <2>4, <2>5 DEF PlacedFrom
  <2>7. receiver'.state = "WAIT_FOR_MD" => Of("LISTING_PUT")' = {}
    <3>1. receiver'.state = "WAIT_FOR_MD" => DOMAIN o.said = {}
      BY <1>1 DEF Tells
    <3> QED BY <2>1, <3>1
  <2> QED BY <1>2, <2>6, <2>7 DEF Placed
<1>6. CASE r.state = "WAIT_FOR_EOF"
  <2>1. r = receiver /\ life = openings
    BY <1>6 DEF Advance
  <2>2. \A j \in DOMAIN o.said : o.said[j] # "LISTING_PUT"
    BY <1>1, <1>6 DEF Answering
  <2>3. Of("LISTING_PUT")' = Of("LISTING_PUT")
    <3>1. \A i : i \in Of("LISTING_PUT")' <=> i \in Of("LISTING_PUT")
      BY <1>2, <1>4, <2>1, <2>2 DEF Of
    <3> QED BY <3>1
  <2>4. PICK m \in Nat : PlacedFrom(m)
    BY DEF Placed
  <2>5. PlacedFrom(m)'
    BY <1>1, <1>6, <2>1, <2>3, <2>4 DEF PlacedFrom
  <2>6. receiver'.state # "WAIT_FOR_MD"
    BY <1>1, <1>6 DEF Tells
  <2> QED BY <2>5, <2>6 DEF Placed
<1> QED BY <1>2, <1>5, <1>6

LEMMA PlacedStep == Inv /\ ToldSoFar /\ Placed /\ [Next]_vars => Placed'
<1> SUFFICES ASSUME Inv, ToldSoFar, Placed, [Next]_vars PROVE Placed'
  OBVIOUS
<1>1. CASE Rest
  BY <1>1 DEF Rest, Placed, PlacedFrom, Of
<1>2. ASSUME NEW r, NEW o, NEW life, Advance(r, o, life)
      PROVE  Placed'
  BY <1>2, PlacedAdvance
<1> QED BY <1>1, <1>2, StepCases

LEMMA PlacedInit == Init => Placed
<1> SUFFICES ASSUME Init PROVE Placed
  OBVIOUS
<1>1. Of("LISTING_PUT") = {} /\ receiver.state = "COMPLETED"
  BY DEF Init, Of
<1>2. PlacedFrom(0) /\ 0 \in Nat
  BY <1>1 DEF PlacedFrom
<1> QED BY <1>1, <1>2 DEF Placed

\* What is placed is counted: the entries inject into the requests, and reach each
\* of them if the machine waits for the EOF.
LEMMA PlacedCounts == Inv /\ Placed => ListingsAnsweredOnce
<1> SUFFICES ASSUME Inv, Placed PROVE ListingsAnsweredOnce
  OBVIOUS
<1> DEFINE puts == Of("LISTING_PUT")
           requests == Requests(receiver)
<1>1. PICK n \in Nat : PlacedFrom(n)
  BY DEF Placed
<1>2. puts \subseteq Int
  <2>1. log \in Seq(LogEntries)
    BY DEF Inv, TypeOK, LogEntries
  <2>2. DOMAIN log = 1 .. Len(log) /\ Len(log) \in Nat
    BY <2>1, LenProperties
  <2> QED BY <2>2 DEF Of
<1>3. requests \subseteq Int /\ IsFiniteSet(requests)
  <2>1. receiver.messages \in Seq(MessageTypes)
    BY TypeFacts, ReceiverAssumption, EmptySeq DEF Inv, ReceiverRecords
  <2>2. DOMAIN receiver.messages = 1 .. Len(receiver.messages) /\ Len(receiver.messages) \in Nat
    BY <2>1, LenProperties
  <2>3. IsFiniteSet(1 .. Len(receiver.messages))
    BY <2>2, FS_Interval
  <2>4. requests \in SUBSET (1 .. Len(receiver.messages))
    BY <2>2 DEF Requests
  <2> QED BY <2>2, <2>3, <2>4, FS_Subset
<1>4. \A i \in puts : i - n \in requests
  BY <1>1 DEF PlacedFrom
<1>5. receiver.state = "WAIT_FOR_EOF" => \A j \in requests : n + j \in puts
  BY <1>1 DEF PlacedFrom
<1> HIDE DEF puts, requests
<1> DEFINE shift == [i \in puts |-> i - n]
<1>6. shift \in Injection(puts, requests)
  <2>1. shift \in [puts -> requests]
    BY <1>4
  <2>2. \A a, b \in puts : shift[a] = shift[b] => a = b
    BY <1>1, <1>2
  <2> HIDE DEF shift
  <2> QED BY <2>1, <2>2 DEF Injection, IsInjective
<1>7. receiver.state = "WAIT_FOR_EOF" => shift \in Surjection(puts, requests)
  <2> SUFFICES ASSUME receiver.state = "WAIT_FOR_EOF"
               PROVE  shift \in Surjection(puts, requests)
    OBVIOUS
  <2>1. shift \in [puts -> requests]
    BY <1>4
  <2>2. \A j \in requests : \E i \in puts : shift[i] = j
    <3> SUFFICES ASSUME NEW j \in requests PROVE \E i \in puts : shift[i] = j
      OBVIOUS
    <3>1. n + j \in puts /\ j \in Int
      BY <1>3, <1>5
    <3>2. shift[n + j] = j
      BY <1>1, <3>1
    <3> QED BY <3>1, <3>2
  <2> HIDE DEF shift
  <2> QED BY <2>1, <2>2 DEF Surjection
<1> HIDE DEF shift
<1>8. /\ Cardinality(puts) <= Cardinality(requests)
      /\ receiver.state = "WAIT_FOR_EOF" => Cardinality(puts) = Cardinality(requests)
  BY <1>3, <1>6, <1>7, FS_Injection
<1> QED BY <1>8 DEF ListingsAnsweredOnce, Requests, puts, requests

\* A listing is put once for each request of the Metadata, and for all of them once
\* the machine waits for the EOF: E10 and transaction_process_messages_to_user,
\* however often Metadata is delivered.
THEOREM EveryRequestIsAnswered == Spec => []ListingsAnsweredOnce
<1>1. Spec => []Placed
  BY PlacedInit, PlacedStep, Invariance, ToldInvariance, PTL DEF Spec
<1> QED BY <1>1, PlacedCounts, Invariance, PTL

-----------------------------------------------------------------------------
(***************************************************************************)
(* What a PDU does to the file, for who composes the receiver with others.   *)
(***************************************************************************)
\* What a write leaves at a place: its data, what was there, or NUL.
LEMMA WrittenWords ==
  ASSUME NEW content \in Seq(Word), NEW offset \in Nat, NEW data \in Seq(Word),
         NEW p \in DOMAIN Written(content, offset, data)
  PROVE  LET word == Written(content, offset, data)[p]
         IN  \/ p - offset \in DOMAIN data /\ word = data[p - offset]
             \/ p \in DOMAIN content /\ word = content[p]
             \/ word = 0
<1> DEFINE end == offset + Len(data)
           n == IF end > Len(content) THEN end ELSE Len(content)
<1>1. /\ Len(content) \in Nat /\ DOMAIN content = 1 .. Len(content)
      /\ Len(data) \in Nat /\ DOMAIN data = 1 .. Len(data)
  BY LenProperties
<1>2. Written(content, offset, data) =
        [i \in 1 .. n |-> IF i > offset /\ i <= end THEN data[i - offset]
                          ELSE IF i <= Len(content) THEN content[i] ELSE 0]
  BY DEF Written
<1>3. p \in 1 .. n /\ n \in Nat
  BY <1>1, <1>2
<1>4. Written(content, offset, data)[p] =
        IF p > offset /\ p <= end THEN data[p - offset]
        ELSE IF p <= Len(content) THEN content[p] ELSE 0
  BY <1>2, <1>3
<1>5. p > offset /\ p <= end => p - offset \in DOMAIN data
  BY <1>1, <1>3
<1>6. p <= Len(content) => p \in DOMAIN content
  BY <1>1, <1>3
<1> QED BY <1>4, <1>5, <1>6

\* The files a handler may leave.
FilesAfter(r, f, pdu, g) ==
  \/ g = f
  \/ g = Deleted(f, r.destination_filename)
  \/ /\ pdu.kind = "FD" /\ r.state = "WAIT_FOR_EOF" /\ Stores(r)
     /\ g = Replaced(f, r.destination_filename,
                     Written(Content(f, r.destination_filename),
                             pdu.segment_offset, pdu.file_data))

\* What it means that a handler tells EOF_RECV of a transaction that stores, and
\* leaves it without error.
CheckedBy(r, f, pdu, o) ==
  /\ pdu.kind = "EOF" /\ pdu.condition_code = "no_error"
  /\ o.files = f
  /\ Checksum(Content(f, r.destination_filename), checksum_type) = pdu.file_checksum
  /\ o.receiver.received_file_size <= pdu.file_size

Promise(r, f, pdu, o) ==
  /\ FilesAfter(r, f, pdu, o.files)
  /\ \A j \in DOMAIN o.said : o.said[j] = "EOF_RECV" =>
       /\ r.state = "WAIT_FOR_EOF"
       /\ Stores(r) /\ o.receiver.condition_code = "no_error" => CheckedBy(r, f, pdu, o)

\* A result that leaves the files and tells nothing of an EOF.
LEMMA QuietPromise ==
  ASSUME NEW r, NEW f, NEW pdu, NEW s, NEW said, NEW wrong,
         \A j \in DOMAIN said : said[j] # "EOF_RECV"
  PROVE  Promise(r, f, pdu, Result(s, f, said, wrong))
<1> DEFINE o == Result(s, f, said, wrong)
<1>1. o.files = f /\ o.said = said
  BY ResultFields
<1> HIDE DEF o
<1>2. Promise(r, f, pdu, o)
  BY <1>1 DEF Promise, FilesAfter
<1> QED BY <1>2 DEF o

LEMMA EofPromise ==
  ASSUME NEW r, NEW f, Serving(r, f), r.state = "WAIT_FOR_EOF",
         NEW pdu, pdu.kind = "EOF", pdu.condition_code = "no_error", pdu.file_size \in Nat,
         NEW o \in EofReceived(r, f, pdu)
  PROVE  Promise(r, f, pdu, o)
<1> DEFINE name == r.destination_filename
           cancelled == Close(Coded(r, "cancel_request_received"))
           finished == <<"FINISHED">>
<1>1. r \in ReceiverRecords
  BY DEF Serving
<1>2. /\ cancelled.condition_code = "cancel_request_received"
      /\ Close(cancelled).condition_code = "cancel_request_received"
      /\ Close(r).received_file_size = r.received_file_size
      /\ r.received_file_size \in Nat
  BY <1>1 DEF Close, Coded, ReceiverRecords
<1>3. ASSUME NEW s, NEW g, NEW w,
             o = [Result(s, g, finished, w) EXCEPT !.said = <<"EOF_RECV">> \o @]
      PROVE  o.receiver = s /\ o.files = g
  <2>1. o = Result(s, g, <<"EOF_RECV", "FINISHED">>, w)
    BY <1>3, EofSaid, SMTT(30)
  <2> QED BY <2>1, ResultFields
<1>4. CASE ~Stores(r)
  <2>1. o = [Result(Close(r), f, finished, {}) EXCEPT !.said = <<"EOF_RECV">> \o @]
    BY <1>4 DEF EofReceived
  <2>2. o.files = f
    BY <1>3, <2>1
  <2> QED BY <1>4, <2>2 DEF Promise, FilesAfter
<1>5. CASE Stores(r) /\ r.received_file_size > pdu.file_size
  <2>1. Fault(r, f, "file_size_error") = {Result(cancelled, f, finished, {})}
    BY FaultCancels DEF CancelReceived
  <2> HIDE DEF cancelled
  <2>2. o = [Result(cancelled, f, finished, {}) EXCEPT !.said = <<"EOF_RECV">> \o @]
    BY <1>5, <2>1 DEF EofReceived
  <2>3. o.files = f /\ o.receiver = cancelled
    BY <1>3, <2>2
  <2> QED BY <1>2, <2>3 DEF Promise, FilesAfter
<1>6. CASE /\ Stores(r) /\ ~(r.received_file_size > pdu.file_size)
           /\ transaction_get_stored_file_checksum(f, name) # pdu.file_checksum
  <2>1. PICK q \in Rejected(r, f) : o = [q EXCEPT !.said = <<"EOF_RECV">> \o @]
    BY <1>6 DEF EofReceived
  <2>2. \/ q = Result(cancelled, Deleted(f, name), finished, {})
        \/ q = Result(Close(cancelled), f, finished, {"FILESTORE_ERROR"})
    BY <2>1, RejectedResults
  <2> HIDE DEF cancelled
  <2>3. /\ o.files \in {f, Deleted(f, name)}
        /\ o.receiver.condition_code = "cancel_request_received"
    <3>1. CASE q = Result(cancelled, Deleted(f, name), finished, {})
      BY <1>2, <1>3, <2>1, <3>1
    <3>2. CASE q = Result(Close(cancelled), f, finished, {"FILESTORE_ERROR"})
      <4>1. o = [Result(Close(cancelled), f, finished, {"FILESTORE_ERROR"})
                   EXCEPT !.said = <<"EOF_RECV">> \o @]
        BY <2>1, <3>2
      <4>2. o.receiver = Close(cancelled) /\ o.files = f
        BY <1>3, <4>1
      <4> QED BY <1>2, <4>2
    <3> QED BY <2>2, <3>1, <3>2
  <2> QED BY <2>3 DEF Promise, FilesAfter
<1>7. CASE /\ Stores(r) /\ ~(r.received_file_size > pdu.file_size)
           /\ transaction_get_stored_file_checksum(f, name) = pdu.file_checksum
  <2>1. o = [Result(Close(r), f, finished, {}) EXCEPT !.said = <<"EOF_RECV">> \o @]
    BY <1>7 DEF EofReceived
  <2>2. o.files = f /\ o.receiver = Close(r)
    BY <1>3, <2>1
  <2>3. CheckedBy(r, f, pdu, o)
    BY <1>2, <1>7, <2>2 DEF CheckedBy, transaction_get_stored_file_checksum
  <2> QED BY <2>2, <2>3 DEF Promise, FilesAfter
<1> QED BY <1>4, <1>5, <1>6, <1>7

LEMMA DeliveryPromise ==
  ASSUME NEW r, NEW f, Serving(r, f), NEW pdu \in Pdus, NEW o \in DeliverPdu(r, f, pdu)
  PROVE  Promise(r, f, pdu, o)
<1>1. r.state \in {"WAIT_FOR_MD", "WAIT_FOR_EOF"} /\ r \in ReceiverRecords
  BY DEF Serving, ReceiverRecords, ReceiverStates
<1>2. /\ \A j \in DOMAIN <<>> : <<>>[j] # "EOF_RECV"
      /\ \A j \in DOMAIN <<"FINISHED">> : <<"FINISHED">>[j] # "EOF_RECV"
  OBVIOUS
<1>3. CASE pdu.kind = "EOF" /\ pdu.condition_code # "no_error"
  BY <1>2, <1>3, QuietPromise DEF DeliverPdu, FinishAtOnce
<1>4. CASE pdu.kind = "EOF" /\ pdu.condition_code = "no_error" /\ r.state = "WAIT_FOR_MD"
  BY <1>2, <1>4, QuietPromise DEF DeliverPdu, FinishAtOnce
<1>5. CASE pdu.kind = "EOF" /\ pdu.condition_code = "no_error" /\ r.state = "WAIT_FOR_EOF"
  <2>1. o \in EofReceived(r, f, pdu)
    BY <1>5 DEF DeliverPdu
  <2> QED BY <1>5, <2>1, PduTypes, EofPromise
<1>6. CASE pdu.kind = "MD" /\ r.state = "WAIT_FOR_MD"
  <2> DEFINE After(k) == <<"METADATA_RECV">> \o SaidOfFirst(k, r.messages)
             n == Len(r.messages)
  <2>1. o \in MetadataReceived(r, f)
    BY <1>6 DEF DeliverPdu
  <2>2. r.messages \in Messages \cup {<<>>} /\ n \in Nat
    <3>1. r.messages \in Messages \cup {<<>>}
      BY <1>1 DEF ReceiverRecords
    <3> QED BY <3>1, ReceiverAssumption, EmptySeq, LenProperties
  <2>3. ASSUME NEW k \in 0 .. n, NEW j \in DOMAIN After(k)
        PROVE  After(k)[j] # "EOF_RECV"
    <3>1. SaidOfFirst(k, r.messages) \in Seq(Answers)
      BY <2>2, SaidType
    <3>2. After(k)[1] = "METADATA_RECV" /\ (j # 1 => After(k)[j] \in Answers)
      BY <3>1, MetadataSaid
    <3> QED BY <3>2 DEF Answers
  <2>4. \E k \in 0 .. n : \E s, w : o = Result(s, f, After(k), w)
    <3>1. n \in 0 .. n /\ \A i \in 1 .. n : i - 1 \in 0 .. n
      BY <2>2
    <3> QED BY <2>1, <3>1 DEF MetadataReceived
  <2> HIDE DEF After
  <2> QED BY <2>3, <2>4, QuietPromise
<1>7. CASE pdu.kind = "FD" /\ r.state = "WAIT_FOR_EOF"
  <2>1. o \in FileDataReceived(r, f, pdu)
    BY <1>7 DEF DeliverPdu
  <2> DEFINE name == r.destination_filename
             g == Replaced(f, name, Written(Content(f, name), pdu.segment_offset, pdu.file_data))
  <2>2. CASE \E s, w : o = Result(s, f, <<>>, w)
    BY <1>2, <2>2, QuietPromise
  <2>3. CASE Stores(r) /\ \E s : o = Result(s, g, <<>>, {})
    <3> HIDE DEF g
    <3>1. o.files = g /\ o.said = <<>>
      BY <2>3, ResultFields
    <3> QED BY <1>7, <2>3, <3>1 DEF Promise, FilesAfter, g
  <2> QED BY <2>1, <2>2, <2>3 DEF FileDataReceived
<1>8. CASE /\ pdu.kind # "EOF"
           /\ ~(pdu.kind = "MD" /\ r.state = "WAIT_FOR_MD")
           /\ ~(pdu.kind = "FD" /\ r.state = "WAIT_FOR_EOF")
  BY <1>2, <1>8, QuietPromise DEF DeliverPdu, Unsupported
<1> QED BY <1>1, <1>3, <1>4, <1>5, <1>6, <1>7, <1>8

\* What a step makes of the machine that served the PDU: the one that waited for it,
\* or a new one.
EofChecked(pdu) ==
  /\ pdu.kind = "EOF" /\ pdu.condition_code = "no_error"
  /\ files' = files
  /\ Checksum(Content(files, receiver.destination_filename), checksum_type)
       = pdu.file_checksum
  /\ receiver'.received_file_size <= pdu.file_size

PduEffect(pdu) ==
  \/ UNCHANGED <<receiver, files, log>>
  \/ \E r :
       /\ \/ r = receiver /\ pdu.id = receiver.id
          \/ r = NewReceiver(pdu)
       /\ SameTransaction(r, receiver')
       /\ FilesAfter(r, files, pdu, files')
       /\ r = NewReceiver(pdu) => r.state # "WAIT_FOR_EOF"
       /\ \A i \in Len(log) + 1 .. Len(log') :
            /\ log'[i].id = r.id /\ log'[i].code = receiver'.condition_code
            /\ log'[i].kind = "EOF_RECV" =>
                 /\ r.state = "WAIT_FOR_EOF"
                 /\ Stores(r) /\ log'[i].code = "no_error" => EofChecked(pdu)

LEMMA PduStep ==
  ASSUME Inv, NEW pdu \in Pdus, ReceivedPdu(pdu)
  PROVE  PduEffect(pdu)
<1>1. ASSUME NEW r, NEW o, NEW life, Advance(r, o, life), Promise(r, files, pdu, o),
             \/ r = receiver /\ pdu.id = receiver.id
             \/ r = NewReceiver(pdu) /\ r.state = "WAIT_FOR_MD"
      PROVE  PduEffect(pdu)
  <2>1. receiver' = o.receiver /\ files' = o.files /\ SameTransaction(r, o.receiver)
    BY <1>1, AdvanceLogs DEF Advance, Outcome
  <2>2. /\ Len(log) \in Nat /\ Len(log') = Len(log) + Len(o.said)
        /\ DOMAIN log = 1 .. Len(log) /\ DOMAIN log' = 1 .. Len(log')
        /\ Len(o.said) \in Nat
        /\ \A i \in DOMAIN log' \ DOMAIN log :
             /\ i - Len(log) \in DOMAIN o.said
             /\ log'[i].kind = o.said[i - Len(log)]
             /\ log'[i].code = o.receiver.condition_code
             /\ log'[i].id = o.receiver.id
    BY <1>1, AdvanceGrows
  <2>3. ASSUME NEW i \in Len(log) + 1 .. Len(log')
        PROVE  /\ log'[i].id = r.id /\ log'[i].code = receiver'.condition_code
               /\ log'[i].kind = "EOF_RECV" =>
                    /\ r.state = "WAIT_FOR_EOF"
                    /\ Stores(r) /\ log'[i].code = "no_error" => CheckedBy(r, files, pdu, o)
    <3>1. i \in DOMAIN log' \ DOMAIN log
      BY <2>2
    <3>2. /\ i - Len(log) \in DOMAIN o.said
          /\ log'[i].kind = o.said[i - Len(log)]
          /\ log'[i].code = o.receiver.condition_code
          /\ log'[i].id = o.receiver.id
      BY <2>2, <3>1
    <3> QED BY <1>1, <2>1, <3>2 DEF SameTransaction, Promise
  <2>4. r.state = "WAIT_FOR_EOF" /\ CheckedBy(r, files, pdu, o) => EofChecked(pdu)
    BY <1>1, <2>1 DEF CheckedBy, EofChecked
  <2>5. FilesAfter(r, files, pdu, files')
    BY <1>1, <2>1 DEF Promise
  <2>6. r = NewReceiver(pdu) => r.state # "WAIT_FOR_EOF"
    BY DEF NewReceiver
  <2> QED BY <1>1, <2>1, <2>3, <2>4, <2>5, <2>6 DEF PduEffect
<1>2. CASE PduOfKnownTransaction(pdu)
  <2>1. PICK o \in DeliverPdu(receiver, files, pdu) : Becomes(o, openings)
    BY <1>2 DEF PduOfKnownTransaction
  <2>2. Active /\ openings' = openings /\ pdu.id = receiver.id
    BY <1>2 DEF PduOfKnownTransaction, IsRequestToReceiver
  <2>3. Serving(receiver, files) /\ receiver.id \in Transactions /\ openings \in 1 .. MaxOpenings
    BY <2>2, ActiveServes
  <2>4. Outcome(receiver, files, o) /\ Promise(receiver, files, pdu, o)
    BY <2>1, <2>3, DeliveryOutcome, DeliveryPromise
  <2>5. Advance(receiver, o, openings)
    BY <2>1, <2>2, <2>3, <2>4 DEF Advance
  <2> QED BY <1>1, <2>2, <2>4, <2>5
<1>3. CASE PduOfNewTransaction(pdu)
  <2>1. PICK o \in DeliverPdu(NewReceiver(pdu), files, pdu) : Becomes(o, openings + 1)
    BY <1>3 DEF PduOfNewTransaction
  <2>2. /\ Serving(NewReceiver(pdu), files)
        /\ NewReceiver(pdu).state = "WAIT_FOR_MD" /\ NewReceiver(pdu).id \in Transactions
    BY NewReceiverServes, TypeFacts DEF Inv
  <2>3. Outcome(NewReceiver(pdu), files, o) /\ Promise(NewReceiver(pdu), files, pdu, o)
    BY <2>1, <2>2, DeliveryOutcome, DeliveryPromise
  <2>4. openings' = openings + 1 /\ openings + 1 \in 1 .. MaxOpenings
    BY <1>3, TypeFacts DEF PduOfNewTransaction, Inv
  <2>5. Advance(NewReceiver(pdu), o, openings + 1)
    BY <2>1, <2>2, <2>3, <2>4 DEF Advance
  <2> QED BY <1>1, <2>2, <2>3, <2>5
<1>4. CASE PduRefused(pdu)
  BY <1>4 DEF PduRefused, PduEffect
<1> QED BY <1>2, <1>3, <1>4 DEF ReceivedPdu

\* Requests and the timer touch no file and tell of no EOF.
QuietEffect ==
  /\ files' = files
  /\ SameTransaction(receiver, receiver')
  /\ \A i \in Len(log) + 1 .. Len(log') : log'[i].kind # "EOF_RECV"

LEMMA QuietStep ==
  ASSUME Inv, Request \/ TimerExpired
  PROVE  QuietEffect
<1>1. ASSUME NEW id, NEW results, Handled(id, results),
             \A o \in results : Outcome(receiver, files, o) \/ ~Active,
             \A o \in results : o.files = files /\ \A j \in DOMAIN o.said : o.said[j] # "EOF_RECV"
      PROVE  QuietEffect
  <2>1. CASE Active
    <3>1. PICK o \in results : Becomes(o, openings)
      BY <1>1, <2>1 DEF Handled
    <3>2. openings' = openings /\ Outcome(receiver, files, o)
      BY <1>1, <2>1, <3>1 DEF Handled
    <3>3. Advance(receiver, o, openings)
      BY <2>1, <3>1, <3>2, ActiveServes DEF Advance
    <3>4. receiver' = o.receiver /\ files' = o.files /\ SameTransaction(receiver, o.receiver)
      BY <3>2, <3>3, AdvanceLogs DEF Outcome
    <3>5. \A i \in Len(log) + 1 .. Len(log') : log'[i].kind # "EOF_RECV"
      <4>1. /\ Len(log) \in Nat /\ DOMAIN log = 1 .. Len(log) /\ DOMAIN log' = 1 .. Len(log')
            /\ Len(log') = Len(log) + Len(o.said) /\ Len(o.said) \in Nat
            /\ \A i \in DOMAIN log' \ DOMAIN log :
                 i - Len(log) \in DOMAIN o.said /\ log'[i].kind = o.said[i - Len(log)]
        BY <3>3, AdvanceGrows
      <4>2. \A i \in Len(log) + 1 .. Len(log') : i \in DOMAIN log' \ DOMAIN log
        BY <4>1
      <4> QED BY <1>1, <3>1, <4>1, <4>2
    <3> QED BY <1>1, <3>1, <3>4, <3>5 DEF QuietEffect
  <2>2. CASE ~Active
    <3> DEFINE o == Result(receiver, files, <<>>, {})
    <3>1. Becomes(o, openings)
      BY <1>1, <2>2 DEF Handled, Idle
    <3>2. o.receiver = receiver /\ o.files = files /\ o.said = <<>>
      BY ResultFields
    <3> HIDE DEF o
    <3>3. receiver' = receiver /\ files' = files /\ log' = log
      BY <3>1, <3>2, NothingTold DEF Becomes, Inv
    <3>4. Len(log) \in Nat
      <4>1. log \in Seq(LogEntries)
        BY DEF Inv, TypeOK, LogEntries
      <4> QED BY <4>1, LenProperties
    <3> QED BY <3>3, <3>4 DEF QuietEffect, SameTransaction
  <2> QED BY <2>1, <2>2
<1>2. ASSUME NEW s, NEW said, NEW wrong, NEW o, o = Result(s, files, said, wrong),
             said \in {<<>>, <<"FINISHED">>, <<"ABANDONED">>}
      PROVE  o.files = files /\ \A j \in DOMAIN o.said : o.said[j] # "EOF_RECV"
  <2>1. o.files = files /\ o.said = said
    BY <1>2, ResultFields
  <2> QED BY <1>2, <2>1
<1>3. ASSUME NEW id, Cancel(id) PROVE QuietEffect
  <2>1. \A o \in CancelReceived(receiver, files) :
          o.files = files /\ \A j \in DOMAIN o.said : o.said[j] # "EOF_RECV"
    BY <1>2 DEF CancelReceived
  <2>2. \A o \in CancelReceived(receiver, files) : Outcome(receiver, files, o) \/ ~Active
    BY ActiveServes, CancelOutcome
  <2> QED BY <1>1, <1>3, <2>1, <2>2 DEF Cancel
<1>4. ASSUME NEW id, Abandon(id) PROVE QuietEffect
  <2>1. \A o \in AbandonReceived(receiver, files) :
          o.files = files /\ \A j \in DOMAIN o.said : o.said[j] # "EOF_RECV"
    BY <1>2 DEF AbandonReceived
  <2>2. \A o \in AbandonReceived(receiver, files) : Outcome(receiver, files, o) \/ ~Active
    BY ActiveServes, AbandonOutcome
  <2> QED BY <1>1, <1>4, <2>1, <2>2 DEF Abandon
<1>5. ASSUME NEW id, SuspendOrResume(id) PROVE QuietEffect
  <2>1. \A o \in Unsupported(receiver, files) :
          o.files = files /\ \A j \in DOMAIN o.said : o.said[j] # "EOF_RECV"
    BY <1>2 DEF Unsupported
  <2>2. \A o \in Unsupported(receiver, files) : Outcome(receiver, files, o) \/ ~Active
    BY ActiveServes, UnsupportedOutcome
  <2> QED BY <1>1, <1>5, <2>1, <2>2 DEF SuspendOrResume
<1>6. ASSUME NEW id, Report(id) PROVE QuietEffect
  <2>1. \A o \in Idle(receiver, files) :
          o.files = files /\ \A j \in DOMAIN o.said : o.said[j] # "EOF_RECV"
    BY <1>2 DEF Idle
  <2>2. \A o \in Idle(receiver, files) : Outcome(receiver, files, o) \/ ~Active
    BY ActiveServes, IdleOutcome
  <2> QED BY <1>1, <1>6, <2>1, <2>2 DEF Report
<1>7. CASE TimerExpired
  <2>1. Handled(timer.id, CancelReceived(receiver, files))
    BY <1>7, FaultCancels DEF TimerExpired
  <2>2. \A o \in CancelReceived(receiver, files) :
          o.files = files /\ \A j \in DOMAIN o.said : o.said[j] # "EOF_RECV"
    BY <1>2 DEF CancelReceived
  <2>3. \A o \in CancelReceived(receiver, files) : Outcome(receiver, files, o) \/ ~Active
    BY ActiveServes, CancelOutcome
  <2> QED BY <1>1, <2>1, <2>2, <2>3
<1> QED BY <1>3, <1>4, <1>5, <1>6, <1>7 DEF Request

-----------------------------------------------------------------------------
\* What it takes to wait for an EOF: a machine r that is served pdu and waits then.
Waits(r, f, pdu, s, g) ==
  \/ /\ pdu.kind = "MD" /\ r.state = "WAIT_FOR_MD"
     /\ s.received_file_size = r.received_file_size
     /\ g = f
  \/ /\ r.state = "WAIT_FOR_EOF" /\ pdu.kind # "EOF"
     /\ pdu.kind = "FD" /\ Stores(r) =>
          /\ s.received_file_size
               = IF r.received_file_size < pdu.segment_offset + Len(pdu.file_data)
                 THEN pdu.segment_offset + Len(pdu.file_data) ELSE r.received_file_size
          /\ g = Replaced(f, r.destination_filename,
                   Written(Content(f, r.destination_filename), pdu.segment_offset,
                           pdu.file_data))
     /\ pdu.kind # "FD" => s.received_file_size = r.received_file_size /\ g = f

\* An EOF closes the machine, and leaves a file that checks.
Accepts(r, f, pdu) ==
  /\ Stores(r)
  /\ r.received_file_size <= pdu.file_size
  /\ Checksum(Content(f, r.destination_filename), checksum_type) = pdu.file_checksum

LEMMA EofResults ==
  ASSUME NEW r \in ReceiverRecords, NEW f, NEW pdu, pdu.file_size \in Nat,
         NEW o \in EofReceived(r, f, pdu)
  PROVE  o.receiver.state = "COMPLETED" /\ (Accepts(r, f, pdu) => o.files = f)
<1> DEFINE name == r.destination_filename
           cancelled == Close(Coded(r, "cancel_request_received"))
           finished == <<"FINISHED">>
<1>1. /\ cancelled.state = "COMPLETED" /\ Close(cancelled).state = "COMPLETED"
      /\ Close(r).state = "COMPLETED" /\ r.received_file_size \in Nat
  BY DEF Close, Coded, ReceiverRecords
<1>2. ASSUME NEW s, NEW g, NEW w,
             o = [Result(s, g, finished, w) EXCEPT !.said = <<"EOF_RECV">> \o @]
      PROVE  o.receiver = s /\ o.files = g
  <2>1. o = Result(s, g, <<"EOF_RECV", "FINISHED">>, w)
    BY <1>2, EofSaid
  <2> QED BY <2>1, ResultFields
<1>3. CASE ~Stores(r)
  <2>1. o = [Result(Close(r), f, finished, {}) EXCEPT !.said = <<"EOF_RECV">> \o @]
    BY <1>3 DEF EofReceived
  <2>2. o.receiver = Close(r)
    BY <1>2, <2>1
  <2> QED BY <1>1, <1>3, <2>2 DEF Accepts
<1>4. CASE Stores(r) /\ r.received_file_size > pdu.file_size
  <2>1. Fault(r, f, "file_size_error") = {Result(cancelled, f, finished, {})}
    BY FaultCancels DEF CancelReceived
  <2> HIDE DEF cancelled
  <2>2. o = [Result(cancelled, f, finished, {}) EXCEPT !.said = <<"EOF_RECV">> \o @]
    BY <1>4, <2>1 DEF EofReceived
  <2>3. o.receiver = cancelled
    BY <1>2, <2>2
  <2> QED BY <1>1, <1>4, <2>3 DEF Accepts
<1>5. CASE /\ Stores(r) /\ ~(r.received_file_size > pdu.file_size)
           /\ transaction_get_stored_file_checksum(f, name) # pdu.file_checksum
  <2>1. PICK q \in Rejected(r, f) : o = [q EXCEPT !.said = <<"EOF_RECV">> \o @]
    BY <1>5 DEF EofReceived
  <2>2. \/ q = Result(cancelled, Deleted(f, name), finished, {})
        \/ q = Result(Close(cancelled), f, finished, {"FILESTORE_ERROR"})
    BY <2>1, RejectedResults
  <2> HIDE DEF cancelled
  <2>3. o.receiver.state = "COMPLETED"
    <3>1. CASE q = Result(cancelled, Deleted(f, name), finished, {})
      <4>1. o = [Result(cancelled, Deleted(f, name), finished, {})
                   EXCEPT !.said = <<"EOF_RECV">> \o @]
        BY <2>1, <3>1
      <4>2. o.receiver = cancelled
        BY <1>2, <4>1
      <4> QED BY <1>1, <4>2
    <3>2. CASE q = Result(Close(cancelled), f, finished, {"FILESTORE_ERROR"})
      <4>1. o = [Result(Close(cancelled), f, finished, {"FILESTORE_ERROR"})
                   EXCEPT !.said = <<"EOF_RECV">> \o @]
        BY <2>1, <3>2
      <4>2. o.receiver = Close(cancelled)
        BY <1>2, <4>1
      <4> QED BY <1>1, <4>2
    <3> QED BY <2>2, <3>1, <3>2
  <2> QED BY <1>5, <2>3 DEF Accepts, transaction_get_stored_file_checksum
<1>6. CASE /\ Stores(r) /\ ~(r.received_file_size > pdu.file_size)
           /\ transaction_get_stored_file_checksum(f, name) = pdu.file_checksum
  <2>1. o = [Result(Close(r), f, finished, {}) EXCEPT !.said = <<"EOF_RECV">> \o @]
    BY <1>6 DEF EofReceived
  <2>2. o.files = f /\ o.receiver = Close(r)
    BY <1>2, <2>1
  <2> QED BY <1>1, <2>2
<1> QED BY <1>3, <1>4, <1>5, <1>6

LEMMA DeliveryWaits ==
  ASSUME NEW r, NEW f, Serving(r, f), NEW pdu \in Pdus, NEW o \in DeliverPdu(r, f, pdu),
         o.receiver.state = "WAIT_FOR_EOF"
  PROVE  Waits(r, f, pdu, o.receiver, o.files)
<1>1. r.state \in {"WAIT_FOR_MD", "WAIT_FOR_EOF"} /\ r \in ReceiverRecords
  BY DEF Serving, ReceiverRecords, ReceiverStates
<1>2. ASSUME NEW s \in ReceiverRecords
      PROVE  Close(s).state = "COMPLETED"
  BY DEF Close, ReceiverRecords
<1>3. \A code \in Codes : Coded(r, code) \in ReceiverRecords
  BY <1>1, ClosedType
<1>4. CASE pdu.kind = "EOF" /\ r.state = "WAIT_FOR_MD" /\ pdu.condition_code = "no_error"
  <2>1. o.receiver = Close(r)
    BY <1>4, ResultFields DEF DeliverPdu, FinishAtOnce
  <2> QED BY <1>1, <1>2, <2>1
<1>5. CASE pdu.kind = "EOF" /\ pdu.condition_code # "no_error"
  <2>1. pdu.condition_code \in Codes
    BY <1>5, PduTypes
  <2>2. o.receiver = Close(Coded(r, pdu.condition_code))
    BY <1>5, ResultFields DEF DeliverPdu, FinishAtOnce
  <2> QED BY <1>2, <1>3, <2>1, <2>2
<1>6. CASE pdu.kind = "EOF" /\ pdu.condition_code = "no_error" /\ r.state = "WAIT_FOR_EOF"
  <2>1. o \in EofReceived(r, f, pdu)
    BY <1>6 DEF DeliverPdu
  <2>2. o.receiver.state = "COMPLETED"
    BY <1>1, <1>6, <2>1, EofResults, PduTypes
  <2> QED BY <2>2
<1>7. CASE pdu.kind = "MD" /\ r.state = "WAIT_FOR_MD"
  <2>1. o \in MetadataReceived(r, f)
    BY <1>7 DEF DeliverPdu
  <2>2. \/ o.receiver = [r EXCEPT !.state = "WAIT_FOR_EOF"] /\ o.files = f
        \/ o.receiver = Close(r)
    BY <2>1, ResultFields DEF MetadataReceived
  <2>3. o.receiver.received_file_size = r.received_file_size /\ o.files = f
    BY <1>1, <1>2, <2>2 DEF ReceiverRecords
  <2> QED BY <1>7, <2>3 DEF Waits
<1>8. CASE pdu.kind = "FD" /\ r.state = "WAIT_FOR_EOF"
  <2>1. o \in FileDataReceived(r, f, pdu)
    BY <1>8 DEF DeliverPdu
  <2> DEFINE end == pdu.segment_offset + Len(pdu.file_data)
             name == r.destination_filename
             g == Replaced(f, name, Written(Content(f, name), pdu.segment_offset, pdu.file_data))
             s == [r EXCEPT !.received_file_size = IF @ < end THEN end ELSE @]
  <2>2. CASE ~Stores(r)
    BY <1>8, <2>2 DEF Waits
  <2>3. CASE Stores(r)
    <3>1. (o.receiver = s /\ o.files = g) \/ o.receiver = Close(r)
      BY <2>1, <2>3, ResultFields DEF FileDataReceived
    <3>2. s.received_file_size = IF r.received_file_size < end THEN end ELSE r.received_file_size
      BY <1>1 DEF ReceiverRecords
    <3>3. o.receiver = s /\ o.files = g
      BY <1>1, <1>2, <3>1
    <3> HIDE DEF s
    <3> QED BY <1>8, <3>2, <3>3 DEF Waits
  <2> QED BY <2>2, <2>3
<1>9. CASE /\ pdu.kind # "EOF"
           /\ ~(pdu.kind = "MD" /\ r.state = "WAIT_FOR_MD")
           /\ ~(pdu.kind = "FD" /\ r.state = "WAIT_FOR_EOF")
  <2>1. o.receiver = r /\ o.files = f
    BY <1>9, ResultFields DEF DeliverPdu, Unsupported
  <2> QED BY <1>1, <1>9, <2>1 DEF Waits
<1> QED BY <1>1, <1>4, <1>5, <1>6, <1>7, <1>8, <1>9

\* EOF_RECV is told of an EOF without error, and of nothing else.
LEMMA DeliveryTells ==
  ASSUME NEW r, NEW f, Serving(r, f), NEW pdu \in Pdus, NEW o \in DeliverPdu(r, f, pdu),
         NEW j \in DOMAIN o.said, o.said[j] = "EOF_RECV"
  PROVE  /\ r.state = "WAIT_FOR_EOF"
         /\ pdu.kind = "EOF" /\ pdu.condition_code = "no_error"
         /\ Accepts(r, f, pdu) => o.files = f
<1>1. r.state = "WAIT_FOR_EOF" /\ r \in ReceiverRecords
  BY DeliveryPromise DEF Promise, Serving
<1>2. o.said # <<>> /\ o.said # <<"FINISHED">>
  OBVIOUS
<1>3. CASE pdu.kind = "EOF" /\ pdu.condition_code # "no_error"
  BY <1>2, <1>3, ResultFields DEF DeliverPdu, FinishAtOnce
<1>4. CASE pdu.kind = "FD"
  <2>1. o \in FileDataReceived(r, f, pdu)
    BY <1>1, <1>4 DEF DeliverPdu
  <2>2. o.said = <<>>
    BY <2>1, ResultFields DEF FileDataReceived
  <2> QED BY <1>2, <2>2
<1>5. CASE pdu.kind # "EOF" /\ pdu.kind # "FD"
  BY <1>1, <1>2, <1>5, ResultFields DEF DeliverPdu, Unsupported
<1>6. CASE pdu.kind = "EOF" /\ pdu.condition_code = "no_error"
  <2>1. o \in EofReceived(r, f, pdu)
    BY <1>1, <1>6 DEF DeliverPdu
  <2> QED BY <1>1, <1>6, <2>1, EofResults, PduTypes
<1> QED BY <1>3, <1>4, <1>5, <1>6

\* What a PDU leads to: it is served by the machine that works for its transaction,
\* or by a new one.
Served(pdu) ==
  \E r :
    /\ \/ r = receiver /\ Active /\ pdu.id = receiver.id
       \/ r = NewReceiver(pdu) /\ ~(pdu.id = receiver.id /\ Active)
    /\ r.id = pdu.id /\ SameTransaction(r, receiver')
    /\ FilesAfter(r, files, pdu, files')
    /\ receiver'.state = "WAIT_FOR_EOF" => Waits(r, files, pdu, receiver', files')
    /\ \A i \in Len(log) + 1 .. Len(log') :
         /\ log'[i].id = pdu.id
         /\ log'[i].kind = "EOF_RECV" =>
              /\ r.state = "WAIT_FOR_EOF"
              /\ pdu.kind = "EOF" /\ pdu.condition_code = "no_error"
              /\ Accepts(r, files, pdu) => files' = files

LEMMA PduIsServed ==
  ASSUME Inv, NEW pdu \in Pdus, pdu \notin OtherPdus, ReceivedPdu(pdu)
  PROVE  Served(pdu)
<1>1. ASSUME NEW r, NEW o \in DeliverPdu(r, files, pdu), NEW life,
             Advance(r, o, life), Serving(r, files), r.id = pdu.id,
             \/ r = receiver /\ Active /\ pdu.id = receiver.id
             \/ r = NewReceiver(pdu) /\ ~(pdu.id = receiver.id /\ Active)
      PROVE  Served(pdu)
  <2>1. receiver' = o.receiver /\ files' = o.files /\ SameTransaction(r, o.receiver)
    BY <1>1, AdvanceLogs DEF Advance, Outcome
  <2>2. /\ Len(log) \in Nat /\ Len(log') = Len(log) + Len(o.said)
        /\ DOMAIN log = 1 .. Len(log) /\ DOMAIN log' = 1 .. Len(log')
        /\ Len(o.said) \in Nat
        /\ \A i \in DOMAIN log' \ DOMAIN log :
             /\ i - Len(log) \in DOMAIN o.said
             /\ log'[i].kind = o.said[i - Len(log)]
             /\ log'[i].id = o.receiver.id
    BY <1>1, AdvanceGrows
  <2>3. ASSUME NEW i \in Len(log) + 1 .. Len(log')
        PROVE  /\ log'[i].id = pdu.id
               /\ log'[i].kind = "EOF_RECV" =>
                    /\ r.state = "WAIT_FOR_EOF"
                    /\ pdu.kind = "EOF" /\ pdu.condition_code = "no_error"
                    /\ Accepts(r, files, pdu) => files' = files
    <3>1. i \in DOMAIN log' \ DOMAIN log
      BY <2>2
    <3>2. /\ i - Len(log) \in DOMAIN o.said
          /\ log'[i].kind = o.said[i - Len(log)]
          /\ log'[i].id = o.receiver.id
      BY <2>2, <3>1
    <3>3. log'[i].id = pdu.id
      BY <1>1, <2>1, <3>2 DEF SameTransaction
    <3> QED BY <1>1, <2>1, <3>2, <3>3, DeliveryTells
  <2>4. FilesAfter(r, files, pdu, files')
    BY <1>1, <2>1, DeliveryPromise DEF Promise
  <2>5. receiver'.state = "WAIT_FOR_EOF" => Waits(r, files, pdu, receiver', files')
    BY <1>1, <2>1, DeliveryWaits
  <2> QED BY <1>1, <2>1, <2>3, <2>4, <2>5 DEF Served
<1>2. CASE PduOfKnownTransaction(pdu)
  <2>1. PICK o \in DeliverPdu(receiver, files, pdu) : Becomes(o, openings)
    BY <1>2 DEF PduOfKnownTransaction
  <2>2. Active /\ openings' = openings /\ pdu.id = receiver.id
    BY <1>2 DEF PduOfKnownTransaction, IsRequestToReceiver
  <2>3. Serving(receiver, files) /\ receiver.id \in Transactions /\ openings \in 1 .. MaxOpenings
    BY <2>2, ActiveServes
  <2>4. Outcome(receiver, files, o)
    BY <2>1, <2>3, DeliveryOutcome
  <2>5. Advance(receiver, o, openings)
    BY <2>1, <2>2, <2>3, <2>4 DEF Advance
  <2> QED BY <1>1, <2>2, <2>3, <2>5
<1>3. CASE PduOfNewTransaction(pdu)
  <2>1. PICK o \in DeliverPdu(NewReceiver(pdu), files, pdu) : Becomes(o, openings + 1)
    BY <1>3 DEF PduOfNewTransaction
  <2>2. /\ Serving(NewReceiver(pdu), files) /\ NewReceiver(pdu).id = pdu.id
        /\ NewReceiver(pdu).state = "WAIT_FOR_MD" /\ NewReceiver(pdu).id \in Transactions
    BY NewReceiverServes, TypeFacts DEF Inv
  <2>3. Outcome(NewReceiver(pdu), files, o)
    BY <2>1, <2>2, DeliveryOutcome
  <2>4. /\ openings' = openings + 1 /\ openings + 1 \in 1 .. MaxOpenings
        /\ ~(pdu.id = receiver.id /\ Active)
    BY <1>3, TypeFacts DEF PduOfNewTransaction, IsRequestToReceiver, Inv
  <2>5. Advance(NewReceiver(pdu), o, openings + 1)
    BY <2>1, <2>2, <2>3, <2>4 DEF Advance
  <2> QED BY <1>1, <2>2, <2>4, <2>5
<1> QED BY <1>2, <1>3 DEF ReceivedPdu, PduRefused

\* No request and no expiry makes a machine wait, or serve what it did not serve.
KeepsWaiting ==
  /\ files' = files
  /\ receiver'.state # "COMPLETED" =>
       /\ receiver.state = receiver'.state
       /\ SameTransaction(receiver, receiver')
       /\ receiver'.received_file_size = receiver.received_file_size
  /\ \A i \in Len(log) + 1 .. Len(log') : log'[i].kind # "EOF_RECV"

LEMMA QuietKeepsWaiting ==
  ASSUME Inv, Request \/ TimerExpired
  PROVE  KeepsWaiting
<1>1. QuietEffect /\ receiver \in ReceiverRecords
  BY QuietStep, TypeFacts DEF Inv
<1>2. ASSUME NEW s \in ReceiverRecords
      PROVE  Close(s).state = "COMPLETED"
  BY DEF Close, ReceiverRecords
<1>3. Close(receiver).state = "COMPLETED"
  BY <1>1, <1>2
<1>4. Close(Coded(receiver, "cancel_request_received")).state = "COMPLETED"
  <2>1. Coded(receiver, "cancel_request_received") \in ReceiverRecords
    BY <1>1, ClosedType DEF Codes
  <2> QED BY <1>2, <2>1
<1>5. ASSUME NEW id, NEW results, Handled(id, results),
             \A o \in results : o.receiver = receiver \/ o.receiver.state = "COMPLETED"
      PROVE  receiver' = receiver \/ receiver'.state = "COMPLETED"
  <2>1. PICK o \in (IF Active THEN results ELSE Idle(receiver, files)) : Becomes(o, openings)
    BY <1>5 DEF Handled
  <2>2. \A p \in Idle(receiver, files) : p.receiver = receiver
    BY ResultFields DEF Idle
  <2>3. receiver' = o.receiver
    BY <2>1 DEF Becomes
  <2> QED BY <1>5, <2>1, <2>2, <2>3
<1>6. \A o \in CancelReceived(receiver, files) : o.receiver.state = "COMPLETED"
  BY <1>4, ResultFields DEF CancelReceived
<1>7. \A o \in AbandonReceived(receiver, files) : o.receiver.state = "COMPLETED"
  BY <1>3, ResultFields DEF AbandonReceived
<1>8. \A o \in Unsupported(receiver, files) \cup Idle(receiver, files) : o.receiver = receiver
  BY ResultFields DEF Unsupported, Idle
<1>9. receiver' = receiver \/ receiver'.state = "COMPLETED"
  <2>1. CASE Request
    <3>1. PICK id \in Transactions :
            Cancel(id) \/ Abandon(id) \/ SuspendOrResume(id) \/ Report(id)
      BY <2>1 DEF Request
    <3> QED BY <1>5, <1>6, <1>7, <1>8, <3>1 DEF Cancel, Abandon, SuspendOrResume, Report
  <2>2. CASE TimerExpired
    <3>1. Fault(receiver, files, "inactivity_detected") = CancelReceived(receiver, files)
      BY FaultCancels
    <3> QED BY <1>5, <1>6, <2>2, <3>1 DEF TimerExpired
  <2> QED BY <2>1, <2>2
<1> QED BY <1>1, <1>9 DEF QuietEffect, KeepsWaiting
=============================================================================

# Verification of n7s-cfdp

TLA+ models of the CFDP Class 1 (unacknowledged) entity in `src/src`, model-checked with
TLC and proved with TLAPS. Paths below are relative to the repository.

## The system

One *entity* (`struct cfdp_core`) holds one sender machine and one receiver machine and
is driven by calls of its application. It has no thread of its own: every call runs to its
end in the caller's context, and what it needs from outside it gets from function pointers.

| Part | State it keeps | Operations | Calls |
|---|---|---|---|
| Core, `cfdp_core.c` | sequence number, listing buffer, shared buffers for event and PDU | `put`, `cancel`, `suspend`, `resume`, `report`, `freeze`, `thaw`, `received_pdu`, `transport_is_ready_callback`, fault handler | both machines, by transaction id, the sender first |
| Sender machine, `sender_machine.c` | state, transaction (names, size, position), condition code, suspended, frozen | events E0-E4, E30-E34, E40, E41 | transport, filestore, the core (it issues E1 to itself) |
| Receiver machine, `receiver_machine.c` | state, transaction, condition code, received size | events E0, E2, E3, E10-E13, E27, E33, E34 | filestore, timer, core (fault handler) |
| Inactivity timer, `receiver_timer.c` | transaction id, timeout | restart, stop (never called), expired | the core (E27) |
| Transaction, `transaction.c` | none of its own | size, checksum, segment, store, delete, messages to the user | filestore, `cfdp_core_put` for listings |
| Codec, `dataview/` and parts of `cfdp_core.c`, `sender_machine.c` | none | encode, decode, determinant, TLV | - |

What is hard here is order, not size. The segment loop of the sender stops at three flags
and must be restarted by whichever is cleared last. The receiver takes any PDU of any
transaction in any order and forgets each transaction at its end. Every outside call may
fail. Files change between the three times they are read. There is one machine each, and a
new transaction simply takes it. `PROJECT.json` lists each hazard with its line.

What makes each part correct:

- *sender*: the stream of PDUs is well formed whatever happens (`Class1Stream`); the user is
  told of each end once and truthfully; a transfer never stands still with nobody to wake it.
- *receiver*: indications of a transaction come in order and stop at its end; files change
  only under the transaction that names them; a waiting machine is watched by its timer.
- *codec*: what is written is what is read, whatever the buffer held before, whatever the lengths;
  the length in the header fits what follows, also after the adjustments made by hand.
- *core*: a request or a PDU reaches the machine of its transaction and no other; what Class 1
  does not know changes nothing.
- *both together* (`Transfer`): a file that arrives is the file that was sent; a transfer reported
  complete is complete; files of two transfers do not mix; somebody is told of a transfer that fails.

## Modules

| Module | Models | Composed of |
|---|---|---|
| `CfdpTypes` | enumerations, fault table, PDUs, word checksum | - |
| `Class1Stream` | abstract: what may go on the wire | `CfdpTypes` |
| `SenderMachine` | sender machine, the core's requests, transaction.c as the sender uses it | `CfdpTypes`; instance of `Class1Stream` |
| `SenderMachineProofs` | theorems about `SenderMachine`: its state, what it sends and tells | `SenderMachine`, TLAPS |
| `ReceiverMachine` | receiver machine, `cfdp_core_received_pdu`, timer, filestore | `CfdpTypes` |
| `ReceiverMachineProofs` | theorems about `ReceiverMachine` | `ReceiverMachine`, TLAPS |
| `Transfer` | one entity's sender, another's receiver, the network between | instances of `SenderMachine` and `ReceiverMachine` |
| `TransferProofs` | theorems about `Transfer` | `Transfer`; instances of `SenderMachineProofs` and `ReceiverMachineProofs`, TLAPS |
| `BitQueue` | abstract: bits are appended and taken from the front | - |
| `BitStream` | `asn1crt_encoding.c`: the cursor over a buffer, written and read in fields | instance of `BitQueue` |
| `BitStreamProofs` | theorems about `BitStream` | `BitStream`, `DataInduction`, TLAPS |
| `DataInduction` | induction over naturals, and over what a recursive function computes | TLAPS |
| `Octets` | octets, big-endian numbers, bits of an octet | - |
| `PduCodec` | `dataview.c`: constraints, encoder, decoder of the PDUs, header first | `Octets` |
| `TlvCodec` | `dataview.c`: the messages to the user as TLVs | `PduCodec` |
| `Determinant` | the length of file data, taken out by the sender and put back by the receiver | `Octets` |
| `CodecProofs` | theorems about `Determinant`, `PduCodec`, `TlvCodec`: what is written is read | these, `DataInduction`, TLAPS |
| `PduChannel` | abstract: a channel that does not change a PDU | - |
| `CfdpCore` | two cores, octets on the link between them | `TlvCodec`, `Determinant`; instance of `PduChannel` |
| `CfdpCoreProofs` | theorems about `CfdpCore` | `CfdpCore`, `CodecProofs`, TLAPS |
| `Checksum` | both loops of the checksum in `transaction.c`, octet by octet | `Octets` |
| `ChecksumProofs` | theorems about `Checksum` | `Checksum`, `DataInduction`, TLAPS |
| `MCSenderMachine`, `MCReceiverMachine`, `MCTransfer`, `MCBitStream`, `MCCfdpCore`, `MCChecksum` | small instances for TLC | - |

### Grain and abstraction

A call of the library is one step, with all calls it makes inside. The one exception is
`E1_SEND_FILE_DATA`, which issues itself again for every segment: `call` in `SenderMachine`
tells that a call is running, and each activation is a step, because the transport is asked,
a PDU leaves and files may change between two activations. No request is served while a
call runs. That assumes that calls are serialised: the test programs call from two threads
without a lock, and that race is not modelled.

Files are sequences of words of the checksum (four octets), and word 0 is four NUL octets:
`strncpy` in `sender_machine_send_file_data` cuts a segment at its first NUL, which
`AsCString` models. Files of a length that is no multiple of four are left to `Checksum`.
`WordModulus` is 2^32 in the code. Names, messages and listings are members of small sets.
The header of a PDU is its transaction id. Encoding fails exactly where the constraints of
`dataview.asn` say so: an entity id with another number of octets than the sender's own
(`Encodable`) or a segment above `MaxFileData`.

### SenderMachine

`sender` is `core->sender[0]` with its transaction; `store` and `listing` are what it reads;
`wire`, `indications` and `errors` record what it has sent and told; `owed` is the transport's
duty to call back after it was not ready. Each request is an action of its name. `Put` covers
`cfdp_core_put` up to the Metadata PDU, E0 and E30 included, and starts the loop.
`Cancel` is E33 with the E3 it issues, `Suspend` E31 with E4.

### ReceiverMachine

The handlers are operators that give a *set of results* (machine, files, indications, errors),
one for each way the filestore may fail; `Becomes` applies one, together with the restart of
the timer that begins every `receiver_machine_update_state`. `ReceivedPdu` splits on what
`cfdp_core_received_pdu` asks: known and active, new, or a directive Class 1 does not know.
Each opening of the machine is a *life*, and `log` and `errors` name the life an entry belongs
to, because the same transaction id may be opened again by a late PDU. `log` keeps the order of
indications and of the listings that are put; a NOOP stands for a message that leads to nothing.

### Transfer

The state is that of both machines, each with its own requests and failures, and `arrived`, the
furthest PDU that has reached the receiver. The network has no queue of its own: `Deliver` hands a
PDU of the sender's `wire`, which is never shortened, to `Rcv!ReceivedPdu`. `NetworkFaults` says which:
without faults the next one; with `"loss"` any later one; with `"disorder"` any one, so PDUs come late
and again. `Decoded` is what the receiver reads of a Metadata PDU. Only the action that changes source
files is left out: a transfer of a file that changes has no right answer, and what the sender itself
does then is checked in `sender_safety`.

### BitStream and BitQueue

The state is the buffer with its cursor (`currentByte`, `currentBit`) and the list of fields
written since the last `BitStream_Init`. `BitStream_AppendPartialByte`, `BitStream_AppendByte`,
`BitStream_AppendNBitZero`, `BitStream_AppendBits` and the constant-size integers are operators from
one stream to the next. An octet is the set of its bits, so that the masks and shifts of the code are
intersections and translations (`Low`, `High`, `Shl`, `Shr`). `AppendField` writes a field, `Deliver` attaches
a reader to the octets that arrive, perhaps not all, `Read` takes the next field, and `Restart` initialises the
buffer for the next PDU whatever it holds.

### Octets, PduCodec, TlvCodec

`BitStream` shows that fields come out as they went in; on that ground a PDU here is a sequence of
octets, each put together from its fields at once (`OctetOf`). An encoder returns the *set* of its
outcomes: one sequence, or none where a constraint or an id length makes the code fail. A decoder
returns none, one, or many values: a choice the decoder leaves uninitialised is a choice of the model.
The decoder reads the length of file data before the data, as `cfdpCfdpPDU_ACN_Decode` does, and a buffer is
filled up with zeros to the size of its array, because the decoder of the payload may read beyond what was received.

### Checksum

`calucate_data_checksum` (over the listing buffer, when a listing is sent) and `calucate_file_checksum` (over the
filestore) are two loops that must compute the same number, which the receiver compares. One turn of a loop is a
step. A `uint32_t` is four octets (`Add` wraps). `buffer` holds whatever memory held before, `filestore_read` may
bring fewer octets than it was asked for and fail, which the code does not look at, and `CharIsSigned` is what
`(uint32_t)buffer[i]` makes of an octet of 128 or more. `ModularChecksum` is the reference: the padded file, summed
column by column. `ChecksumIsModular` has two preconditions, and each is a fact about the code:

- *Four octets or more.* `file_size - 4` wraps below, `bytes_to_read` stays 4, and what is in memory behind a short
  listing or in the buffer of a short file is summed as well.
- *No octet of 128 or more in a file*, where `char` is signed. Such an octet sets all octets before it in its word. Both ends
  of a file transfer run the same function and agree, but a listing is summed with `uint8_t` by its sender and
  with `char` by its receiver, which therefore rejects a listing with names beyond ASCII.

### Determinant

dataview.acn gives file data a length of two octets (the *determinant*) that CFDP does not have.
`RemoveDeterminant` is what `sender_machine_send_file_data` does with the encoded PDU before it sends it,
`AddDeterminant` what `cfdp_core_received_pdu` does with a datagram before it decodes it. Both adjust the two
length octets of the header by counting one at a time, with a borrow and a carry by hand.

### CfdpCore and PduChannel

Two entities at the two ends of a link, `wire` the datagrams between them as octets together with the
PDU they were made from. A datagram is delivered, delivered again, or lost. `Foreign` are PDUs of
another implementation, which may be there at any time: Class 2 PDUs, responses to listings. `Unknown` are datagrams that do
not decode. Of the machines there is what the core sees of them, whether they are open, for which
transaction and how far a file is sent; `SenderMachine` and `ReceiverMachine` hold the rest. The transport takes one PDU at a time.
`Put` is the whole put: the Metadata PDU with its messages to the user, and the EOF at once when there is no file.
`ReceivePdu` runs from the octets to the machine: determinant, decoding, mode, routing, a new receiver, the messages of
a Metadata PDU that opens it, and the put that answers a listing request.

`ImplementsChannel` maps `wire` to the PDUs it stands for and demands that what is decoded is one of them, messages
included. It is where encoder, determinant, TLVs and decoder meet, and it holds only because they agree.

Peculiarities of the code that the model keeps: the length in the header of a Metadata PDU does not count the
messages appended to it; an originating transaction id is encoded with the sender's *own* id, not that of the message;
an encoder that fails on a message drops it and the rest; at most two messages are read; requests go to the sender if its id
matches, even when it is closed.

## Runs

| Run | Instance | Shows |
|---|---|---|
| `sender_safety` | 2 puts, destinations with and without an encodable id, files of 1 and 3 words, one of them with a NUL word, a listing of 3 words, segments of 2 words, 1 suspension each | all safety properties of the sender, that it implements `Class1Stream`, and that a transfer not held for ever ends |
| `receiver_safety` | 2 transactions, 2 files, 2 lives, segments with a gap, right and wrong sizes and checksums | the safety properties of the receiver |
| `receiver_liveness` | 1 transaction, 2 lives, five different message lists | each listing request is answered once; the timer ends a transaction when the network is silent |
| `transfer_reliable` | 1 put of 3 words in two segments, no faults, all requests on both sides, 4 lives of the receiver | the file arrives as it is; every transfer is settled |
| `transfer_faulty` | the same file, loss and disorder, 3 lives | FINISHED without error, with known names, means a file that checks |
| `transfer_mixed` | 2 puts of one word to any of 2 files, loss and disorder, 2 lives | no word lands in a file it was not sent for |
| `transfer_overtaken` (violation) | as `transfer_faulty`, 2 lives | data before Metadata: FINISHED without error and no file |
| `transfer_binary` (violation) | 1 put of a file with a NUL word, no faults | binary data does not arrive |
| `bit_stream` | a buffer of 4 octets, fields of 3, 4, 7, 8 and 16 bits and an octet string, in any order and number that fits | fields come out as they went in; implements `BitQueue` |
| `checksum` | every file of up to six octets of two values, uniform ones of up to 15 | both functions give the checksum of CFDP, read nothing behind the end, and end |
| `core` | ends with ids 1 and 3; a file of 251 octets, a listing, a put to entity 300; numbers 255 and 256; Class 2 PDUs and a NAK from elsewhere | every PDU is heard as it was meant; a cancel reaches its transaction; Class 2 changes nothing |
| `listing_response` (violation) | as `core`, with responses to listings from elsewhere | an unsuccessful listing is not told |

Why the bounds are enough: with segments of two words, files of one, three and four words end with
a short first segment, a short last one and a whole one; the two lengths make a file grow and
shrink while it is being sent. Two
transactions are what it takes for one to replace the other, and nothing survives of the
one before, except the listing buffer. One suspension per transaction already gives every order
of suspend, resume, freeze, thaw and callback, because the flags carry no history. Two lives
of the receiver allow a transaction to be reopened and to be replaced; in `transfer_faulty` a third
lets EOF, data and Metadata each fall into a life of its own. In `transfer_reliable` four lives are
more than can happen: four PDUs arrive once each. In `core` a segment of 251 octets
makes a payload of 257 octets with its determinant and of 255 without, so the length borrows and carries; the second number, 256,
needs two octets where the first needed one; an id of two octets (300) meets one of one octet. Two datagrams on the link are
enough to overtake one another. `MaxPuts`, `MaxSuspensions`, `MaxOpenings`, `MaxInFlight`, `FirstNumber` and the `Count` of `BitStream` are
the only bounds in guards.

`transfer_faulty` and `transfer_mixed` use a VIEW that leaves out what is only written and read by no
guard and no property of the run (the counters of indications and the errors of the two sides). In
`transfer_mixed` the two target names are interchangeable: no guard tells them apart.

Deadlock is checked in the runs of the sender and the receiver. The runs of `Transfer` say
`CHECK_DEADLOCK FALSE`: once everything is sent and delivered and the bounds are used up, both
entities may really be at rest.

### What the violations say

Each is stated from a test or a comment of the repository; `findings` in `PROJECT.json` quotes it.

- **Overtaken Metadata.** Only a Metadata PDU that *opens* the machine has its names read
  (`handle_pdu_to_new_receiver_machine`). After a File Data PDU came first, Metadata is delivered
  as an event without names: METADATA_RECV, EOF_RECV, FINISHED `no_error`, and no file.
  `transfer_faulty` shows that this is the only way: with the names known, FINISHED is true.
- **NUL octets.** `strncpy` cuts the segment, the checksum is that of the whole file.
- **Unsuccessful listings.** `add_message_to_user_to_transaction` stores the names of a response through the layout
  of a request, and the length of the directory name lands on the response's code. Only a name of one octet
  keeps `LISTING_UNSUCCESSFUL`.

More facts of the code are modelled and are no findings: a put takes the sender over whatever it is doing (`src/src/cfdp_core.c:403`
has a TODO); a file written over a longer one of the same name keeps its tail, fails the checksum and is deleted; an empty
file is FINISHED without being created, because only File Data creates it (`WhatIsSentArrives` does not hold of it, and the runs send files with data).

One doubt is no finding: `src/src/constants.h:73` rounds the segment buffer up to
`CFDP_ALIGNMENT_SIZE`, while `src/dataview/dataview.asn:65` says the size of `FileData` can be changed.
With a size that is no multiple of 8 a whole segment could not be encoded; with the 4096 of the code it can
be. `SenderMachine` leaves both sizes to the constants, and `SegmentsCanBeEncoded` proves `SegmentsAreEncodable`
of all sizes where the one divides the other (`WholeBuffers`).

### Fairness

- A running call goes on (`WF` of `SendFileData`, `FinishWithoutFile`): it is a C call.
- A transport that said it is not ready calls `cfdp_core_transport_is_ready_callback`
  (`WF`), as the interface asks and `test_send_file_with_transport_not_ready` does.
- A transport that is asked again and again is ready some time (`SF` of a step of the loop that
  gets on). Without it the sender and the transport could ask each other for ever.
- The timer expires when it runs (`WF` of `TimerExpired`).
- In `Transfer` the network delivers what it may deliver (`WF` of `Deliver`), and the receiver's timer is
  given no fairness: `EveryTransferIsSettled` holds without it.
- Else nothing is assumed of the user or of the network: the properties name what they depend on.

## Proofs

The proof modules prove their theorems for all values of the constants that meet the named assumptions
of the modules:

- `SenderAssumption`, `ReceiverAssumption`, `EntitiesAssumption`, `NetworkAssumption`, `WordModulusAssumption`, `ChecksumAssumption`:
  the types of the constants, and that reserved names are not those of files.
- `FieldsAssumption`: a field has at least a bit and at most the 32 that an integer call takes, and a buffer has octets.
- `EndsAssumption`, `RequestsAssumption`: two ends with different ids of 32 bits, none of them 0; requests of the C types.
- `BoundsAssumption`: a segment has 1 to 4096 octets (`src/src/constants.h`), and no sequence number wraps within the `MaxPuts` puts of an end.
- `ForeignAssumption`: another implementation sends PDUs of the C types and opens no transaction in the name of the
  end that receives it. `UnknownAssumption`: what does not decode has at least the header of a CFDP PDU. Neither is a
  promise of the network: a PDU in the name of the receiver's own entity is outside what the theorems say.

What the library's induction theorems take is an operator, which no installed prover can instantiate. `DataInduction` states
induction in first-order form, over a *set* of naturals (`Minimum`, `Maximum`, `Induction`), and `Recursion` says of a
recursive *function* on `0 .. n` that its equation holds. So what a fold or a loop of the code computes is proved
for every length.

### SenderMachineProofs

| Theorem | Says |
|---|---|
| `TypeCorrect` | `TypeOK` |
| `WakeupIsNeverLost` | `NoLostWakeup` |
| `EndIsAlwaysReported` | `EndIsReported` |
| `SuspensionsBalance` | `SuspensionBalance` |
| `SenderImplementsClass1Stream` | `ImplementsClass1Stream` |

`TypeOK` is not inductive alone: that a segment has a length needs the position to be
within the file, and that a listing can be read needs the buffer to be as long as the
transaction believes. `Inv` adds `Consistent`, which relates the machine to the running call, the
sequence number and the listing buffer; `NoLostWakeup` follows from it. `Invariance` proves
`Inv` with one lemma per action. `EndIsReported` and `SuspensionBalance` count indications of
*all* transactions: `EndsInvariance` adds that a transaction not yet opened has none, and
`StepEffects` sums up once what each action does to the counters. The refinement adds to
`Inv` one lemma for each kind of step: opening, segment, closing.

What it sends and tells:

| Theorem | Says |
|---|---|
| `UserIsToldTheTruth` | `IndicationsMatchWire` |
| `HeldSenderIsQuiet` | `QuietWhileHeld` |
| `SegmentsCanBeEncoded` | `SegmentsAreEncodable`, where `WholeBuffers` |
| `RecursionIsBounded` | `RecursionBounded` |

`StepOutput` sorts every step by what leaves the sender: it announces a transaction, sends a segment, ends with an
EOF, fails, or is silent. Each theorem then needs one more invariant. `Unheld`: a machine that is about to send
Metadata is neither suspended nor frozen. `EncodingInv`: no PDU and no error names a later transaction, and the encoder has not
failed the open one. `Nesting`: each activation of the loop but the first has moved the position a whole buffer on, or has reached
the end of the file. `IndicationsMatchWire` counts PDUs: an EOF that is appended makes the set of EOFs of
its transaction one larger and leaves the others, which the theorems about finite sets give.

### ReceiverMachineProofs

| Theorem | Says |
|---|---|
| `TypeCorrect` | `TypeOK` |
| `WaitingIsWatched` | `ActiveIsWatched` |
| `CountedIsStored` | `ReceivedIsStored` |
| `FilesStayGuarded` | `FilesAreGuarded` |
| `LivesAreToldInOrder` | `LifecycleOrder` |
| `MetadataComesFirst` | `NothingBeforeMetadata` |
| `EveryEndIsReported` | `EndIsReported` |
| `EveryRequestIsAnswered` | `ListingsAnsweredOnce` |

A handler is described once: `Outcome(r, f, o)` says what a result `o` of serving machine `r` over the
files `f` may be (its types, what it tells and in which order, which file it changes, that what it
counts is stored). One lemma per handler proves it. `StepCases` then reduces every step to two cases: the
machine takes over such a result (`Advance`), or it rests (`Rest`). `Inv` adds to the types that a
machine that waits has a transaction and a life; without that a log entry would have no type.
The order of the log is not inductive alone either: `ToldSoFar` adds what was told of the current life in each
state (nothing while it waits for Metadata, METADATA_RECV once it waits for the EOF) and that no entry
is of a later life. For `EveryRequestIsAnswered` the argument is a place: `Placed` says that the listings of a life
stand in the log as their requests stand in the message list, shifted by one number. A shift is an injection, and
onto all requests when the machine waits for the EOF, so the two sets compare.

### TransferProofs

| Theorem | Says |
|---|---|
| `EntitiesBehave` | each entity behaves as its machine does by itself |
| `FilesHoldOnlyWhatWasSent` | `FilesHoldWhatWasSent` |
| `FinishedFilesCheck` | `FinishedFileChecks` |
| `TextFilesArrive` | `FilesArrive`: `WhatIsSentArrives` of each transfer before which no longer file was announced for the same name; files of text, network without faults |
| `WhatIsSentDoesArrive` | `WhatIsSentArrives`, for files of text of one size, network without faults |

What the machines do is not proved again: `SndT` and `RcvT` are instances of their proof modules, and `SameSender` and
`SameReceiver` show that their actions are those of `Transfer`. `RcvT` allows more PDUs than the network delivers (any
segment, any checksum); `Arriving` shows that each PDU on the wire is one of them. The invariant relates the wire to both ends:
`AnnouncedOnce` (a transaction is announced with one pair of names, and no PDU is of a later one),
`EofsTell` (an EOF tells size and checksum of the file announced), and `NamesAreAnnounced` (the names the receiver works with were
announced for the transaction it works for). `RcvT!PduStep` says what a PDU may do to the files, and when EOF_RECV may be told
with `no_error`. These three theorems hold for any `NetworkFaults`: an old PDU is on the wire as much as a new one.

The other two are about `NetworkFaults = {}`, and what else they assume are facts about the code. `PlainContents`: an empty file is
never created, and a NUL cuts a segment. `NoLongerBefore`: a file written over a longer one keeps its tail
(`OneSize` says so of all files, as in `transfer_reliable`; then nothing is left of the condition). Files, names, requests and
the number of puts are any. Two invariants carry the argument. `FileInSequence` is about the wire: each segment begins where the PDU
before it ends, an EOF without an error comes only after the whole file, and a sender that is sending stands at
the end of its last PDU. `FileInReceipt` is about the receiver: no file is longer than the longest one announced for its
name, and a machine that waits for the EOF holds of its file exactly what has arrived (`HasArrived`). It is inductive because a new
Metadata PDU has a higher id than all before: a machine that waits for the EOF is served by the next PDU
of its own file, or not at all.

### ChecksumProofs

| Theorem | Says |
|---|---|
| `TypeCorrect` | `TypeOK`: the sum stays in its 32 bits |
| `ReadsStayWithinFile` | `ReadsWithinFile` |
| `SumIsModular` | `ChecksumIsModular` |

The invariant is `Aligned`: the offset is a multiple of four, or the loop has ended. The arithmetic of the last word
(`LastWord`) then says that `length % 4` is what is left. `ChecksumAssumption` is all that is assumed.

`SumIsModular` needs `SumInv`: as long as the preconditions hold (`Sound`: four octets or more, no failed read, no negative `char`) the sum is the
reference sum of the file before the offset. The reference adds up columns of octets and carries once, the code adds up
words and cuts the carry off each time; `ColumnSums`, `Carry`, `CarriedAdd` and `SummedMore` show that one word
more loses the same carries in both, and `SummedAll` that at the end of the file the sums meet.

### BitStreamProofs

| Theorem | Says |
|---|---|
| `TypeCorrect` | `TypeOK` |
| `RestStaysZero` | `RestIsZero` |
| `ReadsAreTrue` | `ReadsWhatWasWritten` |
| `Refinement` | `ImplementsBitQueue` |

A stream is looked at by the bits of its *positions*, octet by octet and bit by bit. `Appended` says of a call that it puts its
bits behind the cursor and leaves all before it, `Got` that a read returns the bits behind the cursor; each call of the
run-time is shown to do one or the other for every alignment of the cursor, its loops by induction over their rounds. The
invariant is `Shape` (types), `Writer` (behind the cursor of a writer are zeros: an append ORs, so without this it would
be wrong), `Reader` (the cursor stays in the buffer), `Places` (each field written is at its place, which lies before that of the next) and
`Answer` (what was read last is the field before `next`). The queue of the refinement is the bits between the cursor and the end.

### CodecProofs

| Theorem | Says |
|---|---|
| `DeterminantRoundTrip` | `AddDeterminant` undoes `RemoveDeterminant` |
| `TransmittedLength` | the length in the header of what is sent is two less |
| `EncoderWritesDeterminant` | each File Data PDU that is encoded has its determinant where both look for it |
| `PduRead` | the decoder returns the PDU that was encoded, whatever stands behind it |
| `TlvRead` | a message is read back from wherever its TLV stands, and the next one begins at its end |

The first two hold for every File Data PDU that has the determinant where the encoder puts it (`HoldsDeterminant`), for identifiers and
segments of any length: counting down twice is subtraction on the number the two octets hold (one lemma for a step with and
one without a borrow), counting up the same; the rest of the PDU is cut and put together again. `PduRead` is about every PDU
of the C types that the encoder does not refuse. The position of each part of a PDU depends on the lengths of the parts before it. `Holds` says
that a part stands at a position, `Chain2` to `Chain7` where the parts of a concatenation stand; each codec has a lemma of
its own that reads what it wrote where it stands, down to the octets that several fields share and to
numbers of one to eight octets (by induction over their octets).

### CfdpCoreProofs

| Theorem | Says |
|---|---|
| `TypeCorrect` | `TypeOK` |
| `LengthIsThatOfThePdu` | `LengthSpansPdu` |
| `AcknowledgedClassRefused` | `Class2Refused` |
| `CancelEndsTheTransaction` | `CancelEndsWhatItNames` |
| `Refinement` | `ImplementsChannel` |

`IInv` says of each datagram on the link that an end of it wrote it (`Transmitted`): its octets come from a PDU of the C types,
under an id of that end, in the bounds of the encoder. That is inductive because what is heard is decoded from such a datagram
and leads, by a listing request, to such a PDU again; `PduRead` and `TlvRead` say that the detour over octets changes nothing. A
cancel goes to the sender if the id is the sender's, so that it ends the right machine only if
no receiver works for a transaction of its own end, which is part of the invariant (`ReceiverIs`). For the refinement a delivery is
one step `Deliver` of the channel, and a put is `Send` or, when nothing is sent, `Refuse`: it remains to show that nothing but an
identifier of the wrong length makes the encoder fail. The messages are read by a loop, and at most two are put; `MAX_NUMBER_OF_MESSAGES_TO_USER`
is the two of the code.

### Only model-checked

Liveness, which the prover cannot do: `EventuallyEnds` of the sender, the receiver and the checksum, and `EveryTransferIsSettled`.
The runs that expect a violation are TLC's as well: a counterexample needs no proof.

## Not modelled

- Threads. Calls are assumed to be serialised, though the test programs call from two threads.
- Callbacks that call the core. An indication is an output; a put from within a callback overwrites the buffers
  of the event and the PDU while they are in use (`src/src/receiver_machine.c:161`, `src/src/sender_machine.c:453`).
- The UPER, Equal and Initialize functions that asn1scc generates and nothing calls, the ACN functions of the choices, which the encoder of
  `CfdpPDU` has inlined, and variable-size, signed, real and ASCII fields of the run-time library, which no PDU has.
- Datagrams cut short by the network: the transport gives datagrams.
- The second length that the decoding of a listing response reads from memory the decoder has not written
  (`src/src/cfdp_core.c:246`): only its effect on the code is modelled, not what it may do beyond.
- Transfers of files whose length is no multiple of four: `Checksum` computes their checksum, the machines move whole words.
- The branch of `transaction_process_messages_to_user` for an unsuccessful dump (`src/src/transaction.c:272`): the dump before it returns on failure.
- The test programs, and the value of the inactivity timeout.

## Plan

1. `SenderMachine`, `Class1Stream`, `SenderMachineProofs` - done.
2. `ReceiverMachine`, `ReceiverMachineProofs` - done.
3. `Transfer` - done.
4. `BitStream`, `PduCodec`, `TlvCodec`, `Determinant`, `CfdpCore`, `Checksum`, `ChecksumProofs` - done.
5. What the sender sends and tells, `EveryRequestIsAnswered`, `TransferProofs` - done.
6. `BitStreamProofs`, `CodecProofs`, `CfdpCoreProofs`, `SumIsModular` - done.
7. `TextFilesArrive`, `WhatIsSentDoesArrive` - done.
8. Left: callbacks that call the core, and the event and PDU buffers they share.

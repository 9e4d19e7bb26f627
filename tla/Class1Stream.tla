---------------------------- MODULE Class1Stream ----------------------------
(***************************************************************************)
(* What an entity promises about the PDUs it puts on the wire in Class 1    *)
(* (unacknowledged) mode, whatever its user, its filestore and its          *)
(* transport do: transactions follow each other under increasing sequence   *)
(* numbers; each one opens with Metadata, continues with the octets of the  *)
(* file in order, without gap, overlap or excess, and if it is not broken   *)
(* off ends with exactly one EOF, which reports no error only after the     *)
(* whole of the announced file.                                             *)
(***************************************************************************)
EXTENDS CfdpTypes

CONSTANTS
  Names          \* file names, the empty one included

VARIABLES
  wire,          \* the PDUs handed to the transport, in order
  stream         \* the transaction being sent

streamVars == <<wire, stream>>

\* No transaction is open and no sequence number above `last' was used.
Closed(last) == [open |-> FALSE, id |-> last, file |-> FALSE, size |-> 0, sent |-> 0]

\* Transaction `id' is open and `sent' words of its file are on the wire.
Sending(id, file, size, sent) ==
  [open |-> TRUE, id |-> id, file |-> file, size |-> size, sent |-> sent]

Init ==
  /\ wire = <<>>
  /\ stream = Closed(0)

\* The step hands exactly one PDU to the transport, and this is it.
Posted == wire'[Len(wire')]
Posts == wire' # <<>> /\ wire' = Append(wire, Posted)

\* A new transaction takes over the wire; one still open is left without EOF.
Open ==
  /\ Posts
  /\ Posted \in MetadataPdus(Nat, Names)
  /\ Posted.id > stream.id
  /\ stream' = Sending(Posted.id,
                       IsFileTransfer(Posted.source_file_name,
                                      Posted.destination_file_name),
                       Posted.file_size, 0)

\* The next octets of the file, never beyond the announced size.
SendData ==
  /\ stream.open /\ stream.file
  /\ Posts
  /\ Posted \in FileDataPdus({stream.id})
  /\ Posted.segment_offset = stream.sent
  /\ Len(Posted.file_data) > 0
  /\ stream.sent + Len(Posted.file_data) <= stream.size
  /\ stream' = Sending(stream.id, TRUE, stream.size,
                       stream.sent + Len(Posted.file_data))

\* EOF without error: all of the file, if there is one, has been sent.
Complete ==
  /\ stream.open
  /\ stream.file => stream.sent = stream.size
  /\ Posts
  /\ Posted \in EofPdus({stream.id})
  /\ Posted.condition_code = "no_error"
  /\ stream' = Closed(stream.id)

\* EOF (cancel) may end an open transaction at any point.
Cancel ==
  /\ stream.open
  /\ Posts
  /\ Posted \in EofPdus({stream.id})
  /\ Posted.condition_code = "cancel_request_received"
  /\ stream' = Closed(stream.id)

\* The transaction ends, or a new one fails to start, without a PDU.
Abandon ==
  /\ stream'.id \in Nat
  /\ stream'.id >= stream.id
  /\ stream' = Closed(stream'.id)
  /\ UNCHANGED wire

Next == Open \/ SendData \/ Complete \/ Cancel \/ Abandon

Spec == Init /\ [][Next]_streamVars
=============================================================================

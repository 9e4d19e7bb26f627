----------------------------- MODULE PduChannel -----------------------------
(***************************************************************************)
(* What the PDU path promises: a channel of PDUs that may lose, reorder and *)
(* repeat them, and does not change one.  What an end hears was sent to it, *)
(* with its messages to the user.  A transaction is refused only when its   *)
(* header cannot be written.                                                *)
(***************************************************************************)
EXTENDS Naturals, Sequences

CONSTANTS
  Silence,     \* the last step delivered no PDU
  Unread       \* the messages were not looked at

VARIABLES
  channel,     \* the PDUs under way: [to, pdu, messages]
  heard        \* the PDU that was delivered last

vars == <<channel, heard>>

\* One length stands for both entity ids, and none may be empty or too long.
Addressable(header) ==
  /\ Len(header.source_entity_id) = Len(header.destination_entity_id)
  /\ Len(header.source_entity_id) \in 1 .. 7
  /\ Len(header.transaction_sequence_number) \in 1 .. 7

Init == (\A m \in channel : Addressable(m.pdu.pdu_header)) /\ heard = Silence

Sent == \A m \in channel' \ channel : Addressable(m.pdu.pdu_header)

SendOrLose == Sent /\ heard' = Silence

\* The delivery may repeat, and may itself cause PDUs to be sent.
Deliver(m) ==
  /\ channel \ {m} \subseteq channel' /\ Sent
  /\ \E read \in {m.messages, Unread} :
       heard' = [at |-> m.to, pdu |-> m.pdu, messages |-> read]

Refuse ==
  /\ channel' = channel
  /\ heard' # heard
  /\ heard'.messages = Unread /\ ~Addressable(heard'.pdu.pdu_header)

Next == SendOrLose \/ (\E m \in channel : Deliver(m)) \/ Refuse

Spec == Init /\ [][Next]_vars
=============================================================================

----------------------------- MODULE CfdpTypes -----------------------------
(***************************************************************************)
(* The vocabulary shared by the machines of a CFDP entity: the enumerations *)
(* of constants.h, the condition codes and PDUs of dataview.asn that Class 1 *)
(* uses, and the checksum of a file.                                        *)
(*                                                                          *)
(* A file is a sequence of 32-bit words, the unit of the modular checksum.  *)
(* Word 0 stands for four NUL octets; every other word has no NUL octet.    *)
(***************************************************************************)
EXTENDS Integers, Sequences

CONSTANTS
  WordModulus       \* 2^32: words and checksums are uint32_t

ASSUME WordModulusAssumption == WordModulus \in Nat \ {0}

Word == 0 .. WordModulus - 1

NoName == ""                       \* an empty file name
VIRTUAL_LISTING_FILENAME == ".listing"

SenderStates   == {"SEND_METADATA", "SEND_FILE", "COMPLETED"}
ReceiverStates == {"WAIT_FOR_MD", "WAIT_FOR_EOF", "COMPLETED"}

ChecksumTypes == {"CHECKSUM_TYPE_MODULAR", "CHECKSUM_TYPE_NONE"}

\* The condition codes the machines store, test or look up.
ConditionCodes == {"no_error", "file_checksum_failure", "file_size_error",
                   "inactivity_detected", "cancel_request_received"}

FaultHandlerActions == {"FAULT_HANDLER_CANCEL", "FAULT_HANDLER_SUSPEND",
                        "FAULT_HANDLER_IGNORE", "FAULT_HANDLER_ABANDON"}

\* Every code above but no_error has the entry CANCEL in the table.
DEFAULT_FAULT_HANDLER_ACTIONS ==
  [c \in ConditionCodes |-> IF c = "no_error" THEN "FAULT_HANDLER_IGNORE"
                                              ELSE "FAULT_HANDLER_CANCEL"]

ErrorTypes == {"ASN1SCC_ERROR", "UNSUPPORTED_ACTION", "FILESTORE_ERROR",
               "TRANSPORT_ERROR", "TIMER_ERROR"}

-----------------------------------------------------------------------------
(***************************************************************************)
(* The checksum of a file whose length is a whole number of words.          *)
(***************************************************************************)
ModularSum(content) ==
  LET sum[i \in 0 .. Len(content)] ==
        IF i = 0 THEN 0 ELSE (sum[i-1] + content[i]) % WordModulus
  IN  sum[Len(content)]

\* The uint32_t a sum is returned in.  A sum is a word, so the ELSE is never
\* taken: it only gives the checksum its type without an induction on content.
Uint32(sum) == IF sum \in Word THEN sum ELSE 0

Checksum(content, type) ==
  IF type = "CHECKSUM_TYPE_MODULAR" THEN Uint32(ModularSum(content)) ELSE 0

-----------------------------------------------------------------------------
(***************************************************************************)
(* The PDUs of Class 1.  The header is reduced to the transaction id.  A    *)
(* Metadata PDU carries file_size, which a Class 1 receiver stores and      *)
(* never reads.                                                             *)
(***************************************************************************)
MetadataPdu(id, size, src, dst) ==
  [kind |-> "MD", id |-> id, file_size |-> size,
   source_file_name |-> src, destination_file_name |-> dst]

FileDataPdu(id, offset, data) ==
  [kind |-> "FD", id |-> id, segment_offset |-> offset, file_data |-> data]

EofPdu(id, code, checksum, size) ==
  [kind |-> "EOF", id |-> id, condition_code |-> code,
   file_checksum |-> checksum, file_size |-> size]

MetadataPdus(Ids, Names) ==
  [kind : {"MD"}, id : Ids, file_size : Nat,
   source_file_name : Names, destination_file_name : Names]

FileDataPdus(Ids) ==
  [kind : {"FD"}, id : Ids, segment_offset : Nat, file_data : Seq(Word)]

EofPdus(Ids) ==
  [kind : {"EOF"}, id : Ids, condition_code : ConditionCodes,
   file_checksum : Word, file_size : Nat]

\* transaction_is_file_transfer_in_progress: both names are given.
IsFileTransfer(src, dst) == src # NoName /\ dst # NoName
=============================================================================

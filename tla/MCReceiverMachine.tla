------------------------- MODULE MCReceiverMachine -------------------------
(***************************************************************************)
(* Instances of ReceiverMachine for TLC.                                    *)
(***************************************************************************)
EXTENDS ReceiverMachine

\* Two segments that overlap a file in any order, with a gap between them.
MCSegments == {[segment_offset |-> 0, file_data |-> <<1>>],
               [segment_offset |-> 2, file_data |-> <<2>>]}
MCOneSegment == {[segment_offset |-> 0, file_data |-> <<1>>]}

MCNoMessages == {<<>>}

\* A listing request between two other messages, and a listing response.
MCMessages == {<<>>, <<"ORIGINATING_TRANSACTION_ID", "DIRECTORY_LISTING_REQUEST">>,
               <<"DIRECTORY_LISTING_REQUEST", "DIRECTORY_LISTING_REQUEST">>,
               <<"LISTING_SUCCESSFUL", "ORIGINATING_TRANSACTION_ID">>,
               <<"LISTING_UNSUCCESSFUL">>}
=============================================================================

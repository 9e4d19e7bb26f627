---------------------------- MODULE MCBitStream ----------------------------
(***************************************************************************)
(* An instance of BitStream for TLC.                                        *)
(***************************************************************************)
EXTENDS BitStream

T == TRUE
F == FALSE

\* Fields of the PDUs: codes of 3, 4 and 7 bits, an octet, a length and
\* octets of data, with ones at their ends so that a shift would show.
MCFields == {
  [call |-> "ConstSize", bits |-> <<F, T, T>>],
  [call |-> "ConstSize", bits |-> <<F, F, F, F>>],
  [call |-> "BitPattern", bits |-> <<T, F, F, F, F, F, T>>],
  [call |-> "ConstSize_8", bits |-> <<T, F, F, F, F, T, F, T>>],
  [call |-> "big_endian", bits |-> <<F, F, F, F, F, F, F, T, T, F, T, F, F, F, F, T>>],
  [call |-> "OctetString", bits |-> <<T, F, F, F, F, F, F, T, F, F, T, F, F, T, F, F,
                                      T, T, T, F, F, F, T, T>>]}
=============================================================================

------------------------------ MODULE MCChecksum ------------------------------
(***************************************************************************)
(* An instance of Checksum for TLC.                                         *)
(***************************************************************************)
EXTENDS Checksum

\* Every file of up to six octets out of two, and longer ones whose columns carry.
Short == UNION {[1 .. n -> {65, 255}] : n \in 0 .. 6}
Long  == {[i \in 1 .. n |-> o] : n \in 7 .. 15, o \in {127, 254}}
MCFiles == Short \cup Long
=============================================================================

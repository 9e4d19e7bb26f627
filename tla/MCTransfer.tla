----------------------------- MODULE MCTransfer -----------------------------
(***************************************************************************)
(* Instances of Transfer for TLC.                                           *)
(***************************************************************************)
EXTENDS Transfer, TLC

\* Two segments, of two words and of one.
MCTwoSegments == {<<1, 2, 3>>}

MCOneWord == {<<1>>}

\* Binary data: words behind a NUL.
MCBinary == {<<0, 1>>}

MCNoFaults == {}

\* The names at the destination are interchangeable.
MCSymmetry == Permutations(TargetFiles)

\* A view for safety runs without suspensions: what is only written, and read by
\* neither a guard nor the properties of the run, tells no states apart.
MCView ==
  <<sender, transaction_sequence_number, call, store, listing, wire, owed,
    receiver, timer, files, openings, log, arrived>>
=============================================================================

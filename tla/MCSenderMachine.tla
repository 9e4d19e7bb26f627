-------------------------- MODULE MCSenderMachine --------------------------
(***************************************************************************)
(* Instances of SenderMachine for TLC.                                      *)
(***************************************************************************)
EXTENDS SenderMachine

\* A file of one segment, and one of two whose first holds a NUL.
MCShortAndLong == {<<1>>, <<1, 0, 1>>}

\* A directory listing of two segments.
MCListing == {<<1, 1, 1>>}
=============================================================================

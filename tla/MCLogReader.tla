---------------------------- MODULE MCLogReader ----------------------------
(***************************************************************************)
(* An instance of LogReader for TLC.                                       *)
(***************************************************************************)
EXTENDS LogReader

\* The machine stays up, and a commit that returns has been written.
JustKill == {"kill"}

=============================================================================

------------------------------- MODULE MCHAD -------------------------------
(***************************************************************************)
(* An instance of HAD for TLC in which every kind of fault may happen.     *)
(***************************************************************************)
EXTENDS HAD

AllFaults == FaultKinds

=============================================================================

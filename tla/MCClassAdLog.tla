---------------------------- MODULE MCClassAdLog ----------------------------
(***************************************************************************)
(* Instances of ClassAdLog for TLC.                                        *)
(***************************************************************************)
EXTENDS ClassAdLog

NoPowerFaults == FaultKinds \ {"power"}

\* A bound: TLC does not follow the last fault while a transaction waits.
LastFaultAlone == faults = MaxFaults => parked = {}

=============================================================================

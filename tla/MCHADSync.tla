----------------------------- MODULE MCHADSync -----------------------------
(***************************************************************************)
(* Instances of HADSync for TLC: ends of processes and machines, and all   *)
(* faults but duplicated commands and a master that cannot be reached.     *)
(***************************************************************************)
EXTENDS HADSync

Endings == {"exit", "machine", "shutdown"}
SyncFaults == FaultKinds \ {"copy", "master"}

=============================================================================

---------------------------- MODULE MCReplicator ----------------------------
(***************************************************************************)
(* Instances of Replicator: two hosts, which are interchangeable.          *)
(***************************************************************************)
EXTENDS Replicator, TLC

Hosts == Permutations(Node)
============================================================================

------------------------------ MODULE MCHALock ------------------------------
(* Small instances of HALock.                                              *)
EXTENDS HALock, TLC

\* The clock of the first host is MaxSkew ahead of the other ones.
SkewOfOne == [n \in Node |-> IF n = CHOOSE k \in Node : TRUE THEN MaxSkew ELSE 0]

=============================================================================

--------------------------- MODULE CentralManager ---------------------------
(***************************************************************************)
(* What the high availability daemons promise the pool: among the running  *)
(* candidates at most one is the active central manager; it stays active   *)
(* until it ends, and an idle pool with a running candidate gets one.      *)
(***************************************************************************)
CONSTANTS Node, None

VARIABLES
    running,  \* the candidates whose HAD runs
    active    \* the active central manager, or None

cmVars == <<running, active>>

CMInit ==
    /\ running = {}
    /\ active = None

Begin(n) ==
    /\ n \notin running
    /\ running' = running \cup {n}
    /\ UNCHANGED active

Finish(n) ==
    /\ n \in running
    /\ running' = running \ {n}
    /\ active' = IF active = n THEN None ELSE active

Elect(n) ==
    /\ n \in running
    /\ active = None
    /\ active' = n
    /\ UNCHANGED running

CMNext == \E n \in Node : Begin(n) \/ Finish(n) \/ Elect(n)

\* At most one is active, and it stays active until it ends.
CMSafety == CMInit /\ [][CMNext]_cmVars

CMSpec ==
    /\ CMSafety
    /\ WF_cmVars(\E n \in Node : Elect(n))

=============================================================================

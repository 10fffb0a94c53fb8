------------------------------ MODULE AdStore ------------------------------
(***************************************************************************)
(* What a ClassAdLog promises its clients: a table that changes by whole   *)
(* transactions.  What has changed survives once it is settled; until then *)
(* an end of the process or of the machine may undo the last changes.  A   *)
(* durable change is pending until it is settled, and holds up all others. *)
(* In a lapse nothing is promised.                                         *)
(***************************************************************************)
CONSTANTS Table, NoAds

VARIABLES
    current,    \* the table as of the last change
    survivors,  \* the tables that a failure may leave
    pending,    \* the last change is durable and has not returned
    serving,    \* a process offers the table
    lapse       \* what the process has written is not what it offers

storeVars == <<current, survivors, pending, serving, lapse>>

Init ==
    /\ current = NoAds
    /\ survivors = {NoAds}
    /\ pending = FALSE
    /\ serving = FALSE
    /\ lapse = FALSE

Change(t) ==
    /\ serving /\ ~pending
    /\ current' = t
    /\ survivors' = survivors \cup {t}
    /\ pending' \in BOOLEAN
    /\ UNCHANGED serving

\* The end of a durable change, or of a rotation.
Settle ==
    /\ survivors' = {current}
    /\ pending' = FALSE
    /\ serving' = TRUE
    /\ UNCHANGED current

Fail(t) ==
    /\ t \in survivors
    /\ current' = t
    /\ survivors' \subseteq survivors
    /\ t \in survivors'
    /\ pending' = FALSE
    /\ serving' = FALSE

Recover ==
    /\ ~serving
    /\ serving' = TRUE
    /\ UNCHANGED <<current, survivors, pending>>

Next ==
    \/ \E t \in Table : Change(t) \/ Fail(t)
    \/ Settle
    \/ Recover

Spec == Init /\ [][Next \/ lapse \/ lapse']_storeVars

=============================================================================

------------------------------ MODULE MCMaster ------------------------------
(***************************************************************************)
(* An instance of Master for TLC: a machine that may become the central    *)
(* manager, where HAD controls the negotiator.                             *)
(***************************************************************************)
EXTENDS Master

HADOrder == <<"SHARED_PORT", "HAD", "NEGOTIATOR", "STARTD">>
HADController == [d \in {"SHARED_PORT", "HAD", "NEGOTIATOR", "STARTD"} |->
                    IF d = "NEGOTIATOR" THEN "HAD" ELSE "NONE"]

=============================================================================

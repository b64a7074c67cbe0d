------------------------------ MODULE Verdicts ------------------------------
(***************************************************************************)
(* Test definitions and the dashboard's verdicts beside each other.  They  *)
(* meet in the fields of a definition, which Overview takes as edited and  *)
(* valid, so a behaviour takes the steps of one of the two.                *)
(***************************************************************************)
EXTENDS Overview

VARIABLE part

vars == <<part, defVars, ovVars>>

(* The half that stands still is in any one of its initial states. *)
Init ==
    /\ part \in {"definitions", "overview"} /\ DefsInit /\ OverviewInit
    /\ part = "overview" => catalog = Services /\ host = [a \in Devices |-> CHOOSE h \in Hosts : TRUE]
    /\ part = "definitions" => /\ test = CHOOSE d \in Drafts : TRUE
                               /\ assigned = {} /\ \E s \in Sites : place = [a \in Devices |-> s]

Next ==
    /\ UNCHANGED part
    /\ \/ part = "definitions" /\ DefsNext /\ UNCHANGED ovVars
       \/ part = "overview" /\ OverviewNext /\ UNCHANGED defVars

Spec == Init /\ [][Next]_vars

=============================================================================

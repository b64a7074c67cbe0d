----------------------------- MODULE MCTestRuns -----------------------------
(* TestRuns for TLC: one test of each type that runs by itself, and the two *)
(* that share the radio beside each other.                                  *)
EXTENDS TestRuns, TLC
CONSTANTS t1, t2
MCMixes ==
    {t1 :> k : k \in Kinds \ Wlan} \cup {t1 :> "wlan_passive" @@ t2 :> "wlan_active"}
=============================================================================

--------------------------- MODULE MCAlertEngine ---------------------------
(***************************************************************************)
(* AlertEngine on small instances.                                         *)
(***************************************************************************)
EXTENDS AlertEngine

Good(v) == [error |-> FALSE, ok |-> TRUE, value |-> v]
NotOK == [error |-> FALSE, ok |-> FALSE, value |-> None]
Failed == [error |-> TRUE, ok |-> FALSE, value |-> None]

(* 0 clears, 1 and 2 are in the dead band of LatencyRule, 3 breaches it. *)
AllSamples == {Good(v) : v \in {0, 2, 3}} \cup {NotOK, Failed}
Recovered == {Good(0)}

LatencyRule == [metric |-> "numeric", operator |-> ">", threshold |-> 2,
                clearThreshold |-> 1, forCount |-> 2, clearCount |-> 2]

(* Posted with no counts and another operator. *)
StateRule == [metric |-> "state", operator |-> "<", threshold |-> 1,
              clearThreshold |-> None, forCount |-> 0, clearCount |-> 0]

UnhealthyRule == [metric |-> "unhealthy", operator |-> "", threshold |-> 0,
                  clearThreshold |-> None, forCount |-> 2, clearCount |-> 1]

SomeRequests == {LatencyRule, StateRule, UnhealthyRule}
HysteresisRequests == {LatencyRule, StateRule}

SomeThresholds == [warn |-> 1, crit |-> 2, lowerIsWorse |-> FALSE]

=============================================================================

------------------------------ MODULE Services -----------------------------
(***************************************************************************)
(* What goes on beside the schedule and the streams: an agent's reports,   *)
(* the reflector and client of its throughput test, one traceroute of it,  *)
(* the server's detection of changed routes, and its notifications.  The   *)
(* parts share no state, so a behaviour takes the steps of one of them.    *)
(***************************************************************************)
EXTENDS AgentReports, Perfmon, Trace, PathChange, Notify

VARIABLE part

vars == <<part, repVars, perfVars, traceVars, pathVars, notifyVars>>

(* A part that is not under way starts in one of its initial states. *)
Init ==
    /\ part \in {"reports", "perfmon", "trace", "path", "notify"}
    /\ ReportsInit /\ PerfmonInit /\ TraceInit /\ PathInit /\ NotifyInit
    /\ part # "reports" => budget = CHOOSE b \in Budgets : TRUE
    /\ part # "trace" => route = (CHOOSE r \in Routes : TRUE) /\ protocol = "tcp"

Next ==
    /\ UNCHANGED part
    /\ \/ /\ part = "reports" /\ ReportsNext
          /\ UNCHANGED <<perfVars, traceVars, pathVars, notifyVars>>
       \/ /\ part = "perfmon" /\ PerfmonNext
          /\ UNCHANGED <<repVars, traceVars, pathVars, notifyVars>>
       \/ /\ part = "trace" /\ TraceNext
          /\ UNCHANGED <<repVars, perfVars, pathVars, notifyVars>>
       \/ /\ part = "path" /\ PathNext
          /\ UNCHANGED <<repVars, perfVars, traceVars, notifyVars>>
       \/ /\ part = "notify" /\ NotifyNext
          /\ UNCHANGED <<repVars, perfVars, traceVars, pathVars>>

Spec == Init /\ [][Next]_vars

=============================================================================

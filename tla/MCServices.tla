----------------------------- MODULE MCServices ----------------------------
(* Services for TLC.  A behaviour of the reports spends its bounds on       *)
(* lines, on lines and a verdict, on two streams and time, on refreshes, or *)
(* on what the host is like.                                                *)
EXTENDS Services

CONSTANTS ra, rb, rc, ta, tb,   \* addresses
          p1                    \* an agent's

Budget(s, l, st, r, re, f, v, t, loads) ==
    [streams |-> s, logs |-> l, stats |-> st, rows |-> r, refreshes |-> re, faults |-> f, verdicts |-> v,
     time |-> t, loads |-> loads]

MCBudgets ==
    {Budget(2, 1, 0, 2, 0, 1, 0, 0, {}), Budget(1, 2, 1, 0, 0, 1, 1, 0, {"fine"}),
     Budget(2, 0, 1, 0, 0, 0, 1, 2, {"fine"}), Budget(2, 0, 2, 0, 1, 0, 1, 0, {"fine"}),
     Budget(1, 0, 2, 0, 1, 0, 1, 2, {"fine"}), Budget(1, 0, 1, 0, 0, 1, 1, 3, Loads)}

MCStaleAfter == <<1, 2>>
MCFlapsFor == <<2, 3>>
MCErrorsFor == <<2, 3>>

MCSettings ==
    {[enabled |-> TRUE, port |-> p, cidrs |-> c] : p \in Ports, c \in {<<Blank>>, <<p1>>, <<Blank, {p1}>>}}
    \cup {[enabled |-> FALSE, port |-> 1, cidrs |-> <<>>], [enabled |-> TRUE, port |-> 1, cidrs |-> <<p1, Invalid>>]}

(* A path that is clear, one to a closed port, and paths that end for each  *)
(* reason there is, at the target or before it.                             *)
MCRoutes ==
    {<<"router", "router", "open">>, <<"router", "closed">>, <<"open">>, <<"router", "router", "mute">>,
     <<"router", "firewall", "open">>, <<"silent", "dead", "closed">>, <<"router", "hole", "open">>}

Addresses == {ra, rb, rc, ta, tb}

Answer == {ra, rb, Silent}
traced(addrs, reached) == [hops |-> addrs, reached |-> reached]

(* Paths of one and two intermediate hops, to a target that answers as ta   *)
(* or tb or not at all; a target one hop away; and a run without hops.      *)
MCRuns ==
    {traced(<<x, y>>, FALSE) : x \in Answer, y \in Answer}
    \cup {traced(<<x, t>>, TRUE) : x \in Answer, t \in {ta, tb}}
    \cup {traced(<<x, y, t>>, TRUE) : x \in {ra, rb}, y \in {ra, rc, Silent}, t \in {ta}}
    \cup {traced(<<ta>>, TRUE), traced(<<>>, FALSE)}

(* ra and rb are in one network, rc in another, the target is unannounced.  *)
Networks == (ra :> "n1") @@ (rb :> "n1") @@ (rc :> "n2")

MCConfigs ==
    {[type |-> "webhook", to |-> <<"a">>], [type |-> "webhook", to |-> <<"">>],
     [type |-> "email", to |-> <<"", "b">>], [type |-> "email", to |-> <<"number">>],
     [type |-> "email", to |-> <<>>], [type |-> "script", to |-> <<"b">>],
     [type |-> "snmp", to |-> <<"b">>], [type |-> "pager", to |-> <<"a">>]}
=============================================================================

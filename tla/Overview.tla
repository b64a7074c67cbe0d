------------------------------ MODULE Overview ------------------------------
(***************************************************************************)
(* The dashboard's verdicts (internal/store/overview.go): what the results *)
(* of one test say of the tenant and of each site, while results arrive,   *)
(* late or not, agents move from site to site, thresholds and interval are *)
(* edited and time passes; and the alert engine's own reading of the same  *)
(* results (internal/server/alerts.go: resultState).                       *)
(*                                                                         *)
(* A result is kept with the time at which the agent's own clock says it   *)
(* was measured, and that clock may be ahead of the server's or behind it; *)
(* a site's verdict takes the results of the agents that are in the site   *)
(* now.                                                                    *)
(***************************************************************************)
EXTENDS TestDefs

CONSTANTS
    Sites,
    Drafts,          \* definitions of the test: type, interval, warn, crit
    Outcomes,        \* per type: the results an agent may send
    ResultsPerTest,  \* rows kept per agent
    WindowMin, WindowMax,  \* the clamp of the window (90 s and 1 h)
    Width,           \* the interval's integers are modulo this (2^32)
    MaxDelay,        \* bound: how late a result may arrive
    Behind, Ahead,   \* bounds: how far an agent's clock is behind or ahead
    MaxRows,         \* bound: rows in the store
    Tenant           \* stands for "no site asked for"

ASSUME OverviewBounds ==
    /\ ResultsPerTest \in Nat \ {0} /\ WindowMin \in Nat /\ WindowMax \in Nat /\ WindowMin <= WindowMax
    /\ Width \in Nat /\ Width > 3 * WindowMax /\ MaxDelay \in Nat /\ MaxRows \in Nat
    /\ Behind \in Nat /\ Ahead \in Nat
ASSUME OverviewDrafts == \A d \in Drafts : d.type \in Types /\ d.interval \in Nat \ {0}
ASSUME OverviewNames == IsFiniteSet(Devices) /\ Tenant \notin Sites

VARIABLES
    test,      \* the definition of the test
    assigned,  \* the sites it is assigned to
    place,     \* the site of each agent
    before,    \* history: the site each agent was in before a move that late results may precede
    moved,     \* history: the age of that move
    rows       \* the results of each agent, in the order of arrival

ovVars == <<test, assigned, place, before, moved, rows>>

Forever == WindowMax + Ahead + 1
Entries == UNION {{a} \X DOMAIN rows[a] : a \in Devices}
row(e) == rows[e[1]][e[2]]

OverviewInit ==
    /\ test \in Drafts
    /\ assigned \in SUBSET Sites
    /\ place \in [Devices -> Sites] /\ before = place
    /\ moved = [a \in Devices |-> Forever]
    /\ rows = [a \in Devices |-> <<>>]

-----------------------------------------------------------------------------
(* Results *)

(* resultOK: no error and, for the types that say so, a good answer. *)
resultOK(r) == ~r.error /\ (r.payload \in {"speedtest", "perfmon", "wlan_active"} \/ r.good)

(* Spec.Primary: the time to the first byte for a saas front door, the     *)
(* payload's number otherwise; 0 is no measurement.                        *)
Primary(type, r) == IF type = "saas" /\ r.payload = "http" THEN r.first ELSE r.total

(* The newest rows of this agent for this test are kept. *)
pruned(seq) ==
    IF Len(seq) <= ResultsPerTest THEN seq ELSE SubSeq(seq, Len(seq) - ResultsPerTest + 1, Len(seq))

(* handleResult: neither the time of the arrival nor the server's clock,   *)
(* but what the agent's says, unchecked: a clock ahead makes the result    *)
(* younger than it is, even one of the future.                             *)
resultTime(late, off) == late - off

(* AddResult: the insertion, which leaves everything as it was when it     *)
(* fails, and the pruning, whose failure leaves a row too many until the   *)
(* next result.                                                            *)
HandleResult(a, r, late, off) ==
    LET all == Append(rows[a], [res |-> r, age |-> resultTime(late, off),
                                at |-> IF late <= moved[a] THEN place[a] ELSE before[a]])
    IN  \E left \in {pruned(all), all} :
           /\ Cardinality(Entries) - Len(rows[a]) + Len(left) <= MaxRows
           /\ rows' = [rows EXCEPT ![a] = left]
           /\ UNCHANGED <<test, assigned, place, before, moved>>

Elapse ==
    /\ moved' = [a \in Devices |-> IF moved[a] < Forever THEN moved[a] + 1 ELSE Forever]
    /\ rows' = [a \in Devices |->
          [i \in DOMAIN rows[a] |-> [rows[a][i] EXCEPT !.age = IF @ < Forever THEN @ + 1 ELSE Forever]]]
    /\ before' = [a \in Devices |-> IF moved'[a] < MaxDelay THEN before[a] ELSE place[a]]
    /\ UNCHANGED <<test, assigned, place>>

(* UpdateAgent: the rows of an agent go with it.  Late results of the site *)
(* before the last one are not followed.                                   *)
MoveAgent(a, s) ==
    /\ place[a] # s /\ moved[a] >= MaxDelay
    /\ place' = [place EXCEPT ![a] = s] /\ before' = [before EXCEPT ![a] = place[a]]
    /\ moved' = [moved EXCEPT ![a] = 0]
    /\ UNCHANGED <<test, assigned, rows>>

EditTest(d) ==
    /\ d.type = test.type /\ d # test
    /\ test' = d
    /\ UNCHANGED <<assigned, place, before, moved, rows>>

AssignSites(sites) ==
    /\ assigned' = sites
    /\ UNCHANGED <<test, place, before, moved, rows>>

-----------------------------------------------------------------------------
(* The verdict on one result *)

(* Mutant of computeResultState: more is worse for every type. *)
computeResultStateHigher(type, v, d) ==
    IF d.crit > 0 /\ v > d.crit THEN "red" ELSE IF d.warn > 0 /\ v > d.warn THEN "orange" ELSE "green"

computeResultState(type, v, d) ==
    LET worse(x, band) == band > 0 /\ IF Get(type).lowerIsWorse THEN x < band ELSE x > band
    IN  IF worse(v, d.crit) THEN "red" ELSE IF worse(v, d.warn) THEN "orange" ELSE "green"

(* testStatus looks at the thresholds of good results with a measurement. *)
colour(r) ==
    IF ~resultOK(r) THEN "failed"
    ELSE IF Primary(test.type, r) = 0 THEN "green"
    ELSE computeResultState(test.type, Primary(test.type, r), test)

(* The alert engine's level of the result: 0 green, 1 orange, 2 red. *)
resultState(r) ==
    LET v == Primary(test.type, r)
        low == Get(test.type).lowerIsWorse
    IN  CASE ~resultOK(r) -> 2
          [] resultOK(r) /\ v = 0 -> 0
          [] OTHER -> IF test.crit > 0 /\ (IF low THEN v < test.crit ELSE v > test.crit) THEN 2
                      ELSE IF test.warn > 0 /\ (IF low THEN v < test.warn ELSE v > test.warn) THEN 1
                      ELSE 0

-----------------------------------------------------------------------------
(* The verdict on the test *)

(* The last three cycles, clamped. *)
windowSec ==
    LET w == (test.interval * 3) % Width
    IN  IF w < WindowMin THEN WindowMin ELSE IF w > WindowMax THEN WindowMax ELSE w

(* Mutant of counted: a result stays one unit longer. *)
countedLonger(site) ==
    {e \in Entries : row(e).age <= windowSec + 1 /\ (site = Tenant \/ place[e[1]] = site)}

(* The results of the window, of one site's agents or of all. *)
counted(site) ==
    {e \in Entries : row(e).age <= windowSec /\ (site = Tenant \/ place[e[1]] = site)}

(* Mutant of statusOf: one good result is enough. *)
statusOfAny(colours, checks, oks) ==
    IF checks = 0 THEN "nodata"
    ELSE IF "red" \in colours THEN "failing"
    ELSE IF "orange" \in colours THEN "degraded"
    ELSE IF oks > 0 THEN "healthy" ELSE "failing"

(* Red, then orange, then the share of good results. *)
statusOf(colours, checks, oks) ==
    IF checks = 0 THEN "nodata"
    ELSE IF "red" \in colours THEN "failing"
    ELSE IF "orange" \in colours THEN "degraded"
    ELSE IF oks = checks THEN "healthy" ELSE IF oks = 0 THEN "failing" ELSE "degraded"

testStatus(site) ==
    LET seen == counted(site)
        good == {e \in seen : resultOK(row(e).res)}
    IN  statusOf({colour(row(e).res) : e \in seen}, Cardinality(seen), Cardinality(good))

(* TenantOverview: the test's line, and the rollup of the sites it is      *)
(* assigned to, each with its own agents' results.                         *)
TestHealth == testStatus(Tenant)
SiteHealth == [s \in assigned |-> testStatus(s)]

OverviewNext ==
    \/ \E a \in Devices, r \in Outcomes[test.type], late \in 0 .. MaxDelay, off \in -Behind .. Ahead :
          HandleResult(a, r, late, off)
    \/ Elapse
    \/ \E a \in Devices, s \in Sites : MoveAgent(a, s)
    \/ \E d \in Drafts : EditTest(d)
    \/ \E sites \in SUBSET Sites : AssignSites(sites)

-----------------------------------------------------------------------------
(* Properties *)

(* Shared tests do not mask a broken site: the tenant's line is healthy    *)
(* only when every site that has data is, and failing only when one of the *)
(* sites the results come from is.                                         *)
NoMasking ==
    /\ TestHealth = "healthy" => \A s \in assigned : SiteHealth[s] \in {"healthy", "nodata"}
    /\ TestHealth = "failing" => \E s \in Sites : testStatus(s) = "failing"
    /\ TestHealth = "nodata" => \A s \in assigned : SiteHealth[s] = "nodata"

(* A move is over after one window, and as much more as the agents' clocks *)
(* are ahead: from then on a site is judged by what was measured there,    *)
(* late arrivals and results dated in the future included.  And a site     *)
(* with a result dated within the test's interval has a verdict, unless    *)
(* the interval is longer than the longest window.                         *)
SiteVerdictSettles ==
    /\ \A s \in Sites : \A e \in counted(s) :
          moved[e[1]] > windowSec + Ahead => row(e).at = s
    /\ \A e \in Entries : row(e).age <= test.interval /\ test.interval <= WindowMax
                             => testStatus(place[e[1]]) # "nodata"

(* The dashboard and the alert engine judge a result alike: red or failed  *)
(* is level 2, orange level 1, green level 0.                              *)
AlertsAgree ==
    \A e \in Entries :
       resultState(row(e).res) =
          CASE colour(row(e).res) \in {"red", "failed"} -> 2
            [] colour(row(e).res) = "orange" -> 1
            [] OTHER -> 0

=============================================================================

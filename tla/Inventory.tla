----------------------------- MODULE Inventory -----------------------------
(***************************************************************************)
(* What the operators manage: tenants, sites, test definitions, agents and *)
(* devices waiting to be claimed, as rows of the store (internal/store) and*)
(* as the REST handlers (internal/api) change them.                        *)
(*                                                                         *)
(* A handler reads and checks rows first and writes afterwards, each in a  *)
(* store call of its own; two requests can be between the two at the same  *)
(* time.  req[r] is what request r has checked and is about to write.  The *)
(* database has one connection, so a single call is atomic, and it keeps   *)
(* the foreign keys and unique indexes of the schema: a write that breaks  *)
(* one changes nothing.                                                    *)
(*                                                                         *)
(* Ids are random and never reused: a row is Unborn, then there, then Gone.*)
(***************************************************************************)
EXTENDS Naturals, FiniteSets

CONSTANTS
    Tenants, Sites, Tests, Agents,  \* ids
    Devices,                        \* machines that run the agent
    Requests,                       \* requests in flight
    None, Unborn, Gone,
    MaxPlain,                       \* bound: requests in flight other than claims
    MaxGone                         \* bound: nothing is deleted once so many rows are gone

ASSUME InventoryBounds == MaxGone \in Nat /\ MaxPlain \in Nat
VARIABLES
    tenants,  \* tenant -> Unborn, Gone or [enroll]: it has an enrolment token
    sites,    \* site -> Unborn, Gone or its tenant
    tests,    \* test -> Unborn, Gone or [tenant, source]
    assigned, \* site_tests: pairs of site and test
    agents,   \* agent -> Unborn, Gone or [tenant, site]
    results,  \* agents with rows in results, path_changes or alerts
    pending,  \* unclaimed_agents: [tenant, device] -> None or [due]: a claim
              \* has made an agent of it and the row's delete has not been tried
    req,      \* request -> None or what it will write
    stream    \* device -> the agent its open stream belongs to

rows == <<tenants, sites, tests, assigned, agents, results, pending>>
vars == <<rows, req, stream>>

Keys == [tenant : Tenants, device : Devices]
AgentRow == [tenant : Tenants, site : Sites]
TestRow == [tenant : Tenants, source : Agents \cup {None}]
Pending ==
    [op : {"newAgent"}, tenant : Tenants, site : Sites]
    \cup [op : {"update"}, agent : Agents, site : Sites]
    \cup [op : {"assign"}, site : Sites, tests : SUBSET Tests]
    \cup [op : {"claim"}, row : Keys \cup {Gone}, tenant : Tenants, site : Sites]
    \cup [op : {"consume"}, row : Keys \cup {Gone}]

(* The nulls are three values, none of them an id or a row. *)
ASSUME InventoryNulls ==
    /\ Unborn # Gone /\ None # Unborn /\ None # Gone
    /\ \A n \in {None, Unborn, Gone} :
          /\ n \notin Tenants \cup Sites \cup Tests \cup Agents \cup Keys
          /\ n \notin [enroll : BOOLEAN] /\ n \notin [due : BOOLEAN]
          /\ n \notin TestRow /\ n \notin AgentRow /\ n \notin Pending

there(row) == row \notin {Unborn, Gone}
liveTenants == {t \in Tenants : there(tenants[t])}
liveSites == {s \in Sites : there(sites[s])}
liveTests == {x \in Tests : there(tests[x])}
liveAgents == {a \in Agents : there(agents[a])}
mayDelete ==
    MaxGone > Cardinality({t \in Tenants : tenants[t] = Gone}) + Cardinality({s \in Sites : sites[s] = Gone})
              + Cardinality({x \in Tests : tests[x] = Gone}) + Cardinality({a \in Agents : agents[a] = Gone})

TypeOK ==
    /\ tenants \in [Tenants -> {Unborn, Gone} \cup [enroll : BOOLEAN]]
    /\ sites \in [Sites -> {Unborn, Gone} \cup Tenants]
    /\ tests \in [Tests -> {Unborn, Gone} \cup TestRow]
    /\ assigned \subseteq Sites \X Tests
    /\ agents \in [Agents -> {Unborn, Gone} \cup AgentRow]
    /\ results \subseteq Agents
    /\ pending \in [Keys -> {None} \cup [due : BOOLEAN]]
    /\ req \in [Requests -> {None} \cup Pending]
    /\ stream \in [Devices -> {None} \cup Agents]

Init ==
    /\ tenants = [t \in Tenants |-> Unborn]
    /\ sites = [s \in Sites |-> Unborn] /\ tests = [x \in Tests |-> Unborn]
    /\ assigned = {} /\ agents = [a \in Agents |-> Unborn] /\ results = {}
    /\ pending = [k \in Keys |-> None]
    /\ req = [r \in Requests |-> None]
    /\ stream = [d \in Devices |-> None]

-----------------------------------------------------------------------------
(* The tables.  One delete removes the rows that refer to the deleted ones *)
(* as far as the schema cascades.                                          *)
(* Mutant of Cascade: the rows of an agent outlive it, as they do without  *)
(* PRAGMA foreign_keys.                                                    *)
CascadeKeepsResults(T, S, X, A) ==
    /\ tenants' = [t \in Tenants |-> IF t \in T THEN Gone ELSE tenants[t]]
    /\ sites' = [s \in Sites |-> IF s \in S THEN Gone ELSE sites[s]]
    /\ tests' = [x \in Tests |-> IF x \in X THEN Gone ELSE tests[x]]
    /\ agents' = [a \in Agents |-> IF a \in A THEN Gone ELSE agents[a]]
    /\ assigned' = {p \in assigned : p[1] \notin S /\ p[2] \notin X}
    /\ pending' = [k \in Keys |-> IF k.tenant \in T THEN None ELSE pending[k]]
    /\ UNCHANGED results

Cascade(T, S, X, A) ==
    /\ tenants' = [t \in Tenants |-> IF t \in T THEN Gone ELSE tenants[t]]
    /\ sites' = [s \in Sites |-> IF s \in S THEN Gone ELSE sites[s]]
    /\ tests' = [x \in Tests |-> IF x \in X THEN Gone ELSE tests[x]]
    /\ agents' = [a \in Agents |-> IF a \in A THEN Gone ELSE agents[a]]
    /\ assigned' = {p \in assigned : p[1] \notin S /\ p[2] \notin X}
    /\ pending' = [k \in Keys |-> IF k.tenant \in T THEN None ELSE pending[k]]
    /\ results' = results \ A

agentsOfSites(S) == {a \in liveAgents : agents[a].site \in S}
agentsOfTenant(t) == {a \in liveAgents : agents[a].tenant = t}

(* A request that holds a deleted pending row has an id that is nobody's:  *)
(* the next row of the same device has another one.                        *)
forget(f, K) ==
    [r \in Requests |->
        IF f[r] # None /\ "row" \in DOMAIN f[r] /\ f[r].row \in K
        THEN [f[r] EXCEPT !.row = Gone] ELSE f[r]]

DeleteTenant(t) ==
    LET S == {s \in liveSites : sites[s] = t} IN
    /\ Cascade({t}, S, {x \in liveTests : tests[x].tenant = t},
               agentsOfTenant(t) \cup agentsOfSites(S))
    /\ req' = forget(req, {k \in Keys : k.tenant = t})

DeleteSite(s) == Cascade({}, {s} \cap liveSites, {}, agentsOfSites({s}))
DeleteTest(x) == Cascade({}, {}, {x} \cap liveTests, {})
DeleteAgent(a) == Cascade({}, {}, {}, {a} \cap liveAgents)

(* The foreign keys ask for the tenant and for the site, each by itself. *)
mayInsertAgent(tenant, site) == tenant \in liveTenants /\ site \in liveSites

InsertAgent(a, tenant, site) ==
    /\ agents[a] = Unborn /\ mayInsertAgent(tenant, site)
    /\ agents' = [agents EXCEPT ![a] = [tenant |-> tenant, site |-> site]]

(* The caller is an admin, who may name any tenant and access every row;   *)
(* what a user of one tenant may do is a part of it.                       *)
inTenant(tenant, rowTenant) == rowTenant = tenant

-----------------------------------------------------------------------------
(* Handlers that make one store call after the session check. *)
HandleCreateTenant(t) ==
    /\ tenants[t] = Unborn
    /\ tenants' = [tenants EXCEPT ![t] = [enroll |-> FALSE]]
    /\ UNCHANGED <<sites, tests, assigned, agents, results, pending, req, stream>>

HandleDeleteTenant(t) ==
    /\ t \in liveTenants /\ mayDelete
    /\ DeleteTenant(t)
    /\ UNCHANGED stream

HandleCreateSite(tenant, s) ==
    /\ tenant \in liveTenants /\ sites[s] = Unborn
    /\ sites' = [sites EXCEPT ![s] = tenant]
    /\ UNCHANGED <<tenants, tests, assigned, agents, results, pending, req, stream>>

(* A new token replaces the tenant's old one; no row of unclaimed_agents   *)
(* and no agent's token changes.                                           *)
HandleGenerateEnrollToken(t) ==
    /\ t \in liveTenants
    /\ tenants' = [tenants EXCEPT ![t].enroll = TRUE]
    /\ UNCHANGED <<sites, tests, assigned, agents, results, pending, req, stream>>

HandleRevokeEnrollToken(t) ==
    /\ t \in liveTenants
    /\ tenants' = [tenants EXCEPT ![t].enroll = FALSE]
    /\ UNCHANGED <<sites, tests, assigned, agents, results, pending, req, stream>>

-----------------------------------------------------------------------------
(* Handlers that look a row up and delete it.  One step: ids are not       *)
(* reused and a row's tenant never changes, so nothing that happens between*)
(* the two can matter.                                                     *)

(* The number of agents of the site is not among what GetSite reads, so    *)
(* the handler's test of it passes whatever the site has.                  *)
HandleDeleteSite(s) ==
    /\ s \in liveSites
    /\ mayDelete /\ DeleteSite(s)
    /\ UNCHANGED <<req, stream>>

HandleDeleteTest(x) ==
    /\ x \in liveTests
    /\ mayDelete /\ DeleteTest(x)
    /\ UNCHANGED <<req, stream>>

(* The stream of a deleted agent is not looked for and stays open. *)
HandleDeleteAgent(a) ==
    /\ a \in liveAgents
    /\ mayDelete /\ DeleteAgent(a)
    /\ UNCHANGED <<req, stream>>

HandleDismissUnclaimedAgent(k) ==
    /\ pending[k] # None
    /\ pending' = [pending EXCEPT ![k] = None]
    /\ req' = forget(req, {k})
    /\ UNCHANGED <<tenants, sites, tests, assigned, agents, results, stream>>

-----------------------------------------------------------------------------
(* Test definitions.  The check of the source agent and the write are one  *)
(* step: an agent deleted between them leaves what one deleted afterwards  *)
(* leaves, a test pinned to nobody.                                        *)

(* A perfmon test names the agent that runs it; every other test has none. *)
validatePerfmonSource(tenant, source) ==
    source = None \/ (source \in liveAgents /\ inTenant(tenant, agents[source].tenant))

CreateTest(x, tenant, source) ==
    /\ tests[x] = Unborn /\ tenant \in liveTenants
    /\ tests' = [tests EXCEPT ![x] = [tenant |-> tenant, source |-> source]]

HandleCreateTest(tenant, x, source) ==
    /\ tenant \in liveTenants /\ validatePerfmonSource(tenant, source)
    /\ CreateTest(x, tenant, source)
    /\ UNCHANGED <<tenants, sites, assigned, agents, results, pending, req, stream>>

UpdateTest(x, source) == tests' = [tests EXCEPT ![x].source = source]

HandleUpdateTest(x, source) ==
    /\ x \in liveTests
    /\ (source = None) = (tests[x].source = None)   \* the type is immutable
    /\ validatePerfmonSource(tests[x].tenant, source)
    /\ UpdateTest(x, source)
    /\ UNCHANGED <<tenants, sites, assigned, agents, results, pending, req, stream>>

-----------------------------------------------------------------------------
(* Handlers that read, check and then write.  The first step ends with the *)
(* checks passed; a failed check answers and changes nothing.              *)
isClaim(write) == write.op \in {"claim", "consume"}
plain == {r \in Requests : req[r] # None /\ ~ isClaim(req[r])}

Admit(r, write) ==
    /\ req[r] = None
    /\ isClaim(write) \/ Cardinality(plain) < MaxPlain
    /\ req' = [req EXCEPT ![r] = write]
    /\ UNCHANGED <<rows, stream>>

HandleCreateAgent(r, s) ==
    /\ s \in liveSites
    /\ Admit(r, [op |-> "newAgent", tenant |-> sites[s], site |-> s])

(* Mutant of HandleUpdateAgent: the new site is not looked up in the       *)
(* agent's tenant.                                                         *)
HandleUpdateAgentAnySite(r, a, s) ==
    /\ a \in liveAgents
    /\ s \in liveSites
    /\ Admit(r, [op |-> "update", agent |-> a, site |-> s])

HandleUpdateAgent(r, a, s) ==
    /\ a \in liveAgents
    /\ s \in liveSites /\ inTenant(agents[a].tenant, sites[s])
    /\ Admit(r, [op |-> "update", agent |-> a, site |-> s])

HandleSetSiteTests(r, s, X) ==
    /\ s \in liveSites
    /\ \A x \in X : x \in liveTests /\ inTenant(sites[s], tests[x].tenant)
    /\ Admit(r, [op |-> "assign", site |-> s, tests |-> X])

HandleClaimAgent(r, k, s) ==
    /\ pending[k] # None
    /\ s \in liveSites /\ inTenant(k.tenant, sites[s])
    /\ Admit(r, [op |-> "claim", row |-> k, tenant |-> k.tenant, site |-> s])

-----------------------------------------------------------------------------
(* The writes.  A request whose write fails is answered with an error and  *)
(* is over.                                                                *)
Doing(r, op) == req[r] # None /\ req[r].op = op
Done(r) == req' = [req EXCEPT ![r] = None]

(* A write may be refused at any time: a row it refers to is gone, a name,  *)
(* which the model leaves out, is taken, or the store fails.  The last step *)
(* of a claim is not answered with an error.                               *)
Refused(r) ==
    /\ req[r] # None /\ req[r].op # "consume"
    /\ Done(r)
    /\ UNCHANGED <<rows, stream>>

CreateAgent(r, a) ==
    /\ Doing(r, "newAgent")
    /\ InsertAgent(a, req[r].tenant, req[r].site)
    /\ Done(r)
    /\ UNCHANGED <<tenants, sites, tests, assigned, results, pending, stream>>

UpdateAgent(r) ==
    LET a == req[r].agent IN
    /\ Doing(r, "update") /\ a \in liveAgents
    /\ req[r].site \in liveSites
    /\ agents' = [agents EXCEPT ![a].site = req[r].site]
    /\ Done(r)
    /\ UNCHANGED <<tenants, sites, tests, assigned, results, pending, stream>>

(* One transaction: the old assignment goes and the new one comes, or      *)
(* neither.                                                                *)
SetSiteTests(r) ==
    LET s == req[r].site IN
    /\ Doing(r, "assign")
    /\ req[r].tests = {} \/ (s \in liveSites /\ req[r].tests \subseteq liveTests)
    /\ assigned' = {p \in assigned : p[1] # s} \cup ({s} \X req[r].tests)
    /\ Done(r)
    /\ UNCHANGED <<tenants, sites, tests, agents, results, pending, stream>>

(* The claim: an agent like any other, which is given what the device had  *)
(* reported, then the pending row.                                         *)
(* Mutant of ClaimCreate: a claim that cannot carry over what the device   *)
(* had reported returns there, with the agent made.                        *)
ClaimCreateStops(r, a) ==
    LET k == req[r].row IN
    /\ Doing(r, "claim")
    /\ InsertAgent(a, req[r].tenant, req[r].site)
    /\ req' \in {[req EXCEPT ![r] = None], [req EXCEPT ![r] = [op |-> "consume", row |-> k]]}
    /\ pending' = IF k = Gone THEN pending ELSE [pending EXCEPT ![k].due = TRUE]
    /\ UNCHANGED <<tenants, sites, tests, assigned, results, stream>>

ClaimCreate(r, a) ==
    LET k == req[r].row IN
    /\ Doing(r, "claim")
    /\ InsertAgent(a, req[r].tenant, req[r].site)
    /\ req' = [req EXCEPT ![r] = [op |-> "consume", row |-> k]]
    /\ pending' = IF k = Gone THEN pending ELSE [pending EXCEPT ![k].due = TRUE]
    /\ UNCHANGED <<tenants, sites, tests, assigned, results, stream>>

DeleteUnclaimedAgent(r) ==
    LET k == req[r].row IN
    /\ Doing(r, "consume")
    /\ pending' = IF k = Gone THEN pending ELSE [pending EXCEPT ![k] = None]
    /\ req' = forget([req EXCEPT ![r] = None], {k})
    /\ UNCHANGED <<tenants, sites, tests, assigned, agents, results, stream>>

(* The delete fails: that is logged, the claim is answered as a success and *)
(* the row stays on the list, to be claimed once more or dismissed.         *)
DeleteUnclaimedAgentFails(r) ==
    LET k == req[r].row IN
    /\ Doing(r, "consume")
    /\ pending' = IF k = Gone THEN pending ELSE [pending EXCEPT ![k].due = FALSE]
    /\ Done(r)
    /\ UNCHANGED <<tenants, sites, tests, assigned, agents, results, stream>>

-----------------------------------------------------------------------------
(* Devices.  registerAgent with an agent's token: the stream is accepted.  *)
(* A token of no agent and of no tenant is refused.                        *)
RegisterAgent(d, a) ==
    /\ stream[d] = None
    /\ a \in liveAgents
    /\ stream' = [stream EXCEPT ![d] = a]
    /\ UNCHANGED <<rows, req>>

(* registerAgent with a tenant's current enrolment token, mTLS off: the    *)
(* pending row is inserted or refreshed and the stream ends.               *)
HandleUnclaimedRegister(d, t) ==
    LET k == [tenant |-> t, device |-> d] IN
    /\ stream[d] = None
    /\ t \in liveTenants /\ tenants[t].enroll
    /\ pending[k] = None
    /\ pending' = [pending EXCEPT ![k] = [due |-> FALSE]]
    /\ UNCHANGED <<tenants, sites, tests, assigned, agents, results, req, stream>>

(* handleResult on an open stream: the agent's foreign key decides whether *)
(* the row is stored.                                                      *)
AddResult(d) ==
    /\ stream[d] # None /\ stream[d] \notin results
    /\ stream[d] \in liveAgents
    /\ results' = results \cup {stream[d]}
    /\ UNCHANGED <<tenants, sites, tests, assigned, agents, pending, req, stream>>

StreamEnds(d) ==
    /\ stream[d] # None
    /\ stream' = [stream EXCEPT ![d] = None]
    /\ UNCHANGED <<rows, req>>

-----------------------------------------------------------------------------
Handlers(r) ==
    \/ \E s \in Sites : HandleCreateAgent(r, s)
    \/ \E a \in Agents, s \in Sites : HandleUpdateAgent(r, a, s)
    \/ \E s \in Sites, X \in SUBSET Tests : HandleSetSiteTests(r, s, X)
    \/ \E k \in Keys, s \in Sites : HandleClaimAgent(r, k, s)

Writes(r) ==
    \/ Refused(r) \/ UpdateAgent(r) \/ SetSiteTests(r)
    \/ DeleteUnclaimedAgent(r) \/ DeleteUnclaimedAgentFails(r)
    \/ \E a \in Agents : CreateAgent(r, a) \/ ClaimCreate(r, a)

Operators ==
    \/ \E t \in Tenants :
          \/ HandleCreateTenant(t) \/ HandleDeleteTenant(t)
          \/ HandleGenerateEnrollToken(t) \/ HandleRevokeEnrollToken(t)
          \/ \E s \in Sites : HandleCreateSite(t, s)
          \/ \E x \in Tests, a \in Agents \cup {None} : HandleCreateTest(t, x, a)
    \/ \E s \in Sites : HandleDeleteSite(s)
    \/ \E x \in Tests : HandleDeleteTest(x) \/ \E a \in Agents \cup {None} : HandleUpdateTest(x, a)
    \/ \E a \in Agents : HandleDeleteAgent(a)
    \/ \E k \in Keys : HandleDismissUnclaimedAgent(k)

DeviceSteps(d) ==
    \/ \E a \in Agents : RegisterAgent(d, a)
    \/ \E t \in Tenants : HandleUnclaimedRegister(d, t)
    \/ AddResult(d) \/ StreamEnds(d)

Next ==
    \/ Operators
    \/ \E r \in Requests : Writes(r) \/ Handlers(r)
    \/ \E d \in Devices : DeviceSteps(d)

Spec == Init /\ [][Next]_vars

-----------------------------------------------------------------------------
(* Every row refers to rows that are there: what a delete leaves out, or a *)
(* write of a request or of a deleted agent's open stream that comes after *)
(* the delete, would be seen here (store.go, the REFERENCES clauses).      *)
NoOrphans ==
    /\ \A s \in liveSites : sites[s] \in liveTenants
    /\ \A x \in liveTests : tests[x].tenant \in liveTenants
    /\ \A a \in liveAgents : agents[a].tenant \in liveTenants /\ agents[a].site \in liveSites
    /\ \A p \in assigned : p[1] \in liveSites /\ p[2] \in liveTests
    /\ results \subseteq liveAgents
    /\ \A k \in Keys : pending[k] # None => k.tenant \in liveTenants

(* No row joins two tenants: an agent sits in a site of its tenant, a site *)
(* runs tests of its tenant, a perfmon test is pinned to an agent of its   *)
(* tenant.  The schema does not say so; the handlers' checks have to, and  *)
(* they are made before the write (scope.go).                              *)
TenantsApart ==
    /\ \A a \in liveAgents : sites[agents[a].site] = agents[a].tenant
    /\ \A p \in assigned : tests[p[2]].tenant = sites[p[1]]
    /\ \A x \in liveTests :
          tests[x].source \in liveAgents => agents[tests[x].source].tenant = tests[x].tenant

(* A row that a claim has made an agent of is listed as pending only while  *)
(* a claim of it has its last step to do, because the store failed to       *)
(* delete it, or because the device registered again: handleClaimAgent      *)
(* gets to the delete whatever it could not carry over, also when a second  *)
(* operator claims or dismisses the same row or the device retries          *)
(* meanwhile.  It does not say that one agent is made: two operators who    *)
(* have both been shown the row make two.                                   *)
ClaimConsumesRow ==
    \A k \in Keys :
        pending[k] # None /\ pending[k].due =>
            \E r \in Requests : Doing(r, "consume") /\ req[r].row = k
=============================================================================

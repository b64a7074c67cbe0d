-------------------------- MODULE InventoryProofs --------------------------
(***************************************************************************)
(* Inventory proved for any tenants, sites, tests, agents, devices and     *)
(* requests: rows never refer to rows that are gone, no row joins two      *)
(* tenants, and a claim gets to the delete of the row it was shown.        *)
(***************************************************************************)
EXTENDS Inventory, TLAPS

-----------------------------------------------------------------------------
(* What a handler has checked stays true until its write, except that rows *)
(* may have gone: ids are not reused and a row keeps its tenant.           *)
Checked(w) ==
    /\ w.op \in {"newAgent", "claim"} => sites[w.site] \in {w.tenant, Gone}
    /\ w.op = "update" =>
          /\ agents[w.agent] # Unborn /\ sites[w.site] # Unborn
          /\ w.agent \in liveAgents /\ w.site \in liveSites =>
                sites[w.site] = agents[w.agent].tenant
    /\ w.op = "assign" =>
          /\ sites[w.site] # Unborn
          /\ \A x \in w.tests :
                /\ tests[x] # Unborn
                /\ x \in liveTests /\ w.site \in liveSites => tests[x].tenant = sites[w.site]

(* A claim holds a pending row, or the id of one that has been deleted. *)
Held(w) == w.op \in {"claim", "consume"} => w.row = Gone \/ pending[w.row] # None

RequestsChecked == \A r \in Requests : req[r] # None => Checked(req[r])
RowsHeld == \A r \in Requests : req[r] # None => Held(req[r])

(* A test is pinned to an agent that is or was there. *)
SourcesKnown == \A x \in liveTests : tests[x].source = None \/ agents[tests[x].source] # Unborn

RowsInv == NoOrphans /\ TenantsApart /\ SourcesKnown

IInv == TypeOK /\ RowsInv /\ RequestsChecked /\ RowsHeld /\ ClaimConsumesRow

-----------------------------------------------------------------------------
(* Lemma: a pending write has the fields of its kind, and only a claim     *)
(* holds a row.                                                            *)
LEMMA PendingFields ==
    ASSUME NEW w \in Pending
    PROVE  /\ w.op \in {"newAgent", "update", "assign", "claim", "consume"}
           /\ w.op = "newAgent" => w \in [op : {"newAgent"}, tenant : Tenants, site : Sites]
           /\ w.op = "update" => w \in [op : {"update"}, agent : Agents, site : Sites]
           /\ w.op = "assign" => w \in [op : {"assign"}, site : Sites, tests : SUBSET Tests]
           /\ w.op = "claim" =>
                 w \in [op : {"claim"}, row : Keys \cup {Gone}, tenant : Tenants, site : Sites]
           /\ w.op = "consume" => w \in [op : {"consume"}, row : Keys \cup {Gone}]
           /\ ("row" \in DOMAIN w) = (w.op \in {"claim", "consume"})
BY DEF Pending

(* Lemma: forgetting a row keeps a request as it was, but for the row. *)
LEMMA ForgetRow ==
    ASSUME NEW f \in [Requests -> {None} \cup Pending], NEW K \in SUBSET (Keys \cup {Gone}), NEW r \in Requests
    PROVE  /\ forget(f, K)[r] \in {None} \cup Pending
           /\ (forget(f, K)[r] = None) = (f[r] = None)
           /\ f[r] # None =>
                 /\ forget(f, K)[r].op = f[r].op
                 /\ f[r].op \in {"newAgent", "update", "assign"} => forget(f, K)[r] = f[r]
                 /\ f[r].op \in {"claim", "consume"} =>
                       forget(f, K)[r].row = IF f[r].row \in K THEN Gone ELSE f[r].row
                 /\ f[r].op = "claim" =>
                       /\ forget(f, K)[r].tenant = f[r].tenant
                       /\ forget(f, K)[r].site = f[r].site
<1> DEFINE w == f[r]
           v == [w EXCEPT !.row = Gone]
<1>1. forget(f, K)[r] = IF w # None /\ "row" \in DOMAIN w /\ w.row \in K THEN v ELSE w
  BY DEF forget
<1>2. CASE w = None
  BY <1>1, <1>2
<1>3. CASE w # None /\ w.op = "claim"
  <2>1. w \in [op : {"claim"}, row : Keys \cup {Gone}, tenant : Tenants, site : Sites]
    BY <1>3, PendingFields
  <2>2. /\ v \in [op : {"claim"}, row : Keys \cup {Gone}, tenant : Tenants, site : Sites]
        /\ v.row = Gone /\ v.op = w.op /\ v.tenant = w.tenant /\ v.site = w.site
    BY <2>1
  <2>3. v \in Pending /\ v # None
    BY <2>2, InventoryNulls DEF Pending
  <2> HIDE DEF v
  <2> QED BY <1>1, <1>3, <2>1, <2>2, <2>3, PendingFields
<1>4. CASE w # None /\ w.op = "consume"
  <2>1. w \in [op : {"consume"}, row : Keys \cup {Gone}]
    BY <1>4, PendingFields
  <2>2. v \in [op : {"consume"}, row : Keys \cup {Gone}] /\ v.row = Gone /\ v.op = w.op
    BY <2>1
  <2>3. v \in Pending /\ v # None
    BY <2>2, InventoryNulls DEF Pending
  <2> HIDE DEF v
  <2> QED BY <1>1, <1>4, <2>1, <2>2, <2>3, PendingFields
<1>5. CASE w # None /\ w.op \notin {"claim", "consume"}
  BY <1>1, <1>5, PendingFields
<1> QED BY <1>2, <1>3, <1>4, <1>5

-----------------------------------------------------------------------------
(* The database starts empty and no request is under way. *)
LEMMA InitIInv == Init => IInv
<1> SUFFICES ASSUME Init PROVE IInv
  OBVIOUS
<1>1. TypeOK
  BY DEF Init, TypeOK
<1>2. liveTenants = {} /\ liveSites = {} /\ liveTests = {} /\ liveAgents = {}
  BY DEF Init, liveTenants, liveSites, liveTests, liveAgents, there
<1>3. RowsInv
  BY <1>2 DEF Init, RowsInv, NoOrphans, TenantsApart, SourcesKnown
<1>4. RequestsChecked /\ RowsHeld /\ ClaimConsumesRow
  BY DEF Init, RequestsChecked, RowsHeld, ClaimConsumesRow
<1> QED BY <1>1, <1>3, <1>4 DEF IInv

-----------------------------------------------------------------------------
(* Rows only age: none comes back, and none changes its tenant. *)
SitesAge == \A s \in Sites : sites[s] # Unborn => sites'[s] \in {sites[s], Gone}
TestsAge ==
    \A x \in Tests : tests[x] # Unborn =>
        tests'[x] = Gone \/ (there(tests'[x]) /\ there(tests[x]) /\ tests'[x].tenant = tests[x].tenant)
AgentsAge ==
    \A a \in Agents : agents[a] # Unborn =>
        agents'[a] = Gone \/ (there(agents'[a]) /\ there(agents[a]) /\ agents'[a].tenant = agents[a].tenant)
RowsAge == SitesAge /\ TestsAge /\ AgentsAge

(* Requests go on with what they have checked, or have nothing to check.   *)
SameChecks ==
    \A r \in Requests : req'[r] # None /\ req'[r].op # "consume" =>
        /\ req[r] # None /\ req'[r].op = req[r].op /\ req'[r].site = req[r].site
        /\ req[r].op \in {"newAgent", "claim"} => req'[r].tenant = req[r].tenant
        /\ req[r].op = "update" => req'[r].agent = req[r].agent
        /\ req[r].op = "assign" => req'[r].tests = req[r].tests

(* Lemma: aging rows leave the checks of the requests true. *)
LEMMA ChecksKept ==
    ASSUME TypeOK, TypeOK', RequestsChecked, RowsAge, SameChecks
    PROVE  RequestsChecked'
<1> SUFFICES ASSUME NEW r \in Requests, req'[r] # None
             PROVE  Checked(req[r])'
  BY DEF RequestsChecked
<1> DEFINE w == req[r]
           v == req'[r]
<1>1. v \in Pending
  BY DEF TypeOK
<1>2. CASE v.op = "consume"
  BY <1>2 DEF Checked
<1>3. CASE v.op # "consume"
  <2>1. /\ w # None /\ w \in Pending /\ Checked(w)
        /\ v.op = w.op /\ v.site = w.site
        /\ w.op \in {"newAgent", "claim"} => v.tenant = w.tenant
        /\ w.op = "update" => v.agent = w.agent
        /\ w.op = "assign" => v.tests = w.tests
    BY <1>3 DEF SameChecks, RequestsChecked, TypeOK
  <2> HIDE DEF w, v
  <2>2. v.site \in Sites
    BY <1>1, <1>3, PendingFields
  <2>3. CASE v.op \in {"newAgent", "claim"}
    <3>1. v.tenant \in Tenants
      BY <1>1, <2>3, PendingFields
    <3>2. sites[v.site] \in {v.tenant, Gone} /\ sites[v.site] # Unborn
      BY <2>1, <2>3, <3>1, InventoryNulls DEF Checked
    <3>3. sites'[v.site] \in {v.tenant, Gone}
      BY <2>2, <3>2 DEF RowsAge, SitesAge
    <3> QED BY <2>3, <3>3 DEF Checked, v
  <2>4. CASE v.op = "update"
    <3>1. v.agent \in Agents
      BY <1>1, <2>4, PendingFields
    <3>2. /\ agents[v.agent] # Unborn /\ sites[v.site] # Unborn
          /\ v.agent \in liveAgents /\ v.site \in liveSites => sites[v.site] = agents[v.agent].tenant
      BY <2>1, <2>4 DEF Checked
    <3>3. /\ agents'[v.agent] # Unborn /\ sites'[v.site] # Unborn
          /\ v.agent \in liveAgents' /\ v.site \in liveSites' => sites'[v.site] = agents'[v.agent].tenant
      BY <2>2, <3>1, <3>2, InventoryNulls DEF RowsAge, SitesAge, AgentsAge, there, liveAgents, liveSites
    <3> QED BY <2>4, <3>3 DEF Checked, v
  <2>5. CASE v.op = "assign"
    <3>1. v.tests \in SUBSET Tests
      BY <1>1, <2>5, PendingFields
    <3>2. /\ sites[v.site] # Unborn
          /\ \A x \in v.tests :
                /\ tests[x] # Unborn
                /\ x \in liveTests /\ v.site \in liveSites => tests[x].tenant = sites[v.site]
      BY <2>1, <2>5 DEF Checked
    <3>3. /\ sites'[v.site] # Unborn
          /\ \A x \in v.tests :
                /\ tests'[x] # Unborn
                /\ x \in liveTests' /\ v.site \in liveSites' => tests'[x].tenant = sites'[v.site]
      BY <2>2, <3>1, <3>2, InventoryNulls DEF RowsAge, SitesAge, TestsAge, there, liveTests, liveSites
    <3> QED BY <2>5, <3>3 DEF Checked, v
  <2> QED BY <1>1, <1>3, <2>3, <2>4, <2>5, PendingFields
<1> QED BY <1>2, <1>3

(* Lemma: rows that keep their places age. *)
LEMMA UnchangedAge ==
    ASSUME TypeOK
    PROVE  /\ UNCHANGED sites => SitesAge
           /\ UNCHANGED tests => TestsAge
           /\ UNCHANGED agents => AgentsAge
BY DEF SitesAge, TestsAge, AgentsAge, there, TypeOK

(* Lemma: requests that go on unchanged, or end, check the same. *)
LEMMA SameOrOver ==
    ASSUME \A r \in Requests : req'[r] \in {None, req[r]}
    PROVE  SameChecks
BY DEF SameChecks

-----------------------------------------------------------------------------
(* Lemma: a delete that takes along whatever refers to the deleted rows    *)
(* keeps the tables whole, and their rows age.                             *)
LEMMA CascadeKeeps ==
    ASSUME TypeOK, RowsInv,
           NEW T \in SUBSET Tenants, NEW S \in SUBSET liveSites,
           NEW X \in SUBSET liveTests, NEW A \in SUBSET liveAgents,
           \A s \in liveSites : sites[s] \in T => s \in S,
           \A x \in liveTests : tests[x].tenant \in T => x \in X,
           \A a \in liveAgents : agents[a].tenant \in T \/ agents[a].site \in S => a \in A,
           Cascade(T, S, X, A), req' \in [Requests -> {None} \cup Pending], UNCHANGED stream
    PROVE  TypeOK' /\ RowsInv' /\ RowsAge
<1>1. TypeOK'
  <2>1. /\ tenants' \in [Tenants -> {Unborn, Gone} \cup [enroll : BOOLEAN]]
        /\ sites' \in [Sites -> {Unborn, Gone} \cup Tenants]
        /\ tests' \in [Tests -> {Unborn, Gone} \cup TestRow]
        /\ agents' \in [Agents -> {Unborn, Gone} \cup AgentRow]
    BY DEF TypeOK, Cascade
  <2>2. /\ assigned' \subseteq Sites \X Tests /\ results' \subseteq Agents
        /\ pending' \in [Keys -> {None} \cup [due : BOOLEAN]]
    BY DEF TypeOK, Cascade
  <2> QED BY <2>1, <2>2 DEF TypeOK
<1>2. /\ liveTenants' = liveTenants \ T
      /\ liveSites' = liveSites \ S
      /\ liveTests' = liveTests \ X
      /\ liveAgents' = liveAgents \ A
  BY DEF TypeOK, Cascade, liveTenants, liveSites, liveTests, liveAgents, there
<1>3. /\ \A s \in Sites : sites'[s] \in {sites[s], Gone} /\ (s \notin S => sites'[s] = sites[s])
      /\ \A x \in Tests : tests'[x] \in {tests[x], Gone} /\ (x \notin X => tests'[x] = tests[x])
      /\ \A a \in Agents : agents'[a] \in {agents[a], Gone} /\ (a \notin A => agents'[a] = agents[a])
  BY DEF Cascade
<1>4. \A x \in liveTests : tests[x] \in TestRow
  BY DEF TypeOK, liveTests, there
<1>5. \A a \in liveAgents : agents[a] \in AgentRow
  BY DEF TypeOK, liveAgents, there
<1>6. liveSites \subseteq Sites /\ liveTests \subseteq Tests /\ liveAgents \subseteq Agents
  BY DEF liveSites, liveTests, liveAgents
<1>7. NoOrphans'
  <2>1. NoOrphans
    BY DEF RowsInv
  <2>2. \A s \in liveSites' : sites'[s] \in liveTenants'
    BY <1>2, <1>3, <1>6, <2>1 DEF NoOrphans
  <2>3. \A x \in liveTests' : tests'[x].tenant \in liveTenants'
    BY <1>2, <1>3, <1>6, <2>1 DEF NoOrphans
  <2>4. \A a \in liveAgents' : agents'[a].tenant \in liveTenants' /\ agents'[a].site \in liveSites'
    BY <1>2, <1>3, <1>6, <2>1 DEF NoOrphans
  <2>5. \A p \in assigned' : p[1] \in liveSites' /\ p[2] \in liveTests'
    BY <1>2, <2>1 DEF NoOrphans, Cascade
  <2>6. results' \subseteq liveAgents'
    BY <1>2, <2>1 DEF NoOrphans, Cascade
  <2>7. \A k \in Keys : pending'[k] # None => k.tenant \in liveTenants'
    BY <1>2, <2>1 DEF NoOrphans, Cascade
  <2> QED BY <2>2, <2>3, <2>4, <2>5, <2>6, <2>7 DEF NoOrphans
<1>8. TenantsApart'
  <2>1. TenantsApart /\ NoOrphans
    BY DEF RowsInv
  <2>2. \A a \in liveAgents' : sites'[agents'[a].site] = agents'[a].tenant
    BY <1>2, <1>3, <1>6, <2>1 DEF TenantsApart, NoOrphans
  <2>3. \A p \in assigned' : tests'[p[2]].tenant = sites'[p[1]]
    BY <1>3, <1>6, <2>1 DEF TenantsApart, NoOrphans, Cascade
  <2>4. \A x \in liveTests' :
           tests'[x].source \in liveAgents' => agents'[tests'[x].source].tenant = tests'[x].tenant
    BY <1>2, <1>3, <1>6, <2>1 DEF TenantsApart
  <2> QED BY <2>2, <2>3, <2>4 DEF TenantsApart
<1>9. SourcesKnown'
  <2>1. \A x \in liveTests : tests[x].source = None \/ agents[tests[x].source] # Unborn
    BY DEF RowsInv, SourcesKnown
  <2>2. \A x \in liveTests : tests[x].source = None \/ tests[x].source \in Agents
    BY <1>4 DEF TestRow
  <2>3. \A x \in liveTests' : tests'[x].source = None \/ agents'[tests'[x].source] # Unborn
    BY <1>2, <1>3, <1>6, <2>1, <2>2, InventoryNulls
  <2> QED BY <2>3 DEF SourcesKnown
<1>10. RowsAge
  BY <1>3, <1>2, <1>6 DEF RowsAge, SitesAge, TestsAge, AgentsAge, liveTests, liveAgents, there, TypeOK
<1> QED BY <1>1, <1>7, <1>8, <1>9, <1>10 DEF RowsInv

-----------------------------------------------------------------------------
(* Lemma: pending rows go, and the requests that hold them forget them,    *)
(* the one whose claim they end among them.                                *)
LEMMA PendingGoes ==
    ASSUME TypeOK, RowsHeld, ClaimConsumesRow,
           NEW K \in SUBSET (Keys \cup {Gone}), NEW f \in [Requests -> {None} \cup Pending],
           \A r \in Requests : f[r] = req[r] \/ (f[r] = None /\ (Doing(r, "consume") => req[r].row \in K)),
           req' = forget(f, K),
           \A k \in Keys : pending'[k] = IF k \in K THEN None ELSE pending[k]
    PROVE  /\ req' \in [Requests -> {None} \cup Pending]
           /\ RowsHeld' /\ ClaimConsumesRow' /\ SameChecks
<1>1. req' \in [Requests -> {None} \cup Pending]
  BY ForgetRow DEF forget
<1>2. ASSUME NEW r \in Requests, req'[r] # None
      PROVE  /\ req[r] # None /\ req[r] \in Pending /\ req'[r].op = req[r].op
             /\ req[r].op \in {"newAgent", "update", "assign"} => req'[r] = req[r]
             /\ req[r].op \in {"claim", "consume"} =>
                   req'[r].row = IF req[r].row \in K THEN Gone ELSE req[r].row
             /\ req[r].op = "claim" => req'[r].tenant = req[r].tenant /\ req'[r].site = req[r].site
  <2>1. f[r] # None
    BY <1>2, ForgetRow
  <2>2. f[r] = req[r] /\ req[r] \in Pending
    BY <2>1 DEF TypeOK
  <2> QED BY <2>1, <2>2, ForgetRow
<1>3. RowsHeld'
  <2> SUFFICES ASSUME NEW r \in Requests, req'[r] # None, req'[r].op \in {"claim", "consume"}, req'[r].row # Gone
               PROVE  pending'[req'[r].row] # None
    BY DEF RowsHeld, Held
  <2>1. /\ req[r] # None /\ req[r] \in Pending /\ req[r].op \in {"claim", "consume"}
        /\ req'[r].row = req[r].row /\ req[r].row \notin K
    BY <1>2
  <2>2. pending[req[r].row] # None
    BY <2>1 DEF RowsHeld, Held
  <2>3. req[r].row \in Keys
    BY <2>1, PendingFields
  <2> QED BY <2>1, <2>2, <2>3
<1>4. ClaimConsumesRow'
  <2> SUFFICES ASSUME NEW k \in Keys, pending'[k] # None, pending'[k].due
               PROVE  \E r \in Requests : req'[r] # None /\ req'[r].op = "consume" /\ req'[r].row = k
    BY DEF ClaimConsumesRow, Doing
  <2>1. k \notin K /\ pending[k] # None /\ pending[k].due
    OBVIOUS
  <2>2. PICK r \in Requests : req[r] # None /\ req[r].op = "consume" /\ req[r].row = k
    BY <2>1 DEF ClaimConsumesRow, Doing
  <2>3. f[r] = req[r]
    BY <2>1, <2>2 DEF Doing
  <2>4. req'[r] # None
    BY <2>2, <2>3, ForgetRow
  <2> QED BY <1>2, <2>1, <2>2, <2>4
<1>5. SameChecks
  <2> SUFFICES ASSUME NEW r \in Requests, req'[r] # None, req'[r].op # "consume"
               PROVE  /\ req[r] # None /\ req'[r].op = req[r].op /\ req'[r].site = req[r].site
                      /\ req[r].op \in {"newAgent", "claim"} => req'[r].tenant = req[r].tenant
                      /\ req[r].op = "update" => req'[r].agent = req[r].agent
                      /\ req[r].op = "assign" => req'[r].tests = req[r].tests
    BY DEF SameChecks
  <2>1. req[r].op \in {"newAgent", "update", "assign", "claim"}
    BY <1>2, PendingFields
  <2> QED BY <1>2, <2>1
<1> QED BY <1>1, <1>3, <1>4, <1>5

(* Lemma: one request goes on or ends, and the pending rows stay. *)
LEMMA PendingStays ==
    ASSUME TypeOK, RowsHeld, ClaimConsumesRow, UNCHANGED pending,
           NEW r \in Requests, ~ Doing(r, "consume"),
           req'[r] = None \/ Held(req'[r]),
           \A q \in Requests \ {r} : req'[q] = req[q]
    PROVE  RowsHeld' /\ ClaimConsumesRow'
<1>1. RowsHeld'
  BY DEF RowsHeld, Held
<1>2. ClaimConsumesRow'
  BY DEF ClaimConsumesRow, Doing
<1> QED BY <1>1, <1>2

(* Lemma: the requests and the pending rows stay. *)
LEMMA NobodyMoves ==
    ASSUME TypeOK, RowsHeld, ClaimConsumesRow, UNCHANGED <<pending, req>>
    PROVE  RowsHeld' /\ ClaimConsumesRow' /\ SameChecks
<1>1. RowsHeld' /\ ClaimConsumesRow'
  BY DEF RowsHeld, Held, ClaimConsumesRow, Doing
<1> QED BY <1>1, SameOrOver

-----------------------------------------------------------------------------
(* The deletes. *)
LEMMA DeleteTenantKeeps ==
    ASSUME IInv, NEW t \in Tenants, HandleDeleteTenant(t)
    PROVE  IInv'
<1> DEFINE S == {s \in liveSites : sites[s] = t}
           X == {x \in liveTests : tests[x].tenant = t}
           A == agentsOfTenant(t) \cup agentsOfSites(S)
           K == {k \in Keys : k.tenant = t}
<1>1. TypeOK /\ RowsInv /\ RequestsChecked /\ RowsHeld /\ ClaimConsumesRow
  BY DEF IInv
<1>2. Cascade({t}, S, X, A) /\ req' = forget(req, K) /\ UNCHANGED stream
  BY DEF HandleDeleteTenant, DeleteTenant
<1>3. req \in [Requests -> {None} \cup Pending]
  BY <1>1 DEF TypeOK
<1>4. \A k \in Keys : pending'[k] = IF k \in K THEN None ELSE pending[k]
  BY <1>2 DEF Cascade
<1>5. req' \in [Requests -> {None} \cup Pending] /\ RowsHeld' /\ ClaimConsumesRow' /\ SameChecks
  <2> HIDE DEF S, X, A
  <2> QED BY <1>1, <1>2, <1>3, <1>4, PendingGoes
<1>6. /\ S \in SUBSET liveSites /\ X \in SUBSET liveTests /\ A \in SUBSET liveAgents
      /\ \A s \in liveSites : sites[s] \in {t} => s \in S
      /\ \A x \in liveTests : tests[x].tenant \in {t} => x \in X
      /\ \A a \in liveAgents : agents[a].tenant \in {t} \/ agents[a].site \in S => a \in A
  BY DEF agentsOfTenant, agentsOfSites
<1> HIDE DEF S, X, A, K
<1>7. TypeOK' /\ RowsInv' /\ RowsAge
  BY <1>1, <1>2, <1>5, <1>6, CascadeKeeps
<1>8. RequestsChecked'
  BY <1>1, <1>5, <1>7, ChecksKept
<1> QED BY <1>5, <1>7, <1>8 DEF IInv

(* Deleting a site, a test or an agent takes the rows that name it along. *)
LEMMA DeleteRowKeeps ==
    ASSUME IInv,
           \/ \E s \in Sites : HandleDeleteSite(s)
           \/ \E x \in Tests : HandleDeleteTest(x)
           \/ \E a \in Agents : HandleDeleteAgent(a)
    PROVE  IInv'
<1>1. /\ TypeOK /\ RowsInv /\ RequestsChecked /\ RowsHeld /\ ClaimConsumesRow
      /\ req \in [Requests -> {None} \cup Pending]
  BY DEF IInv, TypeOK
<1> DEFINE Effect(S, X, A) == /\ Cascade({}, S, X, A) /\ UNCHANGED <<req, stream>>
                              /\ \A a \in liveAgents : agents[a].site \in S => a \in A
           Some == \E S \in SUBSET liveSites, X \in SUBSET liveTests, A \in SUBSET liveAgents : Effect(S, X, A)
<1>2. Some
  <2>1. ASSUME NEW s \in Sites, HandleDeleteSite(s)
        PROVE  Some
    <3>1. Effect({s} \cap liveSites, {}, agentsOfSites({s})) /\ agentsOfSites({s}) \in SUBSET liveAgents
      BY <2>1 DEF HandleDeleteSite, DeleteSite, agentsOfSites
    <3> QED BY <3>1
  <2>2. ASSUME NEW x \in Tests, HandleDeleteTest(x)
        PROVE  Some
    BY <2>2 DEF HandleDeleteTest, DeleteTest
  <2>3. ASSUME NEW a \in Agents, HandleDeleteAgent(a)
        PROVE  Some
    BY <2>3 DEF HandleDeleteAgent, DeleteAgent
  <2> QED BY <2>1, <2>2, <2>3
<1>3. PICK S \in SUBSET liveSites, X \in SUBSET liveTests, A \in SUBSET liveAgents : Effect(S, X, A)
  BY <1>2
<1>4. TypeOK' /\ RowsInv' /\ RowsAge
  BY <1>1, <1>3, CascadeKeeps
<1>5. UNCHANGED pending
  BY <1>1, <1>3 DEF Cascade, TypeOK
<1>6. RowsHeld' /\ ClaimConsumesRow' /\ SameChecks
  BY <1>1, <1>3, <1>5, NobodyMoves
<1> QED BY <1>1, <1>4, <1>6, ChecksKept DEF IInv

(* Dismissing a device takes its pending row from whoever was claiming it. *)
LEMMA DismissKeeps ==
    ASSUME IInv, NEW k \in Keys, HandleDismissUnclaimedAgent(k)
    PROVE  IInv'
<1>1. /\ TypeOK /\ RowsInv /\ RequestsChecked /\ RowsHeld /\ ClaimConsumesRow
      /\ req \in [Requests -> {None} \cup Pending]
  BY DEF IInv, TypeOK
<1>2. /\ req' = forget(req, {k}) /\ pending' = [pending EXCEPT ![k] = None]
      /\ UNCHANGED <<tenants, sites, tests, assigned, agents, results, stream>>
  BY DEF HandleDismissUnclaimedAgent
<1>3. \A j \in Keys : pending'[j] = IF j \in {k} THEN None ELSE pending[j]
  BY <1>1, <1>2 DEF TypeOK
<1>4. req' \in [Requests -> {None} \cup Pending] /\ RowsHeld' /\ ClaimConsumesRow' /\ SameChecks
  BY <1>1, <1>2, <1>3, PendingGoes
<1>5. TypeOK'
  BY <1>1, <1>2, <1>4 DEF TypeOK
<1>6. RowsInv'
  BY <1>1, <1>2, <1>3 DEF RowsInv, NoOrphans, TenantsApart, SourcesKnown, there,
                          liveTenants, liveSites, liveTests, liveAgents
<1>7. RowsAge
  BY <1>1, <1>2, UnchangedAge DEF RowsAge
<1> QED BY <1>1, <1>4, <1>5, <1>6, <1>7, ChecksKept DEF IInv

-----------------------------------------------------------------------------
(* What the operators create. *)
LEMMA TenantKeeps ==
    ASSUME IInv, NEW t \in Tenants,
           HandleCreateTenant(t) \/ HandleGenerateEnrollToken(t) \/ HandleRevokeEnrollToken(t)
    PROVE  IInv'
<1>1. TypeOK /\ RowsInv /\ RequestsChecked /\ RowsHeld /\ ClaimConsumesRow
  BY DEF IInv
<1>2. /\ \E b \in BOOLEAN : tenants' = [tenants EXCEPT ![t] = [enroll |-> b]]
      /\ UNCHANGED <<sites, tests, assigned, agents, results, pending, req, stream>>
  <2>1. tenants[t] \in {Unborn, Gone} \cup [enroll : BOOLEAN]
    BY <1>1 DEF TypeOK
  <2>2. ASSUME NEW b \in BOOLEAN, t \in liveTenants
        PROVE  [tenants EXCEPT ![t].enroll = b] = [tenants EXCEPT ![t] = [enroll |-> b]]
    <3>1. \A w \in [enroll : BOOLEAN] : [w EXCEPT !.enroll = b] = [enroll |-> b]
      OBVIOUS
    <3>2. tenants[t] \in [enroll : BOOLEAN]
      BY <2>1, <2>2 DEF liveTenants, there
    <3> QED BY <1>1, <3>1, <3>2 DEF TypeOK
  <2> QED BY <2>2 DEF HandleCreateTenant, HandleGenerateEnrollToken, HandleRevokeEnrollToken
<1>3. TypeOK'
  BY <1>1, <1>2 DEF TypeOK
<1>4. liveTenants \subseteq liveTenants'
  BY <1>1, <1>2, InventoryNulls DEF TypeOK, liveTenants, there
<1>5. RowsInv'
  BY <1>1, <1>2, <1>4 DEF RowsInv, NoOrphans, TenantsApart, SourcesKnown, there,
                          liveSites, liveTests, liveAgents
<1>6. RowsAge
  BY <1>1, <1>2, UnchangedAge DEF RowsAge
<1>7. RowsHeld' /\ ClaimConsumesRow' /\ SameChecks
  BY <1>1, <1>2, NobodyMoves
<1> QED BY <1>1, <1>3, <1>5, <1>6, <1>7, ChecksKept DEF IInv

(* A new site belongs to a tenant that is there. *)
LEMMA SiteKeeps ==
    ASSUME IInv, NEW t \in Tenants, NEW s \in Sites, HandleCreateSite(t, s)
    PROVE  IInv'
<1>1. TypeOK /\ RowsInv /\ RequestsChecked /\ RowsHeld /\ ClaimConsumesRow
  BY DEF IInv
<1>2. /\ t \in liveTenants /\ sites[s] = Unborn /\ sites' = [sites EXCEPT ![s] = t]
      /\ UNCHANGED <<tenants, tests, assigned, agents, results, pending, req, stream>>
  BY DEF HandleCreateSite
<1>3. TypeOK'
  BY <1>1, <1>2 DEF TypeOK
<1>4. /\ liveSites' = liveSites \cup {s} /\ s \notin liveSites
      /\ \A z \in liveSites : sites'[z] = sites[z]
      /\ sites'[s] = t
  BY <1>1, <1>2, InventoryNulls DEF TypeOK, liveSites, there
<1>5. UNCHANGED <<liveTenants, liveTests, liveAgents>>
  BY <1>2 DEF liveTenants, liveTests, liveAgents, there
<1>6. RowsInv'
  BY <1>1, <1>2, <1>4, <1>5 DEF RowsInv, NoOrphans, TenantsApart, SourcesKnown
<1>7. RowsAge
  <2>1. SitesAge
    BY <1>1, <1>2 DEF SitesAge, TypeOK
  <2> QED BY <1>1, <1>2, <2>1, UnchangedAge DEF RowsAge
<1>8. RowsHeld' /\ ClaimConsumesRow' /\ SameChecks
  BY <1>1, <1>2, NobodyMoves
<1> QED BY <1>1, <1>3, <1>6, <1>7, <1>8, ChecksKept DEF IInv

(* A test is pinned to an agent of its own tenant, which was there. *)
LEMMA TestKeeps ==
    ASSUME IInv, NEW x \in Tests, NEW a \in Agents \cup {None},
           HandleUpdateTest(x, a) \/ \E t \in Tenants : HandleCreateTest(t, x, a)
    PROVE  IInv'
<1>1. TypeOK /\ RowsInv /\ RequestsChecked /\ RowsHeld /\ ClaimConsumesRow
  BY DEF IInv
<1>2. PICK t \in Tenants :
         /\ t \in liveTenants /\ validatePerfmonSource(t, a)
         /\ tests[x] = Unborn \/ (x \in liveTests /\ tests[x].tenant = t)
         /\ tests' = [tests EXCEPT ![x] = [tenant |-> t, source |-> a]]
         /\ UNCHANGED <<tenants, sites, assigned, agents, results, pending, req, stream>>
  <2>1. CASE HandleUpdateTest(x, a)
    <3>1. x \in liveTests /\ tests[x] \in TestRow
      BY <1>1, <2>1 DEF HandleUpdateTest, TypeOK, liveTests, there
    <3>2. tests[x].tenant \in liveTenants /\ tests[x].tenant \in Tenants
      BY <1>1, <3>1 DEF RowsInv, NoOrphans, liveTenants
    <3>3. [tests EXCEPT ![x].source = a] = [tests EXCEPT ![x] = [tenant |-> tests[x].tenant, source |-> a]]
      <4>1. \A w \in TestRow : [w EXCEPT !.source = a] = [tenant |-> w.tenant, source |-> a]
        BY DEF TestRow
      <4> QED BY <1>1, <3>1, <4>1 DEF TypeOK
    <3> QED BY <2>1, <3>1, <3>2, <3>3 DEF HandleUpdateTest, UpdateTest
  <2>2. CASE \E t \in Tenants : HandleCreateTest(t, x, a)
    BY <2>2 DEF HandleCreateTest, CreateTest
  <2> QED BY <2>1, <2>2
<1>3. TypeOK'
  BY <1>1, <1>2 DEF TypeOK, TestRow
<1>4. /\ liveTests' = liveTests \cup {x}
      /\ \A z \in liveTests \ {x} : tests'[z] = tests[z]
      /\ tests'[x] = [tenant |-> t, source |-> a]
      /\ x \in liveTests => tests[x].tenant = t
  <2>1. [tenant |-> t, source |-> a] \in TestRow
    BY DEF TestRow
  <2> QED BY <1>1, <1>2, <2>1, InventoryNulls DEF TypeOK, liveTests, there
<1>5. UNCHANGED <<liveTenants, liveSites, liveAgents>>
  BY <1>2 DEF liveTenants, liveSites, liveAgents, there
<1>6. a = None \/ (a \in liveAgents /\ agents[a].tenant = t /\ agents[a] # Unborn)
  BY <1>2 DEF validatePerfmonSource, inTenant, liveAgents, there
<1>7. NoOrphans'
  BY <1>1, <1>2, <1>4, <1>5 DEF RowsInv, NoOrphans
<1>8. TenantsApart'
  <2>1. \A p \in assigned : tests'[p[2]].tenant = tests[p[2]].tenant
    BY <1>1, <1>4 DEF RowsInv, NoOrphans
  <2>2. a \in liveAgents => agents[a].tenant = t
    BY <1>6, InventoryNulls DEF liveAgents
  <2> QED BY <1>1, <1>2, <1>4, <1>5, <2>1, <2>2 DEF RowsInv, TenantsApart
<1>9. SourcesKnown'
  BY <1>1, <1>2, <1>4, <1>6 DEF RowsInv, SourcesKnown
<1>10. RowsAge
  <2>1. TestsAge
    BY <1>1, <1>2, <1>4 DEF TestsAge, TypeOK, liveTests, there
  <2> QED BY <1>1, <1>2, <2>1, UnchangedAge DEF RowsAge
<1>11. RowsHeld' /\ ClaimConsumesRow' /\ SameChecks
  BY <1>1, <1>2, NobodyMoves
<1> QED BY <1>1, <1>3, <1>7, <1>8, <1>9, <1>10, <1>11, ChecksKept DEF IInv, RowsInv

-----------------------------------------------------------------------------
(* Lemma: a step of one request that leaves the tables alone keeps the     *)
(* invariant, if what the request is about to write has been checked.      *)
LEMMA RequestMoves ==
    ASSUME IInv, NEW r \in Requests, ~ Doing(r, "consume"),
           NEW w \in {None} \cup Pending, w = None \/ (Checked(w) /\ Held(w)),
           req' = [req EXCEPT ![r] = w], UNCHANGED <<rows, stream>>
    PROVE  IInv'
<1>1. /\ TypeOK /\ RowsInv /\ RequestsChecked /\ RowsHeld /\ ClaimConsumesRow
      /\ UNCHANGED <<tenants, sites, tests, assigned, agents, results, pending>>
  BY DEF IInv, rows
<1>2. TypeOK'
  BY <1>1 DEF TypeOK
<1>3. UNCHANGED <<liveTenants, liveSites, liveTests, liveAgents>>
  BY <1>1 DEF liveTenants, liveSites, liveTests, liveAgents, there
<1>4. RowsInv'
  BY <1>1, <1>3 DEF RowsInv, NoOrphans, TenantsApart, SourcesKnown
<1>5. req'[r] = w /\ \A q \in Requests \ {r} : req'[q] = req[q]
  BY <1>1 DEF TypeOK
<1>6. RowsHeld' /\ ClaimConsumesRow'
  BY <1>1, <1>5, PendingStays
<1>7. RequestsChecked'
  <2> SUFFICES ASSUME NEW q \in Requests, req'[q] # None
               PROVE  Checked(req[q])'
    BY DEF RequestsChecked
  <2>1. CASE q = r
    BY <1>1, <1>3, <1>5, <2>1 DEF Checked
  <2>2. CASE q # r
    BY <1>1, <1>3, <1>5, <2>2 DEF Checked, RequestsChecked
  <2> QED BY <2>1, <2>2
<1> QED BY <1>2, <1>4, <1>6, <1>7 DEF IInv

(* The handlers that check before they write. *)
LEMMA HandlersKeep ==
    ASSUME IInv, NEW r \in Requests, Handlers(r)
    PROVE  IInv'
<1>1. TypeOK /\ RowsInv
  BY DEF IInv
<1>2. ASSUME NEW w \in Pending, Checked(w), Held(w), Admit(r, w)
      PROVE  IInv'
  <2>1. req[r] = None /\ req' = [req EXCEPT ![r] = w] /\ UNCHANGED <<rows, stream>>
    BY <1>2 DEF Admit
  <2>2. ~ Doing(r, "consume")
    BY <2>1 DEF Doing
  <2> QED BY <1>2, <2>1, <2>2, RequestMoves
<1>3. ASSUME NEW s \in Sites, HandleCreateAgent(r, s)
      PROVE  IInv'
  <2> DEFINE w == [op |-> "newAgent", tenant |-> sites[s], site |-> s]
  <2>1. sites[s] \in Tenants
    BY <1>1, <1>3 DEF HandleCreateAgent, TypeOK, liveSites, there
  <2>2. w \in Pending
    BY <2>1 DEF Pending
  <2>3. Checked(w) /\ Held(w)
    BY DEF Checked, Held
  <2> QED BY <1>2, <1>3, <2>2, <2>3 DEF HandleCreateAgent
<1>4. ASSUME NEW a \in Agents, NEW s \in Sites, HandleUpdateAgent(r, a, s)
      PROVE  IInv'
  <2> DEFINE w == [op |-> "update", agent |-> a, site |-> s]
  <2>1. w \in Pending
    BY DEF Pending
  <2>2. Checked(w) /\ Held(w)
    BY <1>4 DEF Checked, Held, HandleUpdateAgent, inTenant, liveAgents, liveSites, there
  <2> QED BY <1>2, <1>4, <2>1, <2>2 DEF HandleUpdateAgent
<1>5. ASSUME NEW s \in Sites, NEW X \in SUBSET Tests, HandleSetSiteTests(r, s, X)
      PROVE  IInv'
  <2> DEFINE w == [op |-> "assign", site |-> s, tests |-> X]
  <2>1. w \in Pending
    BY DEF Pending
  <2>2. Checked(w) /\ Held(w)
    BY <1>5 DEF Checked, Held, HandleSetSiteTests, inTenant, liveTests, liveSites, there
  <2> QED BY <1>2, <1>5, <2>1, <2>2 DEF HandleSetSiteTests
<1>6. ASSUME NEW k \in Keys, NEW s \in Sites, HandleClaimAgent(r, k, s)
      PROVE  IInv'
  <2> DEFINE w == [op |-> "claim", row |-> k, tenant |-> k.tenant, site |-> s]
  <2>1. w \in Pending
    BY DEF Pending, Keys
  <2>2. Checked(w) /\ Held(w)
    BY <1>6 DEF Checked, Held, HandleClaimAgent, inTenant
  <2> QED BY <1>2, <1>6, <2>1, <2>2 DEF HandleClaimAgent
<1> QED BY <1>3, <1>4, <1>5, <1>6 DEF Handlers

-----------------------------------------------------------------------------
(* Lemma: the row of a new agent is of one tenant with its site, and no    *)
(* test, site or result refers to it yet.                                  *)
LEMMA InsertKeeps ==
    ASSUME TypeOK, RowsInv, NEW a \in Agents, NEW t \in Tenants, NEW s \in Sites,
           InsertAgent(a, t, s), sites[s] \in {t, Gone},
           UNCHANGED <<tenants, sites, tests, assigned, results>>,
           \A k \in Keys : pending'[k] # None => pending[k] # None
    PROVE  /\ agents' \in [Agents -> {Unborn, Gone} \cup AgentRow]
           /\ RowsInv' /\ RowsAge
<1>1. /\ agents[a] = Unborn /\ t \in liveTenants /\ s \in liveSites /\ sites[s] = t
      /\ agents' = [agents EXCEPT ![a] = [tenant |-> t, site |-> s]]
  BY DEF InsertAgent, mayInsertAgent, liveSites, there
<1>2. [tenant |-> t, site |-> s] \in AgentRow
  BY DEF AgentRow
<1>3. agents' \in [Agents -> {Unborn, Gone} \cup AgentRow]
  BY <1>1, <1>2 DEF TypeOK
<1>4. /\ liveAgents' = liveAgents \cup {a} /\ a \notin liveAgents
      /\ \A b \in Agents \ {a} : agents'[b] = agents[b]
      /\ agents'[a] = [tenant |-> t, site |-> s]
  BY <1>1, <1>2, InventoryNulls DEF TypeOK, liveAgents, there
<1>5. UNCHANGED <<liveTenants, liveSites, liveTests>>
  BY DEF liveTenants, liveSites, liveTests, there
<1>6. \A x \in liveTests : tests[x].source # a
  <2>1. a # None
    BY InventoryNulls
  <2> QED BY <1>1, <2>1 DEF RowsInv, SourcesKnown
<1>7. liveAgents \subseteq Agents \ {a}
  BY <1>4 DEF liveAgents
<1>8. NoOrphans'
  BY <1>1, <1>4, <1>5, <1>7 DEF RowsInv, NoOrphans
<1>9. TenantsApart'
  BY <1>1, <1>4, <1>5, <1>6, <1>7 DEF RowsInv, TenantsApart
<1>10. SourcesKnown'
  <2>1. \A b \in Agents : agents[b] # Unborn => agents'[b] # Unborn
    BY <1>1, <1>4
  <2>2. \A x \in liveTests : tests[x].source \in Agents \cup {None}
    BY DEF TypeOK, liveTests, there, TestRow
  <2> QED BY <1>5, <2>1, <2>2 DEF RowsInv, SourcesKnown
<1>11. RowsAge
  <2>1. AgentsAge
    BY <1>1, <1>4 DEF AgentsAge, TypeOK, there
  <2> QED BY <2>1, UnchangedAge DEF RowsAge
<1> QED BY <1>3, <1>8, <1>9, <1>10, <1>11 DEF RowsInv

(* The insert of an agent meets the foreign keys as they are now, not as the handler checked them. *)
LEMMA CreateAgentKeeps ==
    ASSUME IInv, NEW r \in Requests, NEW a \in Agents, CreateAgent(r, a)
    PROVE  IInv'
<1>1. /\ TypeOK /\ RowsInv /\ RequestsChecked /\ RowsHeld /\ ClaimConsumesRow
      /\ req[r] # None /\ req[r] \in Pending /\ req[r].op = "newAgent"
      /\ req' = [req EXCEPT ![r] = None]
      /\ UNCHANGED <<tenants, sites, tests, assigned, results, pending, stream>>
  BY DEF IInv, CreateAgent, Doing, Done, TypeOK
<1>2. req[r].tenant \in Tenants /\ req[r].site \in Sites /\ sites[req[r].site] \in {req[r].tenant, Gone}
  BY <1>1, PendingFields DEF RequestsChecked, Checked
<1>3. InsertAgent(a, req[r].tenant, req[r].site)
  BY DEF CreateAgent
<1>4. agents' \in [Agents -> {Unborn, Gone} \cup AgentRow] /\ RowsInv' /\ RowsAge
  BY <1>1, <1>2, <1>3, InsertKeeps
<1>5. TypeOK'
  BY <1>1, <1>4 DEF TypeOK
<1>6. req'[r] = None /\ \A q \in Requests \ {r} : req'[q] = req[q]
  BY <1>1 DEF TypeOK
<1>7. RowsHeld' /\ ClaimConsumesRow'
  BY <1>1, <1>6, PendingStays DEF Doing
<1>8. SameChecks
  BY <1>6, SameOrOver
<1> QED BY <1>1, <1>4, <1>5, <1>7, <1>8, ChecksKept DEF IInv

(* The claim marks the row it holds, and is the request that will delete it. *)
LEMMA ClaimCreateKeeps ==
    ASSUME IInv, NEW r \in Requests, NEW a \in Agents, ClaimCreate(r, a)
    PROVE  IInv'
<1> DEFINE k == req[r].row
           w == [op |-> "consume", row |-> k]
<1>1. /\ TypeOK /\ RowsInv /\ RequestsChecked /\ RowsHeld /\ ClaimConsumesRow
      /\ req[r] # None /\ req[r] \in Pending /\ req[r].op = "claim"
      /\ req' = [req EXCEPT ![r] = w]
      /\ pending' = IF k = Gone THEN pending ELSE [pending EXCEPT ![k].due = TRUE]
      /\ UNCHANGED <<tenants, sites, tests, assigned, results, stream>>
  BY DEF IInv, ClaimCreate, Doing, TypeOK
<1>2. /\ req[r].tenant \in Tenants /\ req[r].site \in Sites /\ sites[req[r].site] \in {req[r].tenant, Gone}
      /\ k \in Keys \cup {Gone}
  BY <1>1, PendingFields DEF RequestsChecked, Checked
<1>3. k # Gone => k \in Keys /\ pending[k] \in [due : BOOLEAN]
  BY <1>1, <1>2 DEF RowsHeld, Held, TypeOK
<1>4. w \in Pending /\ w # None
  <2>1. w \in Pending
    BY <1>2 DEF Pending
  <2> QED BY <2>1, InventoryNulls
<1>5. /\ pending' \in [Keys -> {None} \cup [due : BOOLEAN]]
      /\ \A j \in Keys : j # k => pending'[j] = pending[j]
      /\ \A j \in Keys : (pending'[j] = None) = (pending[j] = None)
  <2>1. CASE k = Gone
    BY <1>1, <2>1 DEF TypeOK
  <2>2. CASE k # Gone
    <3>1. [pending[k] EXCEPT !.due = TRUE] \in [due : BOOLEAN]
      BY <1>3, <2>2
    <3>2. pending' = [pending EXCEPT ![k] = [pending[k] EXCEPT !.due = TRUE]]
      BY <1>1, <1>3, <2>2 DEF TypeOK
    <3>3. [pending[k] EXCEPT !.due = TRUE] # None /\ pending[k] # None
      BY <1>3, <2>2, <3>1, InventoryNulls
    <3> HIDE DEF k
    <3> QED BY <1>1, <1>3, <2>2, <3>1, <3>2, <3>3 DEF TypeOK
  <2> QED BY <2>1, <2>2
<1>6. agents' \in [Agents -> {Unborn, Gone} \cup AgentRow] /\ RowsInv' /\ RowsAge
  <2>1. InsertAgent(a, req[r].tenant, req[r].site)
    BY DEF ClaimCreate
  <2> QED BY <1>1, <1>2, <1>5, <2>1, InsertKeeps
<1>7. TypeOK'
  BY <1>1, <1>4, <1>5, <1>6 DEF TypeOK
<1>8. req'[r] = w /\ \A q \in Requests \ {r} : req'[q] = req[q]
  BY <1>1 DEF TypeOK
<1>9. RowsHeld'
  <2> SUFFICES ASSUME NEW q \in Requests, req'[q] # None, req'[q].op \in {"claim", "consume"}, req'[q].row # Gone
               PROVE  pending'[req'[q].row] # None
    BY DEF RowsHeld, Held
  <2>1. CASE q = r
    BY <1>3, <1>5, <1>8, <2>1, InventoryNulls
  <2>2. CASE q # r
    <3>1. req[q] \in Pending /\ req'[q] = req[q] /\ pending[req[q].row] # None
      BY <1>1, <1>8, <2>2 DEF RowsHeld, Held, TypeOK
    <3>2. req[q].row \in Keys
      BY <3>1, PendingFields
    <3> QED BY <1>5, <3>1, <3>2
  <2> QED BY <2>1, <2>2
<1>10. ClaimConsumesRow'
  <2> SUFFICES ASSUME NEW j \in Keys, pending'[j] # None, pending'[j].due
               PROVE  \E q \in Requests : req'[q] # None /\ req'[q].op = "consume" /\ req'[q].row = j
    BY DEF ClaimConsumesRow, Doing
  <2>1. CASE j = k
    BY <1>4, <1>8, <2>1
  <2>2. CASE j # k
    <3>1. PICK q \in Requests : req[q] # None /\ req[q].op = "consume" /\ req[q].row = j
      BY <1>1, <1>5, <2>2 DEF ClaimConsumesRow, Doing
    <3>2. q # r
      BY <1>1, <3>1
    <3> QED BY <1>8, <3>1, <3>2
  <2> QED BY <2>1, <2>2
<1>11. SameChecks
  BY <1>4, <1>8 DEF SameChecks
<1> QED BY <1>1, <1>6, <1>7, <1>9, <1>10, <1>11, ChecksKept DEF IInv

(* An agent moves to a site of its own tenant, if both are still there. *)
LEMMA UpdateAgentKeeps ==
    ASSUME IInv, NEW r \in Requests, UpdateAgent(r)
    PROVE  IInv'
<1> DEFINE a == req[r].agent
           s == req[r].site
<1>1. /\ TypeOK /\ RowsInv /\ RequestsChecked /\ RowsHeld /\ ClaimConsumesRow
      /\ req[r] # None /\ req[r] \in Pending /\ req[r].op = "update"
      /\ a \in liveAgents /\ s \in liveSites
      /\ agents' = [agents EXCEPT ![a].site = s]
      /\ req' = [req EXCEPT ![r] = None]
      /\ UNCHANGED <<tenants, sites, tests, assigned, results, pending, stream>>
  BY DEF IInv, UpdateAgent, Doing, Done, TypeOK
<1>2. a \in Agents /\ s \in Sites /\ agents[a] \in AgentRow /\ sites[s] = agents[a].tenant
  BY <1>1, PendingFields DEF RequestsChecked, Checked, TypeOK, liveAgents, there
<1> HIDE DEF a, s
<1>3. agents' = [agents EXCEPT ![a] = [tenant |-> agents[a].tenant, site |-> s]]
  <2>1. \A w \in AgentRow : [w EXCEPT !.site = s] = [tenant |-> w.tenant, site |-> s]
    BY DEF AgentRow
  <2> QED BY <1>1, <1>2, <2>1 DEF TypeOK
<1>4. [tenant |-> agents[a].tenant, site |-> s] \in AgentRow
  BY <1>2 DEF AgentRow
<1>5. TypeOK'
  BY <1>1, <1>3, <1>4 DEF TypeOK
<1>6. /\ liveAgents' = liveAgents
      /\ \A b \in Agents \ {a} : agents'[b] = agents[b]
      /\ agents'[a].tenant = agents[a].tenant /\ agents'[a].site = s /\ agents'[a] # Unborn
  BY <1>1, <1>2, <1>3, <1>4, InventoryNulls DEF TypeOK, liveAgents, there
<1>7. UNCHANGED <<liveTenants, liveSites, liveTests>>
  BY <1>1 DEF liveTenants, liveSites, liveTests, there
<1>8. liveAgents \subseteq Agents
  BY DEF liveAgents
<1>9. NoOrphans'
  BY <1>1, <1>6, <1>7, <1>8 DEF RowsInv, NoOrphans
<1>10. TenantsApart'
  BY <1>1, <1>2, <1>6, <1>7, <1>8 DEF RowsInv, TenantsApart
<1>11. SourcesKnown'
  <2>1. \A b \in Agents : agents[b] # Unborn => agents'[b] # Unborn
    BY <1>6
  <2>2. \A x \in liveTests : tests[x].source \in Agents \cup {None}
    BY <1>1 DEF TypeOK, liveTests, there, TestRow
  <2> QED BY <1>1, <1>7, <2>1, <2>2 DEF RowsInv, SourcesKnown
<1>12. RowsAge
  <2>1. \A b \in Agents : there(agents'[b]) = there(agents[b])
    BY <1>2, <1>4, <1>3, <1>1, InventoryNulls DEF TypeOK, there
  <2>2. AgentsAge
    BY <1>6, <2>1 DEF AgentsAge, there
  <2> QED BY <1>1, <2>2, UnchangedAge DEF RowsAge
<1>13. req'[r] = None /\ \A q \in Requests \ {r} : req'[q] = req[q]
  BY <1>1 DEF TypeOK
<1>14. RowsHeld' /\ ClaimConsumesRow'
  BY <1>1, <1>13, PendingStays DEF Doing
<1>15. SameChecks
  BY <1>13, SameOrOver
<1> QED BY <1>1, <1>5, <1>9, <1>10, <1>11, <1>12, <1>14, <1>15, ChecksKept DEF IInv, RowsInv

(* The assignment replaces the tests of its site in one transaction, under the foreign keys. *)
LEMMA SetSiteTestsKeeps ==
    ASSUME IInv, NEW r \in Requests, SetSiteTests(r)
    PROVE  IInv'
<1> DEFINE s == req[r].site
           X == req[r].tests
<1>1. /\ TypeOK /\ RowsInv /\ RequestsChecked /\ RowsHeld /\ ClaimConsumesRow
      /\ req[r] # None /\ req[r] \in Pending /\ req[r].op = "assign"
      /\ X = {} \/ (s \in liveSites /\ X \subseteq liveTests)
      /\ assigned' = {p \in assigned : p[1] # s} \cup ({s} \X X)
      /\ req' = [req EXCEPT ![r] = None]
      /\ UNCHANGED <<tenants, sites, tests, agents, results, pending, stream>>
  BY DEF IInv, SetSiteTests, Doing, Done, TypeOK
<1>2. /\ s \in Sites /\ X \in SUBSET Tests
      /\ \A x \in X : x \in liveTests /\ s \in liveSites => tests[x].tenant = sites[s]
  BY <1>1, PendingFields DEF RequestsChecked, Checked
<1> HIDE DEF s, X
<1>3. TypeOK'
  BY <1>1, <1>2 DEF TypeOK
<1>4. UNCHANGED <<liveTenants, liveSites, liveTests, liveAgents>>
  BY <1>1 DEF liveTenants, liveSites, liveTests, liveAgents, there
<1>5. \A p \in assigned' : p \in assigned \/ (p[1] = s /\ p[2] \in X /\ s \in liveSites /\ p[2] \in liveTests)
  BY <1>1
<1>6. RowsInv'
  <2>1. \A p \in assigned' : p[1] \in liveSites /\ p[2] \in liveTests /\ tests[p[2]].tenant = sites[p[1]]
    BY <1>1, <1>2, <1>5 DEF RowsInv, NoOrphans, TenantsApart
  <2>2. NoOrphans'
    BY <1>1, <1>4, <2>1 DEF RowsInv, NoOrphans
  <2>3. TenantsApart'
    BY <1>1, <1>4, <2>1 DEF RowsInv, TenantsApart
  <2> QED BY <1>1, <1>4, <2>2, <2>3 DEF RowsInv, SourcesKnown
<1>7. RowsAge
  BY <1>1, UnchangedAge DEF RowsAge
<1>8. req'[r] = None /\ \A q \in Requests \ {r} : req'[q] = req[q]
  BY <1>1 DEF TypeOK
<1>9. RowsHeld' /\ ClaimConsumesRow'
  BY <1>1, <1>8, PendingStays DEF Doing
<1>10. SameChecks
  BY <1>8, SameOrOver
<1> QED BY <1>1, <1>3, <1>6, <1>7, <1>9, <1>10, ChecksKept DEF IInv

(* The last step of a claim removes the unclaimed row it copied. *)
LEMMA ConsumeKeeps ==
    ASSUME IInv, NEW r \in Requests, DeleteUnclaimedAgent(r)
    PROVE  IInv'
<1> DEFINE k == req[r].row
           f == [req EXCEPT ![r] = None]
<1>1. /\ TypeOK /\ RowsInv /\ RequestsChecked /\ RowsHeld /\ ClaimConsumesRow
      /\ req[r] # None /\ req[r] \in Pending /\ req[r].op = "consume"
      /\ pending' = IF k = Gone THEN pending ELSE [pending EXCEPT ![k] = None]
      /\ req' = forget(f, {k})
      /\ UNCHANGED <<tenants, sites, tests, assigned, agents, results, stream>>
  BY DEF IInv, DeleteUnclaimedAgent, Doing, TypeOK
<1>2. k \in Keys \cup {Gone}
  BY <1>1, PendingFields
<1>3. \A j \in Keys : pending'[j] = IF j \in {k} THEN None ELSE pending[j]
  BY <1>1, <1>2, InventoryNulls DEF TypeOK
<1>4. /\ f \in [Requests -> {None} \cup Pending]
      /\ \A q \in Requests : f[q] = req[q] \/ (f[q] = None /\ (Doing(q, "consume") => req[q].row \in {k}))
  BY <1>1 DEF TypeOK
<1> HIDE DEF k, f
<1>5. req' \in [Requests -> {None} \cup Pending] /\ RowsHeld' /\ ClaimConsumesRow' /\ SameChecks
  BY <1>1, <1>2, <1>3, <1>4, PendingGoes
<1>6. pending' \in [Keys -> {None} \cup [due : BOOLEAN]]
  BY <1>1, <1>2 DEF TypeOK
<1>7. TypeOK'
  BY <1>1, <1>5, <1>6 DEF TypeOK
<1>8. RowsInv'
  BY <1>1, <1>3 DEF RowsInv, NoOrphans, TenantsApart, SourcesKnown, there,
                    liveTenants, liveSites, liveTests, liveAgents
<1>9. RowsAge
  BY <1>1, UnchangedAge DEF RowsAge
<1> QED BY <1>1, <1>5, <1>7, <1>8, <1>9, ChecksKept DEF IInv

(* A delete that fails leaves the row, which is no longer due. *)
LEMMA ConsumeFailsKeeps ==
    ASSUME IInv, NEW r \in Requests, DeleteUnclaimedAgentFails(r)
    PROVE  IInv'
<1> DEFINE k == req[r].row
           v == [pending[k] EXCEPT !.due = FALSE]
<1>1. /\ TypeOK /\ RowsInv /\ RequestsChecked /\ RowsHeld /\ ClaimConsumesRow
      /\ req[r] # None /\ req[r] \in Pending /\ req[r].op = "consume"
      /\ pending' = IF k = Gone THEN pending ELSE [pending EXCEPT ![k].due = FALSE]
      /\ req' = [req EXCEPT ![r] = None]
      /\ UNCHANGED <<tenants, sites, tests, assigned, agents, results, stream>>
  BY DEF IInv, DeleteUnclaimedAgentFails, Doing, Done, TypeOK
<1>2. k \in Keys \cup {Gone}
  BY <1>1, PendingFields
<1>3. k # Gone => k \in Keys /\ pending[k] \in [due : BOOLEAN]
  BY <1>1, <1>2 DEF RowsHeld, Held, TypeOK
<1>4. k # Gone => /\ v \in [due : BOOLEAN] /\ v.due = FALSE /\ v # None /\ pending[k] # None
                  /\ pending' = [pending EXCEPT ![k] = v]
  BY <1>1, <1>3, InventoryNulls DEF TypeOK
<1> HIDE DEF v
<1>5. /\ pending' \in [Keys -> {None} \cup [due : BOOLEAN]]
      /\ \A j \in Keys : j # k => pending'[j] = pending[j]
      /\ \A j \in Keys : j = k => pending'[j] # None /\ pending'[j].due = FALSE
      /\ \A j \in Keys : (pending'[j] = None) = (pending[j] = None)
  <2>1. CASE k = Gone
    BY <1>1, <2>1, InventoryNulls DEF TypeOK
  <2>2. CASE k # Gone
    <3> HIDE DEF k
    <3> QED BY <1>1, <1>3, <1>4, <2>2 DEF TypeOK
  <2> QED BY <2>1, <2>2
<1> HIDE DEF k
<1>6. req'[r] = None /\ \A q \in Requests \ {r} : req'[q] = req[q]
  BY <1>1 DEF TypeOK
<1>7. TypeOK'
  BY <1>1, <1>5 DEF TypeOK
<1>8. RowsInv'
  BY <1>1, <1>5 DEF RowsInv, NoOrphans, TenantsApart, SourcesKnown, there,
                    liveTenants, liveSites, liveTests, liveAgents
<1>9. RowsHeld'
  <2> SUFFICES ASSUME NEW q \in Requests, req'[q] # None, req'[q].op \in {"claim", "consume"}, req'[q].row # Gone
               PROVE  pending'[req'[q].row] # None
    BY DEF RowsHeld, Held
  <2>1. req[q] \in Pending /\ req'[q] = req[q] /\ pending[req[q].row] # None
    BY <1>1, <1>6 DEF RowsHeld, Held, TypeOK
  <2>2. req[q].row \in Keys
    BY <2>1, PendingFields
  <2> QED BY <1>5, <2>1, <2>2
<1>10. ClaimConsumesRow'
  <2> SUFFICES ASSUME NEW j \in Keys, pending'[j] # None, pending'[j].due
               PROVE  \E q \in Requests : req'[q] # None /\ req'[q].op = "consume" /\ req'[q].row = j
    BY DEF ClaimConsumesRow, Doing
  <2>1. j # k /\ pending'[j] = pending[j]
    BY <1>5
  <2>2. PICK q \in Requests : req[q] # None /\ req[q].op = "consume" /\ req[q].row = j
    BY <1>1, <2>1 DEF ClaimConsumesRow, Doing
  <2>3. q # r
    BY <2>1, <2>2 DEF k
  <2> QED BY <1>6, <2>2, <2>3
<1>11. RowsAge
  BY <1>1, UnchangedAge DEF RowsAge
<1>12. SameChecks
  BY <1>6, SameOrOver
<1> QED BY <1>1, <1>7, <1>8, <1>9, <1>10, <1>11, <1>12, ChecksKept DEF IInv

(* A request that fails before its last write changes no row. *)
LEMMA RefusedKeeps ==
    ASSUME IInv, NEW r \in Requests, Refused(r)
    PROVE  IInv'
<1>1. ~ Doing(r, "consume") /\ req' = [req EXCEPT ![r] = None] /\ UNCHANGED <<rows, stream>>
  BY DEF Refused, Doing, Done
<1> QED BY <1>1, RequestMoves

-----------------------------------------------------------------------------
(* Devices: a result is stored for an agent that is there only, and a      *)
(* device that registers again gets a row of its own.                      *)
LEMMA DevicesKeep ==
    ASSUME IInv, NEW d \in Devices, DeviceSteps(d)
    PROVE  IInv'
<1>1. TypeOK /\ RowsInv /\ RequestsChecked /\ RowsHeld /\ ClaimConsumesRow
  BY DEF IInv
<1>2. UNCHANGED <<tenants, sites, tests, assigned, agents, req>>
  BY DEF DeviceSteps, RegisterAgent, HandleUnclaimedRegister, AddResult, StreamEnds, rows
<1>3. UNCHANGED <<liveTenants, liveSites, liveTests, liveAgents>>
  BY <1>2 DEF liveTenants, liveSites, liveTests, liveAgents, there
<1>4. RowsAge
  BY <1>1, <1>2, UnchangedAge DEF RowsAge
<1>5. SameChecks
  BY <1>2, SameOrOver
<1>6. CASE StreamEnds(d) \/ \E a \in Agents : RegisterAgent(d, a)
  <2>1. UNCHANGED <<results, pending>> /\ \E a \in Agents \cup {None} : stream' = [stream EXCEPT ![d] = a]
    BY <1>6 DEF RegisterAgent, StreamEnds, rows, liveAgents
  <2>2. TypeOK'
    BY <1>1, <1>2, <2>1 DEF TypeOK
  <2>3. RowsInv'
    BY <1>1, <1>2, <1>3, <2>1 DEF RowsInv, NoOrphans, TenantsApart, SourcesKnown
  <2> QED BY <1>1, <1>2, <1>4, <2>1, <2>2, <2>3, NobodyMoves, ChecksKept DEF IInv
<1>7. CASE AddResult(d)
  <2>1. /\ UNCHANGED <<pending, stream>> /\ stream[d] \in liveAgents
        /\ results' = results \cup {stream[d]}
    BY <1>7 DEF AddResult
  <2>2. TypeOK'
    BY <1>1, <1>2, <2>1 DEF TypeOK, liveAgents
  <2>3. RowsInv'
    BY <1>1, <1>2, <1>3, <2>1 DEF RowsInv, NoOrphans, TenantsApart, SourcesKnown
  <2> QED BY <1>1, <1>2, <1>4, <2>1, <2>2, <2>3, NobodyMoves, ChecksKept DEF IInv
<1>8. ASSUME NEW t \in Tenants, HandleUnclaimedRegister(d, t)
      PROVE  IInv'
  <2> DEFINE k == [tenant |-> t, device |-> d]
  <2>1. /\ UNCHANGED <<results, stream>> /\ t \in liveTenants /\ pending[k] = None
        /\ pending' = [pending EXCEPT ![k] = [due |-> FALSE]]
    BY <1>8 DEF HandleUnclaimedRegister
  <2>2. k \in Keys /\ k.tenant = t
    BY DEF Keys
  <2> HIDE DEF k
  <2>3. TypeOK'
    BY <1>1, <1>2, <2>1, <2>2 DEF TypeOK
  <2>4. /\ \A j \in Keys \ {k} : pending'[j] = pending[j]
        /\ pending'[k] = [due |-> FALSE] /\ pending'[k] # None
    <3>1. [due |-> FALSE] \in [due : BOOLEAN]
      OBVIOUS
    <3> QED BY <1>1, <2>1, <2>2, <3>1, InventoryNulls DEF TypeOK
  <2>5. RowsInv'
    BY <1>1, <1>2, <1>3, <2>1, <2>2, <2>4 DEF RowsInv, NoOrphans, TenantsApart, SourcesKnown
  <2>6. RowsHeld'
    <3> SUFFICES ASSUME NEW r \in Requests, req[r] # None, req[r].op \in {"claim", "consume"}, req[r].row # Gone
                 PROVE  pending'[req[r].row] # None
      BY <1>2 DEF RowsHeld, Held
    <3>1. req[r].row \in Keys /\ pending[req[r].row] # None
      BY <1>1, PendingFields DEF RowsHeld, Held, TypeOK
    <3> QED BY <2>4, <3>1
  <2>7. ClaimConsumesRow'
    BY <1>1, <1>2, <2>4 DEF ClaimConsumesRow, Doing
  <2> QED BY <1>1, <1>4, <1>5, <2>3, <2>5, <2>6, <2>7, ChecksKept DEF IInv
<1> QED BY <1>6, <1>7, <1>8 DEF DeviceSteps

-----------------------------------------------------------------------------
(* Every step preserves the inductive invariant. *)
LEMMA NextIInv == IInv /\ [Next]_vars => IInv'
<1> SUFFICES ASSUME IInv, [Next]_vars PROVE IInv'
  OBVIOUS
<1>1. CASE Operators
  BY <1>1, DeleteTenantKeeps, DeleteRowKeeps, DismissKeeps, TenantKeeps, SiteKeeps, TestKeeps DEF Operators
<1>2. ASSUME NEW r \in Requests, Writes(r) \/ Handlers(r)
      PROVE  IInv'
  BY <1>2, HandlersKeep, RefusedKeeps, UpdateAgentKeeps, SetSiteTestsKeeps, ConsumeKeeps,
     ConsumeFailsKeeps, CreateAgentKeeps, ClaimCreateKeeps DEF Writes
<1>3. ASSUME NEW d \in Devices, DeviceSteps(d)
      PROVE  IInv'
  BY <1>3, DevicesKeep
<1>4. CASE UNCHANGED vars
  BY <1>4 DEF vars, rows, IInv, TypeOK, RowsInv, NoOrphans, TenantsApart, SourcesKnown, RequestsChecked,
              Checked, RowsHeld, Held, ClaimConsumesRow, Doing, liveTenants, liveSites, liveTests,
              liveAgents, there
<1> QED BY <1>1, <1>2, <1>3, <1>4 DEF Next

(* The invariant holds in every reachable state. *)
THEOREM Invariance == Spec => []IInv
BY InitIInv, NextIInv, PTL DEF Spec

(* No row of the store ever refers to a row that is gone, whatever requests *)
(* and open streams were under way when it was deleted.                     *)
THEOREM RowsNeverOrphaned == Spec => []NoOrphans
<1>1. IInv => NoOrphans
  BY DEF IInv, RowsInv
<1> QED BY <1>1, Invariance, PTL

(* The checks the handlers make before they write (scope.go, agents.go,     *)
(* sites.go) keep the tenants apart: no row ever joins two of them.         *)
THEOREM TenantsStayApart == Spec => []TenantsApart
<1>1. IInv => TenantsApart
  BY DEF IInv, RowsInv
<1> QED BY <1>1, Invariance, PTL

(* A row of which a claim has made an agent is pending only while a claim   *)
(* of it still has its delete to try, or because that delete failed, however*)
(* many operators claim it at a time.                                       *)
THEOREM ClaimsConsumeRows == Spec => []ClaimConsumesRow
<1>1. IInv => ClaimConsumesRow
  BY DEF IInv
<1> QED BY <1>1, Invariance, PTL
=============================================================================

---------------------------- MODULE ConnRegistry ----------------------------
(***************************************************************************)
(* The server's registry of connected agents (internal/server/server.go):  *)
(* one ControlStream handler goroutine per gRPC stream, the map            *)
(* Server.connected guarded by Server.mu, one bounded push channel per     *)
(* connection, and the HTTP handlers that edit the store and push the      *)
(* resulting configuration to connected agents.                            *)
(*                                                                         *)
(* A step is what runs between two points where another goroutine can get  *)
(* in: a critical section, one store call (the store has one database      *)
(* connection), one channel operation, one Send.                           *)
(*                                                                         *)
(* Data: a site's assigned tests are a revision number, an agent's row is  *)
(* its site and its name (the WLAN interface and reflector settings take   *)
(* the same path as the site), a configuration is the site and the         *)
(* revision it was built from.                                             *)
(***************************************************************************)
EXTENDS Naturals, Sequences

CONSTANTS
    Agents,     \* claimed agents
    Streams,    \* gRPC streams, each opened at most once
    AgentOf,    \* [Streams -> Agents]: whose token the stream presents
    Ops,        \* operator requests that may run at the same time
    Sites,
    Names,
    PushCap,    \* capacity of connectedAgent.push (4 in the code)
    MaxRequests,\* bound: operator requests in one behaviour
    None

ASSUME StreamsAssumption == AgentOf \in [Streams -> Agents]
ASSUME BoundsAssumption == PushCap \in Nat \ {0} /\ MaxRequests \in Nat
ASSUME NoneAssumption == None \notin Streams \cup Agents
ASSUME NoneNoRow == None \notin [site : Sites, name : Names]

VARIABLES
    row,        \* agents table: [site, name], or None once deleted
    tests,      \* site_tests and tests: revision of each site's test set
    requests,   \* operator requests so far (bound only)
    connected,  \* Server.connected
    gauge,      \* label pairs whose agent_connected gauge is 1
    pc,         \* per handler: where ControlStream is
    agent,      \* per handler: the local variable agent (the row as registered)
    connRow,    \* per handler: conn.agent, which RefreshAgent replaces
    push,       \* per handler: queued contents of conn.push
    closed,     \* per handler: conn.push has been closed
    built,      \* per handler: the initial configuration, before it is sent
    sent,       \* per handler: the last configuration put on the wire
    opc,        \* per request: where the HTTP handler is
    opSite,     \* per request: the site being edited
    todo,       \* per request: agents PushConfigs has still to visit
    opAgent,    \* per request: the agent being visited
    opConn,     \* per request: the connection looked up for it
    opRow,      \* per request: the row RefreshAgent has reloaded
    opMsg,      \* per request: the message about to be queued
    missed,     \* history: agents whose last push was left out, or was out of
                \* date by the time it was queued
    panics      \* run-time panics so far

storeVars   == <<row, tests, requests>>
handlerVars == <<pc, agent, connRow, push, closed, built, sent>>
requestVars == <<opc, opSite, todo, opAgent, opConn, opRow, opMsg>>
vars == <<storeVars, connected, gauge, handlerVars, requestVars, missed, panics>>

-----------------------------------------------------------------------------
(* Types *)

Row    == [site : Sites, name : Names]
Config == [site : Sites, tests : Nat]
Msg    == [kind : {"config"}, cfg : Config] \cup [kind : {"run"}, cfg : {None}]

HandlerPC == {"idle", "registered", "inserted", "online", "built", "loop",
              "leaving", "left", "done"}
RequestPC == {"idle", "list", "delete", "push", "found", "send",
              "refresh", "reload", "relabel"}
Panic == {"close of closed channel", "send on closed channel"}

TypeOK ==
    /\ row \in [Agents -> Row \cup {None}]
    /\ tests \in [Sites -> Nat]
    /\ requests \in 0..MaxRequests
    /\ connected \in [Agents -> Streams \cup {None}]
    /\ gauge \subseteq Row
    /\ pc \in [Streams -> HandlerPC]
    /\ agent \in [Streams -> Row \cup {None}]
    /\ connRow \in [Streams -> Row \cup {None}]
    /\ push \in [Streams -> Seq(Msg)]
    /\ \A s \in Streams : Len(push[s]) <= PushCap
    /\ closed \in [Streams -> BOOLEAN]
    /\ built \in [Streams -> Config \cup {None}]
    /\ sent \in [Streams -> Config \cup {None}]
    /\ opc \in [Ops -> RequestPC]
    /\ opSite \in [Ops -> Sites \cup {None}]
    /\ todo \in [Ops -> SUBSET Agents]
    /\ opAgent \in [Ops -> Agents \cup {None}]
    /\ opConn \in [Ops -> Streams \cup {None}]
    /\ opRow \in [Ops -> Row \cup {None}]
    /\ opMsg \in [Ops -> Msg \cup {None}]
    /\ missed \subseteq Agents
    /\ panics \subseteq Panic

(* Agent names are unique within the tenant (UNIQUE (tenant_id, name)).    *)
Init ==
    /\ row \in {r \in [Agents -> Row] :
                  \A a, b \in Agents : r[a].name = r[b].name => a = b}
    /\ tests = [x \in Sites |-> 0]
    /\ requests = 0
    /\ connected = [a \in Agents |-> None]
    /\ gauge = {}
    /\ pc = [s \in Streams |-> "idle"]
    /\ agent = [s \in Streams |-> None]
    /\ connRow = [s \in Streams |-> None]
    /\ push = [s \in Streams |-> <<>>]
    /\ closed = [s \in Streams |-> FALSE]
    /\ built = [s \in Streams |-> None]
    /\ sent = [s \in Streams |-> None]
    /\ opc = [o \in Ops |-> "idle"]
    /\ opSite = [o \in Ops |-> None]
    /\ todo = [o \in Ops |-> {}]
    /\ opAgent = [o \in Ops |-> None]
    /\ opConn = [o \in Ops |-> None]
    /\ opRow = [o \in Ops |-> None]
    /\ opMsg = [o \in Ops |-> None]
    /\ missed = {}
    /\ panics = {}

-----------------------------------------------------------------------------
(* ConfigForAgent: the tests come from the store, the site from whatever   *)
(* agent record the caller holds.                                          *)
ConfigForAgent(r) == [site |-> r.site, tests |-> tests[r.site]]

AgentIDsForSite(site) == {a \in Agents : row[a] # None /\ row[a].site = site}

-----------------------------------------------------------------------------
(* ControlStream, one handler per stream *)

Goto(s, from, to) == pc[s] = from /\ pc' = [pc EXCEPT ![s] = to]

(* Recv of the first message and registerAgent: the row is read here, well *)
(* before the connection is entered in the registry.                       *)
Register(s) ==
    /\ row[AgentOf[s]] # None
    /\ Goto(s, "idle", "registered")
    /\ agent' = [agent EXCEPT ![s] = row[AgentOf[s]]]
    /\ connRow' = [connRow EXCEPT ![s] = row[AgentOf[s]]]
    /\ UNCHANGED <<storeVars, connected, gauge, push, closed, built, sent,
                   requestVars, missed, panics>>

(* No registration comes, or registerAgent refuses it: the agent has been  *)
(* deleted, the certificate is another one's or the store fails.           *)
Reject(s) ==
    /\ Goto(s, "idle", "done")
    /\ UNCHANGED <<storeVars, connected, gauge, agent, connRow, push, closed, built,
                   sent, requestVars, missed, panics>>

(* The critical section: close the predecessor's channel, take its place.  *)
Insert(s) ==
    LET old == connected[AgentOf[s]] IN
    /\ Goto(s, "registered", "inserted")
    /\ IF old = None
       THEN UNCHANGED <<closed, panics>>
       ELSE /\ closed' = [closed EXCEPT ![old] = TRUE]
            /\ panics' = IF closed[old]
                         THEN panics \cup {"close of closed channel"}
                         ELSE panics
    /\ connected' = [connected EXCEPT ![AgentOf[s]] = s]
    /\ missed' = missed \ {AgentOf[s]}
    /\ UNCHANGED <<storeVars, gauge, agent, connRow, push, built, sent, requestVars>>

MarkOnline(s) ==
    /\ Goto(s, "inserted", "online")
    /\ gauge' = gauge \cup {agent[s]}
    /\ UNCHANGED <<storeVars, connected, agent, connRow, push, closed, built, sent,
                   requestVars, missed, panics>>

(* The initial configuration is built from the local agent, not conn.agent. *)
BuildConfig(s) ==
    /\ Goto(s, "online", "built")
    /\ built' = [built EXCEPT ![s] = ConfigForAgent(agent[s])]
    /\ UNCHANGED <<storeVars, connected, gauge, agent, connRow, push, closed, sent,
                   requestVars, missed, panics>>

SendConfig(s) ==
    /\ Goto(s, "built", "loop")
    /\ sent' = [sent EXCEPT ![s] = built[s]]
    /\ built' = [built EXCEPT ![s] = None]
    /\ UNCHANGED <<storeVars, connected, gauge, agent, connRow, push, closed,
                   requestVars, missed, panics>>

(* case push, ok := <-conn.push with a message. *)
SendPush(s) ==
    /\ Goto(s, "loop", "loop")
    /\ push[s] # <<>>
    /\ push' = [push EXCEPT ![s] = Tail(@)]
    /\ sent' = IF Head(push[s]).kind = "config"
               THEN [sent EXCEPT ![s] = Head(push[s]).cfg]
               ELSE sent
    /\ UNCHANGED <<storeVars, connected, gauge, agent, connRow, closed, built,
                   requestVars, missed, panics>>

(* Mutant of Replaced: the loop goes round again on a closed channel. *)
ReplacedIgnored(s) ==
    /\ Goto(s, "loop", "loop")
    /\ closed[s] /\ push[s] = <<>>
    /\ UNCHANGED <<storeVars, connected, gauge, agent, connRow, push, closed, built,
                   sent, requestVars, missed, panics>>

(* case push, ok := <-conn.push with !ok: a closed channel hands out what  *)
(* is queued first.                                                        *)
Replaced(s) ==
    /\ Goto(s, "loop", "leaving")
    /\ closed[s] /\ push[s] = <<>>
    /\ UNCHANGED <<storeVars, connected, gauge, agent, connRow, push, closed, built,
                   sent, requestVars, missed, panics>>

(* The store fails, a Send fails, the peer hangs up or the context ends:   *)
(* possible at every point after the deferred cleanup is installed.        *)
StreamEnds(s) ==
    /\ \E from \in {"online", "built", "loop"} : Goto(s, from, "leaving")
    /\ UNCHANGED <<storeVars, connected, gauge, agent, connRow, push, closed, built,
                   sent, requestVars, missed, panics>>

(* Mutants of Unregister: drop the entry whoever holds it; close the       *)
(* handler's own channel on the way out.                                   *)
UnregisterAnyone(s) ==
    /\ Goto(s, "leaving", "left")
    /\ connected' = [connected EXCEPT ![AgentOf[s]] = None]
    /\ UNCHANGED <<storeVars, gauge, agent, connRow, push, closed, built, sent,
                   requestVars, missed, panics>>

UnregisterAndClose(s) ==
    /\ Goto(s, "leaving", "left")
    /\ connected' = IF connected[AgentOf[s]] = s
                    THEN [connected EXCEPT ![AgentOf[s]] = None]
                    ELSE connected
    /\ closed' = [closed EXCEPT ![s] = TRUE]
    /\ panics' = IF closed[s] THEN panics \cup {"close of closed channel"} ELSE panics
    /\ UNCHANGED <<storeVars, gauge, agent, connRow, push, built, sent,
                   requestVars, missed>>

(* The deferred cleanup: remove the entry only if it is still this one. *)
Unregister(s) ==
    /\ Goto(s, "leaving", "left")
    /\ connected' = IF connected[AgentOf[s]] = s
                    THEN [connected EXCEPT ![AgentOf[s]] = None]
                    ELSE connected
    /\ UNCHANGED <<storeVars, gauge, agent, connRow, push, closed, built, sent,
                   requestVars, missed, panics>>

(* The cleanup's SetConnected(false), under the labels read at registration. *)
MarkOffline(s) ==
    /\ Goto(s, "left", "done")
    /\ gauge' = gauge \ {agent[s]}
    /\ UNCHANGED <<storeVars, connected, agent, connRow, push, closed, built, sent,
                   requestVars, missed, panics>>

-----------------------------------------------------------------------------
(* HTTP handlers: each request runs in a goroutine of its own *)

Step(o, from, to) == opc[o] = from /\ opc' = [opc EXCEPT ![o] = to]

Accept == requests < MaxRequests /\ requests' = requests + 1

(* The request's locals die with it. *)
Forget(o) ==
    /\ todo' = [todo EXCEPT ![o] = {}]
    /\ opSite' = [opSite EXCEPT ![o] = None]
    /\ opAgent' = [opAgent EXCEPT ![o] = None]
    /\ opConn' = [opConn EXCEPT ![o] = None]
    /\ opRow' = [opRow EXCEPT ![o] = None]
    /\ opMsg' = [opMsg EXCEPT ![o] = None]

(* handleSetSiteTests and handleUpdateTest: the write comes first ... *)
SetSiteTests(o, site) ==
    /\ Step(o, "idle", "list")
    /\ Accept
    /\ tests' = [tests EXCEPT ![site] = @ + 1]
    /\ opSite' = [opSite EXCEPT ![o] = site]
    /\ UNCHANGED <<row, connected, gauge, handlerVars, todo, opAgent, opConn, opRow,
                   opMsg, missed, panics>>

(* ... then the affected agents are listed. *)
ListAgents(o) ==
    /\ Step(o, "list", "push")
    /\ todo' = [todo EXCEPT ![o] = AgentIDsForSite(opSite[o])]
    /\ UNCHANGED <<storeVars, connected, gauge, handlerVars, opSite, opAgent, opConn,
                   opRow, opMsg, missed, panics>>

(* The list cannot be read: the edit stands and no one is told. *)
ListFails(o) ==
    /\ Step(o, "list", "idle")
    /\ missed' = missed \cup AgentIDsForSite(opSite[o])
    /\ Forget(o)
    /\ UNCHANGED <<storeVars, connected, gauge, handlerVars, panics>>

(* handleDeleteTest lists the agents before the assignment rows are        *)
(* cascaded away, and deletes afterwards.  A list that cannot be read      *)
(* counts as empty.                                                        *)
CollectForDelete(o, site) ==
    /\ Step(o, "idle", "delete")
    /\ Accept
    /\ \E listed \in {AgentIDsForSite(site), {}} : todo' = [todo EXCEPT ![o] = listed]
    /\ opSite' = [opSite EXCEPT ![o] = site]
    /\ UNCHANGED <<row, tests, connected, gauge, handlerVars, opAgent, opConn, opRow,
                   opMsg, missed, panics>>

DeleteTest(o) ==
    /\ Step(o, "delete", "push")
    /\ tests' = [tests EXCEPT ![opSite[o]] = @ + 1]
    /\ missed' = missed \cup (AgentIDsForSite(opSite[o]) \ todo[o])
    /\ UNCHANGED <<row, requests, connected, gauge, handlerVars, opSite, todo, opAgent,
                   opConn, opRow, opMsg, panics>>

DeleteFails(o) ==
    /\ Step(o, "delete", "idle")
    /\ Forget(o)
    /\ UNCHANGED <<storeVars, connected, gauge, handlerVars, missed, panics>>

(* PushConfigs, loop head: look the connection up under the lock; an agent *)
(* that is not connected is passed over.                                   *)
PushLookup(o, a) ==
    /\ a \in todo[o] /\ connected[a] # None
    /\ Step(o, "push", "found")
    /\ opAgent' = [opAgent EXCEPT ![o] = a]
    /\ opConn' = [opConn EXCEPT ![o] = connected[a]]
    /\ todo' = [todo EXCEPT ![o] = @ \ {a}]
    /\ UNCHANGED <<storeVars, connected, gauge, handlerVars, opSite, opRow, opMsg,
                   missed, panics>>

(* Mutant of PushSkip: a connection that has yet to send its initial       *)
(* configuration is passed over too.                                       *)
PushSkipNew(o, a) ==
    /\ a \in todo[o]
    /\ connected[a] # None => pc[connected[a]] \in {"inserted", "online", "built"}
    /\ Step(o, "push", "push")
    /\ todo' = [todo EXCEPT ![o] = @ \ {a}]
    /\ UNCHANGED <<storeVars, connected, gauge, handlerVars, opSite, opAgent, opConn,
                   opRow, opMsg, missed, panics>>

PushSkip(o, a) ==
    /\ a \in todo[o] /\ connected[a] = None
    /\ Step(o, "push", "push")
    /\ todo' = [todo EXCEPT ![o] = @ \ {a}]
    /\ UNCHANGED <<storeVars, connected, gauge, handlerVars, opSite, opAgent, opConn,
                   opRow, opMsg, missed, panics>>

(* ConfigForAgent(conn.agent), outside the lock. *)
PushBuild(o) ==
    /\ Step(o, "found", "send")
    /\ opMsg' = [opMsg EXCEPT
                   ![o] = [kind |-> "config", cfg |-> ConfigForAgent(connRow[opConn[o]])]]
    /\ UNCHANGED <<storeVars, connected, gauge, handlerVars, opSite, todo, opAgent,
                   opConn, opRow, missed, panics>>

(* ConfigForAgent fails: the error is logged and the agent skipped. *)
PushBuildFails(o) ==
    /\ Step(o, "found", "push")
    /\ missed' = missed \cup {opAgent[o]}
    /\ UNCHANGED <<storeVars, connected, gauge, handlerVars, opSite, todo, opAgent,
                   opConn, opRow, opMsg, panics>>

(* missed after a send: an agent leaves it when the configuration queued   *)
(* for it is current, and enters it when that is dropped, or when another  *)
(* request has edited in the meantime.  What goes to a connection that is  *)
(* no longer the agent's does not count, and a command is no configuration. *)
AfterSend(o, queued) ==
    IF opMsg[o].kind = "run" \/ connected[opAgent[o]] # opConn[o] THEN missed
    ELSE IF queued /\ opMsg[o].cfg = ConfigForAgent(connRow[opConn[o]]) THEN missed \ {opAgent[o]}
    ELSE missed \cup {opAgent[o]}

(* A send on a closed channel panics, in a select with a default too;      *)
(* net/http recovers the panic and the request ends there, with the agents *)
(* it has not visited.                                                     *)
EnqueuePanics(o) ==
    /\ Step(o, "send", "idle")
    /\ closed[opConn[o]]
    /\ panics' = panics \cup {"send on closed channel"}
    /\ missed' = missed \cup todo[o]
    /\ Forget(o)
    /\ UNCHANGED <<storeVars, connected, gauge, handlerVars>>

(* The message goes in, or not. *)
TrySend(o, queued) ==
    /\ ~closed[opConn[o]]
    /\ push' = IF queued THEN [push EXCEPT ![opConn[o]] = Append(@, opMsg[o])] ELSE push
    /\ missed' = AfterSend(o, queued)
    /\ UNCHANGED <<storeVars, connected, gauge, pc, agent, connRow, closed, built, sent,
                   opSite, todo, opAgent, opConn, opRow, opMsg, panics>>

HasRoom(o) == Len(push[opConn[o]]) < PushCap

(* Mutant of Enqueue: no default, so that the send waits for room. *)
EnqueueBlocking(o) == Step(o, "send", "push") /\ HasRoom(o) /\ TrySend(o, TRUE)

(* The select with a default of PushConfigs and RunTest: a full queue drops *)
(* the message.                                                             *)
Enqueue(o) == Step(o, "send", "push") /\ TrySend(o, HasRoom(o))

Respond(o) ==
    /\ Step(o, "push", "idle")
    /\ todo[o] = {}
    /\ Forget(o)
    /\ UNCHANGED <<storeVars, connected, gauge, handlerVars, missed, panics>>

(* handleUpdateAgent: rename or move; a taken name is a conflict. *)
UpdateAgent(o, a, new) ==
    /\ row[a] # None
    /\ \A b \in Agents \ {a} : row[b] # None => row[b].name # new.name
    /\ Step(o, "idle", "refresh")
    /\ Accept
    /\ row' = [row EXCEPT ![a] = new]
    /\ opAgent' = [opAgent EXCEPT ![o] = a]
    /\ UNCHANGED <<tests, connected, gauge, handlerVars, opSite, todo, opConn, opRow,
                   opMsg, missed, panics>>

(* RefreshAgent: look up, ... *)
RefreshLookup(o) ==
    /\ Step(o, "refresh", "reload")
    /\ connected[opAgent[o]] # None
    /\ opConn' = [opConn EXCEPT ![o] = connected[opAgent[o]]]
    /\ UNCHANGED <<storeVars, connected, gauge, handlerVars, opSite, todo, opAgent,
                   opRow, opMsg, missed, panics>>

(* ... reload the row, ... *)
RefreshReload(o) ==
    /\ Step(o, "reload", "relabel")
    /\ row[opAgent[o]] # None
    /\ opRow' = [opRow EXCEPT ![o] = row[opAgent[o]]]
    /\ UNCHANGED <<storeVars, connected, gauge, handlerVars, opSite, todo, opAgent,
                   opConn, opMsg, missed, panics>>

(* (not connected: nothing to do; or the row is gone or cannot be read: the *)
(* connection keeps the one it has)                                         *)
RefreshNothing(o) ==
    /\ Step(o, "refresh", "push") /\ connected[opAgent[o]] = None
    /\ UNCHANGED <<storeVars, connected, gauge, handlerVars, opSite, todo, opAgent,
                   opConn, opRow, opMsg, missed, panics>>

RefreshFails(o) ==
    /\ Step(o, "reload", "push")
    /\ missed' = missed \cup {opAgent[o]}
    /\ UNCHANGED <<storeVars, connected, gauge, handlerVars, opSite, todo, opAgent,
                   opConn, opRow, opMsg, panics>>

(* ... move the gauge to the new labels, replace conn.agent, push. *)
RefreshRelabel(o) ==
    LET c == opConn[o] IN
    /\ Step(o, "relabel", "push")
    /\ gauge' = IF opRow[o] # connRow[c]
                THEN (gauge \ {connRow[c]}) \cup {opRow[o]}
                ELSE gauge
    /\ connRow' = [connRow EXCEPT ![c] = opRow[o]]
    /\ todo' = [todo EXCEPT ![o] = {opAgent[o]}]
    /\ UNCHANGED <<storeVars, connected, pc, agent, push, closed, built, sent, opSite,
                   opAgent, opConn, opRow, opMsg, missed, panics>>

(* handleRunTest and RunTest: the command goes to whoever is registered. *)
RunTest(o, a) ==
    /\ row[a] # None
    /\ connected[a] # None
    /\ Step(o, "idle", "send")
    /\ Accept
    /\ opAgent' = [opAgent EXCEPT ![o] = a]
    /\ opConn' = [opConn EXCEPT ![o] = connected[a]]
    /\ opMsg' = [opMsg EXCEPT ![o] = [kind |-> "run", cfg |-> None]]
    /\ UNCHANGED <<row, tests, connected, gauge, handlerVars, opSite, todo, opRow,
                   missed, panics>>

(* handleDeleteAgent deletes the row; the open stream is left alone. *)
DeleteAgent(o, a) ==
    /\ row[a] # None
    /\ Step(o, "idle", "idle")
    /\ Accept
    /\ row' = [row EXCEPT ![a] = None]
    /\ UNCHANGED <<tests, connected, gauge, handlerVars, opSite, todo, opAgent, opConn,
                   opRow, opMsg, missed, panics>>

-----------------------------------------------------------------------------
Handler(s) ==
    \/ Insert(s) \/ MarkOnline(s) \/ BuildConfig(s) \/ SendConfig(s)
    \/ SendPush(s) \/ Replaced(s) \/ Unregister(s) \/ MarkOffline(s)

Network(s) == Register(s) \/ Reject(s) \/ StreamEnds(s)

Request(o) ==
    \/ ListAgents(o) \/ ListFails(o) \/ DeleteTest(o) \/ DeleteFails(o)
    \/ PushBuild(o) \/ PushBuildFails(o)
    \/ \E a \in Agents : PushLookup(o, a) \/ PushSkip(o, a)
    \/ Enqueue(o) \/ EnqueuePanics(o) \/ Respond(o)
    \/ RefreshLookup(o) \/ RefreshReload(o) \/ RefreshNothing(o) \/ RefreshFails(o)
    \/ RefreshRelabel(o)

Operator(o) ==
    \/ \E site \in Sites : SetSiteTests(o, site) \/ CollectForDelete(o, site)
    \/ \E a \in Agents :
         \/ \E new \in Row : UpdateAgent(o, a, new)
         \/ RunTest(o, a)
         \/ DeleteAgent(o, a)

Next ==
    \/ \E s \in Streams : Handler(s) \/ Network(s)
    \/ \E o \in Ops : Request(o) \/ Operator(o)

Spec == Init /\ [][Next]_vars

(* Go schedules every runnable goroutine, so a handler and a request that  *)
(* can go on do.  Nothing makes peers connect or hang up, or operators act. *)
Fairness ==
    /\ \A s \in Streams : WF_vars(Handler(s))
    /\ \A o \in Ops : WF_vars(Request(o))

FairSpec == Spec /\ Fairness

-----------------------------------------------------------------------------
(* Properties *)

InService == {"inserted", "online", "built", "loop", "leaving"}

(* What the provers need besides: a handler that has registered holds a    *)
(* row, a request holds the locals its program point needs, and a channel  *)
(* is not closed before its connection is entered.                         *)
LocalsInv ==
    /\ \A s \in Streams :
          /\ pc[s] \in HandlerPC \ {"idle", "done"} => agent[s] \in Row /\ connRow[s] \in Row
          /\ pc[s] = "built" => built[s] \in Config
          /\ pc[s] \in {"idle", "registered"} => ~closed[s]
    /\ \A o \in Ops :
          /\ opc[o] \in {"list", "delete"} => opSite[o] \in Sites
          /\ opc[o] \in {"found", "send", "refresh", "reload", "relabel"}
                => opAgent[o] \in Agents
          /\ opc[o] \in {"found", "send", "reload", "relabel"} => opConn[o] \in Streams
          /\ opConn[o] \in Streams => connRow[opConn[o]] \in Row
          /\ opc[o] = "send" => opMsg[o] \in Msg
          /\ opc[o] = "relabel" => opRow[o] \in Row

(* The registry and the handlers agree: an entry belongs to a handler of   *)
(* that agent which is between its insertion and its cleanup and whose     *)
(* channel is open; and every such handler whose channel is open is        *)
(* reachable through the registry, so no live agent is invisible to        *)
(* operators.  Server.connected, server.go 329-334 and 352-356.            *)
RegistryAgrees ==
    /\ \A a \in Agents : connected[a] # None =>
          /\ AgentOf[connected[a]] = a
          /\ pc[connected[a]] \in InService
          /\ ~closed[connected[a]]
    /\ \A s \in Streams : pc[s] \in InService /\ ~closed[s] =>
          connected[AgentOf[s]] = s

(* However often an agent reconnects, at most one of its handlers has not  *)
(* been told to go: the others will end with "replaced by a new connection". *)
OneHandlerPerAgent ==
    \A s, t \in Streams :
       /\ AgentOf[s] = AgentOf[t]
       /\ pc[s] \in InService /\ ~closed[s]
       /\ pc[t] \in InService /\ ~closed[t]
       => s = t

(* close(old.push) never meets a closed channel: that panic would be in a  *)
(* gRPC handler, which nothing recovers, and end the server.               *)
NoDoubleClose == "close of closed channel" \notin panics

(* A registry entry goes away only when its own handler cleans up, and is  *)
(* replaced only by a handler that is registering for the same agent.      *)
EntryHandedOver ==
    [][\A a \in Agents :
          \/ connected'[a] = connected[a]
          \/ /\ connected'[a] = None
             /\ pc[connected[a]] = "leaving"
          \/ \E s \in Streams :
                /\ connected'[a] = s /\ AgentOf[s] = a
                /\ pc[s] = "registered"]_vars

(* The inductive invariant of the proofs. *)
IInv == TypeOK /\ LocalsInv /\ RegistryAgrees /\ NoDoubleClose

(* Nothing is going on for agent a: it is in its select loop, its queue is *)
(* empty and no request is running.                                        *)
Settled(a) ==
    /\ connected[a] # None
    /\ pc[connected[a]] = "loop"
    /\ push[connected[a]] = <<>>
    /\ \A o \in Ops : opc[o] = "idle"

(* Once things have settled, an agent has been sent the tests now assigned *)
(* to the site its connection is registered under, however many requests   *)
(* edited and pushed at the same time, unless its last push was left out (a *)
(* full queue, a failed read, an aborted request) or went in behind a newer *)
(* one: every edit reaches the agents it is about, and inserting the        *)
(* connection before building the initial configuration leaves no gap in    *)
(* which one is lost.                                                       *)
SettledConfigCurrent ==
    \A a \in Agents :
       Settled(a) /\ a \notin missed /\ connRow[connected[a]] = row[a] =>
          sent[connected[a]] = ConfigForAgent(row[a])

(* PushConfigs and RunTest never send on a closed channel. *)
NoSendOnClosed == "send on closed channel" \notin panics

(* A handler whose channel was closed by a successor ends. *)
ReplacedHandlerEnds ==
    \A s \in Streams : closed[s] ~> pc[s] = "done"

(* A request is answered whatever the agents do: a full queue or a handler *)
(* that has gone never holds an operator up.                               *)
RequestAnswered ==
    \A o \in Ops : opc[o] # "idle" ~> opc[o] = "idle"

=============================================================================

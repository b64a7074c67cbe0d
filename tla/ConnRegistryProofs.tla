------------------------- MODULE ConnRegistryProofs -------------------------
(***************************************************************************)
(* Proofs about ConnRegistry, for any number of agents, streams and        *)
(* concurrent requests.  One lemma per group of actions shows that a step  *)
(* preserves the typing part of the invariant (TypeOK and LocalsInv), one  *)
(* that it preserves the registry part.  A second invariant on top of it   *)
(* follows a configuration through requests, queues and handlers.          *)
(***************************************************************************)
EXTENDS ConnRegistry, TLAPS

USE StreamsAssumption, BoundsAssumption, NoneAssumption

Typing == TypeOK /\ LocalsInv

(* A configuration built from a row is a configuration. *)
LEMMA ConfigType ==
  ASSUME TypeOK, NEW r \in Row
  PROVE  ConfigForAgent(r) \in Config
BY DEF TypeOK, ConfigForAgent, Config, Row

(* Appending to a queue with room, or taking its head, keeps it a queue. *)
LEMMA QueueType ==
  ASSUME NEW q \in Seq(Msg), Len(q) <= PushCap
  PROVE  /\ q # <<>> => Tail(q) \in Seq(Msg) /\ Len(Tail(q)) <= PushCap /\ Head(q) \in Msg
         /\ \A m \in Msg : Len(q) < PushCap =>
               Append(q, m) \in Seq(Msg) /\ Len(Append(q, m)) <= PushCap
OBVIOUS

(* The initial state satisfies the invariant. *)
LEMMA InitIInv == Init => IInv
BY DEF Init, IInv, TypeOK, LocalsInv, RegistryAgrees, NoDoubleClose, InService,
       HandlerPC, RequestPC, Msg, Panic

(* A handler's step keeps the state typed. *)
LEMMA HandlerTyping ==
  ASSUME Typing, RegistryAgrees, NEW s \in Streams, Handler(s) \/ Network(s)
  PROVE  Typing'
<1> USE DEF Typing, TypeOK, LocalsInv, Goto, handlerVars, requestVars, storeVars, HandlerPC
<1>0. CASE Reject(s)
  BY <1>0 DEF Reject
<1>1. CASE Register(s)
  <2>1. row[AgentOf[s]] \in Row
    BY <1>1 DEF Register
  <2> QED BY <1>1, <2>1 DEF Register
<1>2. CASE Insert(s)
  <2> DEFINE old == connected[AgentOf[s]]
  <2>1. CASE old = None
    BY <1>2, <2>1 DEF Insert
  <2>2. CASE old # None
    <3>1. old \in Streams /\ pc[old] \in InService
      BY <2>2 DEF RegistryAgrees
    <3> QED BY <1>2, <2>2, <3>1 DEF Insert, Panic, InService
  <2> QED BY <2>1, <2>2
<1>3. CASE MarkOnline(s)
  BY <1>3 DEF MarkOnline
<1>4. CASE BuildConfig(s)
  BY <1>4, ConfigType DEF BuildConfig
<1>5. CASE SendConfig(s)
  BY <1>5 DEF SendConfig
<1>6. CASE SendPush(s)
  <2>1. /\ push[s] \in Seq(Msg) /\ Len(push[s]) <= PushCap
        /\ Tail(push[s]) \in Seq(Msg) /\ Len(Tail(push[s])) <= PushCap
        /\ Head(push[s]) \in Msg
    BY <1>6, QueueType DEF SendPush
  <2>2. Head(push[s]).kind = "config" => Head(push[s]).cfg \in Config
    BY <2>1 DEF Msg
  <2> QED BY <1>6, <2>1, <2>2 DEF SendPush
<1>7. CASE Replaced(s)
  BY <1>7 DEF Replaced
<1>8. CASE StreamEnds(s)
  BY <1>8 DEF StreamEnds
<1>9. CASE Unregister(s)
  BY <1>9 DEF Unregister
<1>10. CASE MarkOffline(s)
  BY <1>10 DEF MarkOffline
<1> QED BY <1>0, <1>1, <1>2, <1>3, <1>4, <1>5, <1>6, <1>7, <1>8, <1>9, <1>10 DEF Handler, Network


(* The connection a lookup finds holds a row. *)
LEMMA ConnectedRow ==
  ASSUME Typing, RegistryAgrees, NEW a \in Agents, connected[a] # None
  PROVE  connected[a] \in Streams /\ connRow[connected[a]] \in Row
<1>1. connected[a] \in Streams
  BY DEF Typing, TypeOK
<1>2. pc[connected[a]] \in InService
  BY DEF RegistryAgrees
<1>3. InService \subseteq HandlerPC \ {"idle", "done"}
  BY DEF InService, HandlerPC
<1> QED BY <1>1, <1>2, <1>3 DEF Typing, LocalsInv

(* A step of a running request keeps the state typed. *)
LEMMA RequestTyping ==
  ASSUME Typing, RegistryAgrees, NEW o \in Ops, Request(o)
  PROVE  Typing'
<1> USE DEF Typing, TypeOK, LocalsInv, Step, Forget, handlerVars, requestVars, storeVars,
            RequestPC
<1>1. CASE ListAgents(o)
  BY <1>1 DEF ListAgents, AgentIDsForSite
<1>2. CASE DeleteTest(o)
  BY <1>2 DEF DeleteTest, AgentIDsForSite
<1>3. CASE PushBuild(o)
  <2>1. ConfigForAgent(connRow[opConn[o]]) \in Config
    BY <1>3, ConfigType DEF PushBuild
  <2> QED BY <1>3, <2>1 DEF PushBuild, Msg
<1>4. CASE PushBuildFails(o)
  BY <1>4 DEF PushBuildFails
<1>5. ASSUME NEW a \in Agents, PushLookup(o, a)
      PROVE  Typing'
  <2>1. connected[a] \in Streams /\ connRow[connected[a]] \in Row
    BY <1>5, ConnectedRow DEF PushLookup
  <2> QED BY <1>5, <2>1 DEF PushLookup
<1>6. ASSUME NEW a \in Agents, PushSkip(o, a)
      PROVE  Typing'
  BY <1>6 DEF PushSkip
<1>7. CASE Enqueue(o)
  <2> DEFINE c == opConn[o]
  <2>1. c \in Streams /\ opMsg[o] \in Msg /\ opAgent[o] \in Agents
    BY <1>7 DEF Enqueue
  <2>2. HasRoom(o) => /\ Append(push[c], opMsg[o]) \in Seq(Msg)
                      /\ Len(Append(push[c], opMsg[o])) <= PushCap
    BY <2>1, QueueType DEF HasRoom
  <2>3. AfterSend(o, HasRoom(o)) \subseteq Agents
    BY <2>1 DEF AfterSend
  <2> QED BY <1>7, <2>1, <2>2, <2>3 DEF Enqueue, TrySend
<1>8. CASE EnqueuePanics(o)
  BY <1>8 DEF EnqueuePanics, Panic
<1>9. CASE Respond(o)
  BY <1>9 DEF Respond
<1>10. CASE RefreshLookup(o)
  <2> DEFINE c == connected[opAgent[o]]
  <2>1. c \in Streams /\ connRow[c] \in Row
    BY <1>10, ConnectedRow DEF RefreshLookup
  <2> QED BY <1>10, <2>1 DEF RefreshLookup
<1>11. CASE RefreshReload(o)
  BY <1>11 DEF RefreshReload
<1>12. CASE RefreshNothing(o)
  BY <1>12 DEF RefreshNothing
<1>13. CASE RefreshRelabel(o)
  BY <1>13 DEF RefreshRelabel
<1>14. CASE ListFails(o)
  BY <1>14 DEF ListFails, AgentIDsForSite
<1>15. CASE DeleteFails(o)
  BY <1>15 DEF DeleteFails
<1>16. CASE RefreshFails(o)
  BY <1>16 DEF RefreshFails
<1> QED BY <1>1, <1>2, <1>3, <1>4, <1>5, <1>6, <1>7, <1>8, <1>9, <1>10, <1>11, <1>12, <1>13,
           <1>14, <1>15, <1>16 DEF Request

(* Accepting a request keeps the state typed. *)
LEMMA OperatorTyping ==
  ASSUME Typing, RegistryAgrees, NEW o \in Ops, Operator(o)
  PROVE  Typing'
<1> USE DEF Typing, TypeOK, LocalsInv, Step, Accept, handlerVars, requestVars, storeVars,
            RequestPC
<1>1. ASSUME NEW site \in Sites, SetSiteTests(o, site)
      PROVE  Typing'
  BY <1>1 DEF SetSiteTests
<1>2. ASSUME NEW site \in Sites, CollectForDelete(o, site)
      PROVE  Typing'
  BY <1>2 DEF CollectForDelete, AgentIDsForSite
<1>3. ASSUME NEW a \in Agents, NEW new \in Row, UpdateAgent(o, a, new)
      PROVE  Typing'
  BY <1>3 DEF UpdateAgent
<1>4. ASSUME NEW a \in Agents, RunTest(o, a)
      PROVE  Typing'
  <2>1. connected[a] \in Streams /\ connRow[connected[a]] \in Row
    BY <1>4, ConnectedRow DEF RunTest
  <2>2. [kind |-> "run", cfg |-> None] \in Msg
    BY DEF Msg
  <2> QED BY <1>4, <2>1, <2>2 DEF RunTest
<1>5. ASSUME NEW a \in Agents, DeleteAgent(o, a)
      PROVE  Typing'
  BY <1>5 DEF DeleteAgent
<1> QED BY <1>1, <1>2, <1>3, <1>4, <1>5 DEF Operator


(* A handler's step keeps the registry in agreement: the predecessor that  *)
(* Insert closes was open, and Unregister takes out no one but itself.     *)
LEMMA HandlerRegistry ==
  ASSUME Typing, RegistryAgrees,
         NEW s \in Streams, Handler(s) \/ Network(s)
  PROVE  RegistryAgrees' /\ panics' = panics
<1> DEFINE me == AgentOf[s]
           old == connected[me]
<1>0. /\ connected \in [Agents -> Streams \cup {None}]
      /\ pc \in [Streams -> HandlerPC]
      /\ closed \in [Streams -> BOOLEAN]
      /\ me \in Agents
  BY DEF Typing, TypeOK
<1>1. CASE Insert(s)
  <2>1. /\ pc[s] = "registered" /\ ~closed[s]
        /\ pc' = [pc EXCEPT ![s] = "inserted"]
        /\ connected' = [connected EXCEPT ![me] = s]
    BY <1>1 DEF Insert, Goto, Typing, LocalsInv
  <2>2. CASE old = None
    <3>1. closed' = closed /\ panics' = panics
      BY <1>1, <2>2 DEF Insert
    <3> QED BY <1>0, <2>1, <2>2, <3>1 DEF RegistryAgrees, InService
  <2>3. CASE old # None
    <3>1. old \in Streams /\ pc[old] \in InService /\ ~closed[old]
      BY <1>0, <2>3 DEF RegistryAgrees
    <3>2. old # s
      BY <2>1, <3>1 DEF InService
    <3>3. closed' = [closed EXCEPT ![old] = TRUE] /\ panics' = panics
      BY <1>1, <2>3, <3>1 DEF Insert
    <3> QED BY <1>0, <2>1, <2>3, <3>1, <3>2, <3>3
            DEF RegistryAgrees, InService
  <2> QED BY <2>2, <2>3
<1>2. CASE Unregister(s)
  <2>1. /\ pc' = [pc EXCEPT ![s] = "left"]
        /\ connected' = IF old = s THEN [connected EXCEPT ![me] = None] ELSE connected
        /\ UNCHANGED <<closed, panics>>
    BY <1>2 DEF Unregister, Goto
  <2> QED BY <1>0, <2>1 DEF RegistryAgrees, InService
<1>3. CASE Register(s) \/ Reject(s)
  <2>1. /\ pc[s] = "idle"
        /\ pc' = [pc EXCEPT ![s] = "registered"] \/ pc' = [pc EXCEPT ![s] = "done"]
        /\ UNCHANGED <<connected, closed, panics>>
    BY <1>3 DEF Register, Reject, Goto
  <2> QED BY <1>0, <2>1 DEF RegistryAgrees, InService
<1>4. CASE MarkOffline(s)
  <2>1. /\ pc[s] = "left" /\ pc' = [pc EXCEPT ![s] = "done"]
        /\ UNCHANGED <<connected, closed, panics>>
    BY <1>4 DEF MarkOffline, Goto
  <2> QED BY <1>0, <2>1 DEF RegistryAgrees, InService
<1>5. CASE \/ MarkOnline(s) \/ BuildConfig(s) \/ SendConfig(s) \/ SendPush(s)
           \/ Replaced(s) \/ StreamEnds(s)
  <2>1. /\ pc[s] \in InService
        /\ \E to \in InService : pc' = [pc EXCEPT ![s] = to]
        /\ UNCHANGED <<connected, closed, panics>>
    BY <1>5 DEF MarkOnline, BuildConfig, SendConfig, SendPush, Replaced, StreamEnds,
                Goto, InService
  <2> QED BY <1>0, <2>1 DEF RegistryAgrees
<1> QED BY <1>1, <1>2, <1>3, <1>4, <1>5 DEF Handler, Network

(* Requests touch neither the registry nor the handlers' life cycle, and   *)
(* their panic is not the one about closing.                               *)
LEMMA RequestFrame ==
  ASSUME NEW o \in Ops, Request(o) \/ Operator(o)
  PROVE  /\ UNCHANGED <<connected, pc, closed>>
         /\ panics' \subseteq panics \cup {"send on closed channel"}
<1> USE DEF handlerVars
<1>1. CASE Request(o)
  BY <1>1 DEF Request, ListAgents, ListFails, DeleteTest, DeleteFails, PushBuild, PushBuildFails, PushLookup,
              PushSkip, Enqueue, TrySend, EnqueuePanics, Respond, RefreshLookup,
              RefreshReload, RefreshNothing, RefreshFails, RefreshRelabel
<1>2. CASE Operator(o)
  BY <1>2 DEF Operator, SetSiteTests, CollectForDelete, UpdateAgent, RunTest, DeleteAgent
<1> QED BY <1>1, <1>2

(* Every step, stuttering included, preserves the invariant. *)
LEMMA NextIInv == IInv /\ [Next]_vars => IInv'
<1> SUFFICES ASSUME IInv, [Next]_vars
             PROVE  IInv'
  OBVIOUS
<1>1. Typing /\ RegistryAgrees /\ NoDoubleClose
  BY DEF IInv, Typing
<1>2. ASSUME NEW s \in Streams, Handler(s) \/ Network(s)
      PROVE  IInv'
  <2>1. Typing'
    BY <1>1, <1>2, HandlerTyping
  <2>2. RegistryAgrees' /\ panics' = panics
    BY <1>1, <1>2, HandlerRegistry
  <2> QED BY <1>1, <2>1, <2>2 DEF IInv, Typing, NoDoubleClose
<1>3. ASSUME NEW o \in Ops, Request(o) \/ Operator(o)
      PROVE  IInv'
  <2>1. Typing'
    BY <1>1, <1>3, RequestTyping, OperatorTyping
  <2>2. /\ UNCHANGED <<connected, pc, closed>>
        /\ panics' \subseteq panics \cup {"send on closed channel"}
    BY <1>3, RequestFrame
  <2>3. RegistryAgrees'
    BY <1>1, <2>2 DEF RegistryAgrees
  <2>4. NoDoubleClose'
    BY <1>1, <2>2 DEF NoDoubleClose
  <2> QED BY <2>1, <2>3, <2>4 DEF IInv, Typing
<1>4. CASE UNCHANGED vars
  BY <1>4 DEF vars, storeVars, handlerVars, requestVars, IInv, TypeOK, LocalsInv,
              RegistryAgrees, NoDoubleClose
<1> QED BY <1>2, <1>3, <1>4 DEF Next

(* The invariant holds in every reachable state. *)
THEOREM Invariance == Spec => []IInv
BY InitIInv, NextIInv, PTL DEF Spec

(* Type correctness, the bound on the push queues included: no handler or  *)
(* request of server.go leaves a variable outside its type.                *)
THEOREM TypeCorrect == Spec => []TypeOK
<1>1. IInv => TypeOK
  BY DEF IInv
<1> QED BY <1>1, Invariance, PTL

(* Server.connected and the ControlStream handlers agree in every          *)
(* reachable state, whatever the number of agents, reconnects and requests. *)
THEOREM RegistryAlwaysAgrees == Spec => []RegistryAgrees
<1>1. IInv => RegistryAgrees
  BY DEF IInv
<1> QED BY <1>1, Invariance, PTL

(* close(old.push) in ControlStream never panics. *)
THEOREM NeverClosedTwice == Spec => []NoDoubleClose
<1>1. IInv => NoDoubleClose
  BY DEF IInv
<1> QED BY <1>1, Invariance, PTL

(* At most one handler of an agent has not been told to go. *)
THEOREM OneHandler == Spec => []OneHandlerPerAgent
<1>1. RegistryAgrees => OneHandlerPerAgent
  BY DEF RegistryAgrees, OneHandlerPerAgent
<1> QED BY <1>1, RegistryAlwaysAgrees, PTL

(* A registry entry is only ever taken over by a registering handler of    *)
(* the same agent or removed by its own handler's cleanup.                 *)
THEOREM HandOver == Spec => EntryHandedOver
<1> DEFINE A == \A a \in Agents :
          \/ connected'[a] = connected[a]
          \/ /\ connected'[a] = None
             /\ pc[connected[a]] = "leaving"
          \/ \E s \in Streams :
                /\ connected'[a] = s /\ AgentOf[s] = a
                /\ pc[s] = "registered"
<1>1. IInv /\ [Next]_vars => [A]_vars
  <2> SUFFICES ASSUME IInv, Next
               PROVE  A
    OBVIOUS
  <2>1. connected \in [Agents -> Streams \cup {None}]
    BY DEF IInv, TypeOK
  <2>2. ASSUME NEW s \in Streams, Insert(s)
        PROVE  A
    BY <2>1, <2>2 DEF Insert, Goto
  <2>3. ASSUME NEW s \in Streams, Unregister(s)
        PROVE  A
    BY <2>1, <2>3 DEF Unregister, Goto
  <2>4. ASSUME NEW s \in Streams, Handler(s) \/ Network(s), ~Insert(s), ~Unregister(s)
        PROVE  A
    BY <2>4 DEF Handler, Network, Register, Reject, MarkOnline, BuildConfig, SendConfig,
                SendPush, Replaced, StreamEnds, MarkOffline
  <2>5. ASSUME NEW o \in Ops, Request(o) \/ Operator(o)
        PROVE  A
    BY <2>5, RequestFrame
  <2> QED BY <2>2, <2>3, <2>4, <2>5 DEF Next
<1> QED BY <1>1, Invariance, PTL DEF Spec, EntryHandedOver

-----------------------------------------------------------------------------
(* The configuration an agent has *)

(* The places of a handler that can still send. *)
Live == {"inserted", "online", "built", "loop"}

ConfOf(t, r) == [site |-> r.site, tests |-> t[r.site]]

(* The last configuration in a queue is c; there is none.                  *)
LastIs(q, c) ==
    \E i \in DOMAIN q : /\ q[i].kind = "config" /\ q[i].cfg = c
                        /\ \A j \in DOMAIN q : j > i => q[j].kind # "config"
NoConfig(q) == \A i \in DOMAIN q : q[i].kind # "config"

(* A handler at p with the queue q, its locals ag and b, the connection's  *)
(* row cr and sn last sent will have sent, once its queue is empty, what   *)
(* is assigned by t to the site of cr.                                     *)
UpToDate(p, q, ag, cr, b, sn, t) ==
    \/ LastIs(q, ConfOf(t, cr))
    \/ /\ NoConfig(q)
       /\ p \in {"inserted", "online"} => ag.site = cr.site
       /\ p = "built" => b = ConfOf(t, cr)
       /\ p = "loop" => sn = ConfOf(t, cr)

(* A request at p will still queue agent a a configuration, or miss it:    *)
(* it has the locals site, td, ag, cn and m; r is the agent's row and s    *)
(* its connection.                                                         *)
WillTell(a, s, r, p, site, td, ag, cn, m) ==
    \/ p = "list" /\ site = r.site
    \/ p \in {"push", "found", "send"} /\ a \in td
    \/ p = "found" /\ ag = a /\ cn = s
    \/ p = "send" /\ ag = a /\ cn = s /\ m.kind = "config"
    \/ p \in {"refresh", "reload", "relabel"} /\ ag = a

Fresh(s) == UpToDate(pc[s], push[s], agent[s], connRow[s], built[s], sent[s], tests)
Pending(o, a) ==
    WillTell(a, connected[a], row[a], opc[o], opSite[o], todo[o], opAgent[o], opConn[o], opMsg[o])

(* A connection that is not entered yet is as it was registered, and no    *)
(* request holds it.  A request is at a connection of its agent.           *)
HeldInv ==
    /\ \A s \in Streams :
          /\ pc[s] \in {"idle", "registered"} => push[s] = <<>>
          /\ pc[s] = "registered" => connRow[s] = agent[s]
    /\ \A o \in Ops :
          /\ opConn[o] \in Streams => pc[opConn[o]] \notin {"idle", "registered"}
          /\ opc[o] \in {"found", "send", "reload", "relabel"} => AgentOf[opConn[o]] = opAgent[o]

(* An agent that has not been missed and whose connection has its row is   *)
(* up to date, or some request that is running will see to it.             *)
ToldInv ==
    \A a \in Agents :
       /\ connected[a] # None /\ pc[connected[a]] \in Live
       /\ a \notin missed /\ connRow[connected[a]] = row[a]
       => Fresh(connected[a]) \/ \E o \in Ops : Pending(o, a)

SettleInv == HeldInv /\ ToldInv

-----------------------------------------------------------------------------
(* What is up to date, and pending, after a step.                          *)
FreshNext(s) == UpToDate(pc'[s], push'[s], agent'[s], connRow'[s], built'[s], sent'[s], tests')
PendingNext(o, a) ==
    WillTell(a, connected'[a], row'[a], opc'[o], opSite'[o], todo'[o], opAgent'[o], opConn'[o], opMsg'[o])

(* The invariants of the next state, in terms of its values.               *)
LEMMA ToldNext ==
  ASSUME \A a \in Agents :
            /\ connected'[a] # None /\ pc'[connected'[a]] \in Live
            /\ a \notin missed' /\ connRow'[connected'[a]] = row'[a]
            => FreshNext(connected'[a]) \/ \E o \in Ops : PendingNext(o, a)
  PROVE  ToldInv'
BY DEF ToldInv, Fresh, Pending, FreshNext, PendingNext, UpToDate, WillTell, LastIs, NoConfig, ConfOf, Live

(* What joins or leaves a queue, and its last configuration.               *)
LEMMA Joins ==
  ASSUME NEW q \in Seq(Msg), NEW m \in Msg, NEW c
  PROVE  /\ m.kind = "config" => LastIs(Append(q, m), m.cfg)
         /\ m.kind # "config" /\ LastIs(q, c) => LastIs(Append(q, m), c)
         /\ m.kind # "config" /\ NoConfig(q) => NoConfig(Append(q, m))
<1> DEFINE n == Len(q)
           r == Append(q, m)
<1>1. n \in Nat /\ DOMAIN q = 1 .. n /\ DOMAIN r = 1 .. n + 1
  OBVIOUS
<1>2. r[n + 1] = m /\ \A i \in 1 .. n : r[i] = q[i]
  OBVIOUS
<1> HIDE DEF n, r
<1>3. ASSUME m.kind = "config" PROVE LastIs(r, m.cfg)
  <2>1. n + 1 \in DOMAIN r /\ \A j \in DOMAIN r : ~ (j > n + 1)
    BY <1>1
  <2> QED BY <1>2, <1>3, <2>1 DEF LastIs
<1>4. ASSUME m.kind # "config", LastIs(q, c) PROVE LastIs(r, c)
  <2>1. PICK i \in DOMAIN q : /\ q[i].kind = "config" /\ q[i].cfg = c
                              /\ \A j \in DOMAIN q : j > i => q[j].kind # "config"
    BY <1>4 DEF LastIs
  <2>2. i \in DOMAIN r /\ r[i] = q[i]
    BY <1>1, <1>2
  <2>3. \A j \in DOMAIN r : j > i => r[j].kind # "config"
    <3> SUFFICES ASSUME NEW j \in DOMAIN r, j > i PROVE r[j].kind # "config"
      OBVIOUS
    <3>1. j \in 1 .. n \/ j = n + 1
      BY <1>1
    <3> QED BY <1>1, <1>2, <1>4, <2>1, <3>1
  <2> QED BY <2>1, <2>2, <2>3 DEF LastIs
<1>5. ASSUME m.kind # "config", NoConfig(q) PROVE NoConfig(r)
  <2>1. \A j \in DOMAIN r : j \in 1 .. n \/ j = n + 1
    BY <1>1
  <2> QED BY <1>1, <1>2, <1>5, <2>1 DEF NoConfig
<1> QED BY <1>3, <1>4, <1>5 DEF r

(* The head of a queue leaves it: the newest configuration is still queued, or it was the head and none is left. *)
LEMMA Leaves ==
  ASSUME NEW q \in Seq(Msg), q # <<>>, NEW c
  PROVE  /\ NoConfig(q) => NoConfig(Tail(q)) /\ Head(q).kind # "config"
         /\ LastIs(q, c) => \/ LastIs(Tail(q), c)
                            \/ NoConfig(Tail(q)) /\ Head(q).kind = "config" /\ Head(q).cfg = c
<1> DEFINE n == Len(q)
           r == Tail(q)
<1>1. n \in Nat \ {0} /\ DOMAIN q = 1 .. n /\ DOMAIN r = 1 .. n - 1 /\ Head(q) = q[1]
  OBVIOUS
<1>2. \A i \in 1 .. n - 1 : r[i] = q[i + 1]
  OBVIOUS
<1> HIDE DEF n, r
<1>3. \A i \in DOMAIN r : i + 1 \in DOMAIN q /\ r[i] = q[i + 1]
  BY <1>1, <1>2
<1>4. ASSUME NoConfig(q) PROVE NoConfig(r) /\ Head(q).kind # "config"
  BY <1>1, <1>3, <1>4 DEF NoConfig
<1>5. ASSUME LastIs(q, c)
      PROVE  LastIs(r, c) \/ (NoConfig(r) /\ Head(q).kind = "config" /\ Head(q).cfg = c)
  <2>1. PICK i \in DOMAIN q : /\ q[i].kind = "config" /\ q[i].cfg = c
                              /\ \A j \in DOMAIN q : j > i => q[j].kind # "config"
    BY <1>5 DEF LastIs
  <2>2. CASE i = 1
    <3>1. \A j \in DOMAIN r : j + 1 > 1
      BY <1>1
    <3>2. NoConfig(r)
      BY <1>3, <2>1, <2>2, <3>1 DEF NoConfig
    <3> QED BY <1>1, <2>1, <2>2, <3>2
  <2>3. CASE i # 1
    <3>1. i - 1 \in DOMAIN r /\ r[i - 1] = q[i]
      BY <1>1, <1>3, <2>3
    <3>2. \A j \in DOMAIN r : j > i - 1 => j + 1 > i
      BY <1>1
    <3>3. \A j \in DOMAIN r : j > i - 1 => r[j].kind # "config"
      BY <1>3, <2>1, <3>2
    <3> QED BY <2>1, <3>1, <3>3 DEF LastIs
  <2> QED BY <2>2, <2>3
<1> QED BY <1>4, <1>5 DEF r

(* A step of handler s leaves the store, the requests and the other        *)
(* handlers alone, and keeps the connection's row once it is entered.      *)
LEMMA HandlerFrame ==
  ASSUME Typing, NEW s \in Streams, Handler(s) \/ Network(s)
  PROVE  /\ UNCHANGED <<row, tests, opc, opSite, todo, opAgent, opConn, opRow, opMsg>>
         /\ \A u \in Streams \ {s} :
               /\ pc'[u] = pc[u] /\ push'[u] = push[u] /\ agent'[u] = agent[u]
               /\ connRow'[u] = connRow[u] /\ built'[u] = built[u] /\ sent'[u] = sent[u]
         /\ pc[s] # "idle" => connRow'[s] = connRow[s] /\ agent'[s] = agent[s]
         /\ pc[s] # "idle" => pc'[s] \notin {"idle", "registered"}
<1> USE DEF Goto, storeVars, requestVars
<1>1. /\ pc \in [Streams -> HandlerPC] /\ push \in [Streams -> Seq(Msg)]
      /\ agent \in [Streams -> Row \cup {None}] /\ connRow \in [Streams -> Row \cup {None}]
      /\ built \in [Streams -> Config \cup {None}] /\ sent \in [Streams -> Config \cup {None}]
  BY DEF Typing, TypeOK
<1>2. CASE Register(s) BY <1>1, <1>2 DEF Register
<1>3. CASE Reject(s) BY <1>1, <1>3 DEF Reject
<1>4. CASE Insert(s) BY <1>1, <1>4 DEF Insert
<1>5. CASE MarkOnline(s) BY <1>1, <1>5 DEF MarkOnline
<1>6. CASE BuildConfig(s) BY <1>1, <1>6 DEF BuildConfig
<1>7. CASE SendConfig(s) BY <1>1, <1>7 DEF SendConfig
<1>8. CASE SendPush(s) BY <1>1, <1>8 DEF SendPush
<1>9. CASE Replaced(s) BY <1>1, <1>9 DEF Replaced
<1>10. CASE StreamEnds(s) BY <1>1, <1>10 DEF StreamEnds
<1>11. CASE Unregister(s) BY <1>1, <1>11 DEF Unregister
<1>12. CASE MarkOffline(s) BY <1>1, <1>12 DEF MarkOffline
<1> QED BY <1>2, <1>3, <1>4, <1>5, <1>6, <1>7, <1>8, <1>9, <1>10, <1>11, <1>12 DEF Handler, Network

(* A handler that is up to date stays so while it is in service: the       *)
(* configuration it builds is that of the store, and the queue is sent in  *)
(* order after it.                                                         *)
LEMMA StaysFresh ==
  ASSUME Typing, NEW s \in Streams, Handler(s) \/ Network(s), pc'[s] \in Live, ~ Insert(s)
  PROVE  pc[s] \in Live /\ (Fresh(s) => FreshNext(s))
<1> DEFINE conf == ConfOf(tests, connRow[s])
<1> USE DEF Goto, storeVars, Live
<1>1. /\ pc \in [Streams -> HandlerPC] /\ push \in [Streams -> Seq(Msg)]
      /\ built \in [Streams -> Config \cup {None}] /\ sent \in [Streams -> Config \cup {None}]
  BY DEF Typing, TypeOK
<1>2. CASE MarkOnline(s)
  <2>1. /\ pc[s] = "inserted" /\ pc'[s] = "online"
        /\ UNCHANGED <<tests, push, agent, connRow, built, sent>>
    BY <1>1, <1>2 DEF MarkOnline
  <2> QED BY <2>1 DEF Fresh, FreshNext, UpToDate
<1>3. CASE BuildConfig(s)
  <2>1. /\ pc[s] = "online" /\ pc'[s] = "built" /\ built'[s] = ConfOf(tests, agent[s])
        /\ UNCHANGED <<tests, push, agent, connRow, sent>>
    BY <1>1, <1>3 DEF BuildConfig, ConfigForAgent, ConfOf
  <2>2. agent[s].site = connRow[s].site => ConfOf(tests, agent[s]) = conf
    BY DEF ConfOf
  <2> QED BY <2>1, <2>2 DEF Fresh, FreshNext, UpToDate
<1>4. CASE SendConfig(s)
  <2>1. /\ pc[s] = "built" /\ pc'[s] = "loop" /\ sent'[s] = built[s]
        /\ UNCHANGED <<tests, push, agent, connRow>>
    BY <1>1, <1>4 DEF SendConfig
  <2> QED BY <2>1 DEF Fresh, FreshNext, UpToDate
<1>5. CASE SendPush(s)
  <2>1. /\ pc[s] = "loop" /\ pc'[s] = "loop" /\ push[s] # <<>> /\ push'[s] = Tail(push[s])
        /\ sent'[s] = IF Head(push[s]).kind = "config" THEN Head(push[s]).cfg ELSE sent[s]
        /\ UNCHANGED <<tests, agent, connRow>>
    BY <1>1, <1>5 DEF SendPush
  <2>2. /\ NoConfig(push[s]) => NoConfig(Tail(push[s])) /\ Head(push[s]).kind # "config"
        /\ LastIs(push[s], conf) =>
              \/ LastIs(Tail(push[s]), conf)
              \/ NoConfig(Tail(push[s])) /\ Head(push[s]).kind = "config" /\ Head(push[s]).cfg = conf
    BY <1>1, <2>1, Leaves
  <2> QED BY <2>1, <2>2 DEF Fresh, FreshNext, UpToDate
<1>6. CASE \/ Register(s) \/ Reject(s) \/ Replaced(s) \/ StreamEnds(s) \/ Unregister(s) \/ MarkOffline(s)
  <2>1. pc'[s] \in {"registered", "done", "leaving", "left"}
    BY <1>1, <1>6 DEF Register, Reject, Replaced, StreamEnds, Unregister, MarkOffline
  <2> QED BY <2>1
<1> QED BY <1>2, <1>3, <1>4, <1>5, <1>6 DEF Handler, Network

(* A connection that is entered is up to date: its configuration is yet to *)
(* be built, of the row it is entered with.                                *)
LEMMA EnteredFresh ==
  ASSUME Typing, HeldInv, NEW s \in Streams, Insert(s)
  PROVE  FreshNext(s)
<1>1. /\ pc[s] = "registered" /\ pc'[s] = "inserted" /\ push'[s] = <<>>
      /\ agent'[s] = agent[s] /\ connRow'[s] = agent[s]
  BY DEF Insert, Goto, HeldInv, Typing, TypeOK
<1>2. NoConfig(<<>>)
  BY DEF NoConfig
<1> QED BY <1>1, <1>2 DEF FreshNext, UpToDate

(* How a handler's step changes the registry and what has been missed.     *)
LEMMA HandlerEntries ==
  ASSUME Typing, NEW s \in Streams, Handler(s) \/ Network(s), NEW a \in Agents
  PROVE  \/ Insert(s) /\ a = AgentOf[s] /\ connected'[a] = s
         \/ connected'[a] = connected[a] /\ (a \in missed => a \in missed')
         \/ connected'[a] = None
<1>1. connected \in [Agents -> Streams \cup {None}]
  BY DEF Typing, TypeOK
<1>2. CASE Insert(s)
  BY <1>1, <1>2 DEF Insert
<1>3. CASE Unregister(s)
  BY <1>1, <1>3 DEF Unregister
<1>4. CASE \/ Register(s) \/ Reject(s) \/ MarkOnline(s) \/ BuildConfig(s) \/ SendConfig(s) \/ SendPush(s)
           \/ Replaced(s) \/ StreamEnds(s) \/ MarkOffline(s)
  BY <1>4 DEF Register, Reject, MarkOnline, BuildConfig, SendConfig, SendPush, Replaced, StreamEnds, MarkOffline
<1> QED BY <1>2, <1>3, <1>4 DEF Handler, Network

(* A handler's step keeps the invariant of the configurations. *)
LEMMA HandlerSettle ==
  ASSUME Typing, RegistryAgrees, SettleInv, NEW s \in Streams, Handler(s) \/ Network(s)
  PROVE  SettleInv'
<1>1. /\ connected \in [Agents -> Streams \cup {None}] /\ pc \in [Streams -> HandlerPC]
      /\ opAgent \in [Ops -> Agents \cup {None}]
      /\ \A o \in Ops : opc[o] \in {"found", "send"} => opAgent[o] \in Agents
      /\ \A o \in Ops : opc[o] = "send" => opConn[o] \in Streams
  BY DEF Typing, TypeOK, LocalsInv
<1>2. /\ UNCHANGED <<row, tests, opc, opSite, todo, opAgent, opConn, opRow, opMsg>>
      /\ \A u \in Streams \ {s} :
            /\ pc'[u] = pc[u] /\ push'[u] = push[u] /\ agent'[u] = agent[u]
            /\ connRow'[u] = connRow[u] /\ built'[u] = built[u] /\ sent'[u] = sent[u]
      /\ pc[s] # "idle" => connRow'[s] = connRow[s] /\ agent'[s] = agent[s]
      /\ pc[s] # "idle" => pc'[s] \notin {"idle", "registered"}
  BY HandlerFrame
<1>3. HeldInv /\ ToldInv
  BY DEF SettleInv
<1>4. ASSUME NEW u \in Streams, pc'[u] \in Live, ~ (u = s /\ Insert(s))
      PROVE  pc[u] \in Live /\ connRow'[u] = connRow[u] /\ (Fresh(u) => FreshNext(u))
  <2>1. CASE u = s
    <3>1. pc[s] \in Live /\ (Fresh(s) => FreshNext(s))
      BY <1>4, <2>1, StaysFresh
    <3>2. pc[s] # "idle"
      BY <3>1 DEF Live
    <3> QED BY <1>2, <2>1, <3>1, <3>2
  <2>2. CASE u # s
    BY <1>2, <1>4, <2>2 DEF Fresh, FreshNext
  <2> QED BY <2>1, <2>2
<1>5. ASSUME NEW a \in Agents, connected'[a] # None, pc'[connected'[a]] \in Live
      PROVE  \/ FreshNext(connected'[a])
             \/ /\ connected'[a] = connected[a] /\ (a \in missed => a \in missed')
                /\ connected[a] \in Streams /\ pc[connected[a]] \in Live
                /\ connRow'[connected[a]] = connRow[connected[a]]
                /\ (Fresh(connected[a]) => FreshNext(connected[a]))
  <2>1. CASE Insert(s) /\ a = AgentOf[s] /\ connected'[a] = s
    BY <1>3, <2>1, EnteredFresh
  <2>2. CASE connected'[a] = connected[a] /\ (a \in missed => a \in missed')
    <3>1. connected[a] \in Streams /\ AgentOf[connected[a]] = a /\ pc[connected[a]] \in InService
      BY <1>1, <1>5, <2>2 DEF RegistryAgrees
    <3>2. Insert(s) => pc[s] = "registered"
      BY DEF Insert, Goto
    <3>3. ~ (connected[a] = s /\ Insert(s))
      BY <3>1, <3>2 DEF InService
    <3> QED BY <1>4, <1>5, <2>2, <3>1, <3>3
  <2> QED BY <1>5, <2>1, <2>2, HandlerEntries
<1>6. ToldInv'
  <2> SUFFICES ASSUME NEW a \in Agents, connected'[a] # None, pc'[connected'[a]] \in Live,
                      a \notin missed', connRow'[connected'[a]] = row'[a]
               PROVE  FreshNext(connected'[a]) \/ \E o \in Ops : PendingNext(o, a)
    BY ToldNext
  <2>1. CASE FreshNext(connected'[a])
    BY <2>1
  <2>2. CASE /\ connected'[a] = connected[a] /\ (a \in missed => a \in missed')
             /\ connected[a] \in Streams /\ pc[connected[a]] \in Live
             /\ connRow'[connected[a]] = connRow[connected[a]]
             /\ (Fresh(connected[a]) => FreshNext(connected[a]))
    <3>1. Fresh(connected[a]) \/ \E o \in Ops : Pending(o, a)
      BY <1>2, <1>3, <2>2 DEF ToldInv
    <3>2. \A o \in Ops : Pending(o, a) => PendingNext(o, a)
      BY <1>2, <2>2 DEF Pending, PendingNext
    <3> QED BY <2>2, <3>1, <3>2
  <2> QED BY <1>5, <2>1, <2>2
<1>7. HeldInv'
  <2>1. \A u \in Streams : /\ pc[u] \in {"idle", "registered"} => push[u] = <<>>
                           /\ pc[u] = "registered" => connRow[u] = agent[u]
    BY <1>3 DEF HeldInv
  <2>2. ASSUME NEW u \in Streams, pc'[u] \in {"idle", "registered"}
        PROVE  push'[u] = <<>> /\ (pc'[u] = "registered" => connRow'[u] = agent'[u])
    <3>1. CASE u # s
      BY <1>2, <2>1, <2>2, <3>1
    <3>2. CASE u = s
      <4>1. pc[s] = "idle"
        BY <1>2, <2>2, <3>2
      <4>2. Register(s)
        BY <1>1, <2>2, <3>2, <4>1 DEF Handler, Network, Register, Reject, Insert, MarkOnline, BuildConfig,
              SendConfig, SendPush, Replaced, StreamEnds, Unregister, MarkOffline, Goto
      <4>3. push'[s] = push[s] /\ connRow'[s] = agent'[s]
        BY <4>2 DEF Register, Typing, TypeOK
      <4> QED BY <2>1, <3>2, <4>1, <4>3
    <3> QED BY <3>1, <3>2
  <2>3. ASSUME NEW o \in Ops, opConn[o] \in Streams
        PROVE  pc'[opConn[o]] \notin {"idle", "registered"}
    <3>1. pc[opConn[o]] \notin {"idle", "registered"}
      BY <1>3, <2>3 DEF HeldInv
    <3> QED BY <1>2, <2>3, <3>1
  <2>4. ASSUME NEW o \in Ops
        PROVE  /\ opConn'[o] \in Streams => pc'[opConn'[o]] \notin {"idle", "registered"}
               /\ opc'[o] \in {"found", "send", "reload", "relabel"} => AgentOf[opConn'[o]] = opAgent'[o]
    BY <1>1, <1>2, <1>3, <2>3 DEF HeldInv
  <2> QED BY <2>2, <2>4 DEF HeldInv
<1> QED BY <1>6, <1>7 DEF SettleInv

-----------------------------------------------------------------------------
(* The steps of a request, with others running beside it.                  *)
OthersKept(o) ==
    \A p \in Ops \ {o} :
       /\ opc'[p] = opc[p] /\ opSite'[p] = opSite[p] /\ todo'[p] = todo[p]
       /\ opAgent'[p] = opAgent[p] /\ opConn'[p] = opConn[p] /\ opMsg'[p] = opMsg[p]

(* A request's locals are its own. *)
LEMMA RequestsApart ==
  ASSUME Typing, NEW o \in Ops, Request(o) \/ Operator(o)
  PROVE  OthersKept(o)
<1> USE DEF Step, Forget, requestVars, OthersKept
<1>1. /\ opc \in [Ops -> RequestPC] /\ opSite \in [Ops -> Sites \cup {None}] /\ todo \in [Ops -> SUBSET Agents]
      /\ opAgent \in [Ops -> Agents \cup {None}] /\ opConn \in [Ops -> Streams \cup {None}]
      /\ opMsg \in [Ops -> Msg \cup {None}]
  BY DEF Typing, TypeOK
<1>2. CASE ListAgents(o) \/ ListFails(o) \/ DeleteTest(o) \/ DeleteFails(o)
  BY <1>1, <1>2 DEF ListAgents, ListFails, DeleteTest, DeleteFails
<1>3. CASE PushBuild(o) \/ PushBuildFails(o)
  BY <1>1, <1>3 DEF PushBuild, PushBuildFails
<1>4. CASE \E a \in Agents : PushLookup(o, a) \/ PushSkip(o, a)
  BY <1>1, <1>4 DEF PushLookup, PushSkip
<1>5. CASE Enqueue(o) \/ EnqueuePanics(o) \/ Respond(o)
  BY <1>1, <1>5 DEF Enqueue, TrySend, EnqueuePanics, Respond
<1>6. CASE RefreshLookup(o) \/ RefreshReload(o) \/ RefreshNothing(o) \/ RefreshFails(o) \/ RefreshRelabel(o)
  BY <1>1, <1>6 DEF RefreshLookup, RefreshReload, RefreshNothing, RefreshFails, RefreshRelabel
<1>7. CASE Operator(o)
  BY <1>1, <1>7 DEF Operator, SetSiteTests, CollectForDelete, UpdateAgent, RunTest, DeleteAgent
<1> QED BY <1>2, <1>3, <1>4, <1>5, <1>6, <1>7 DEF Request

(* What another request will see to, it will still see to. *)
LEMMA OthersTell ==
  ASSUME NEW o \in Ops, OthersKept(o), NEW a \in Agents, connected'[a] = connected[a], row'[a] = row[a],
         NEW p \in Ops, p # o, Pending(p, a)
  PROVE  PendingNext(p, a)
BY DEF OthersKept, Pending, PendingNext

(* What a step that leaves the handlers and the store alone has to keep.   *)
LEMMA ToldKept ==
  ASSUME NEW o \in Ops, OthersKept(o), ToldInv, UNCHANGED <<handlerVars, tests, row, connected>>, missed \subseteq missed',
         \A a \in Agents :
            /\ connected[a] # None /\ pc[connected[a]] \in Live
            /\ a \notin missed' /\ connRow[connected[a]] = row[a] /\ Pending(o, a)
            => PendingNext(o, a)
  PROVE  ToldInv'
<1> SUFFICES ASSUME NEW a \in Agents, connected'[a] # None, pc'[connected'[a]] \in Live,
                    a \notin missed', connRow'[connected'[a]] = row'[a]
             PROVE  FreshNext(connected'[a]) \/ \E p \in Ops : PendingNext(p, a)
  BY ToldNext
<1>1. Fresh(connected[a]) \/ \E p \in Ops : Pending(p, a)
  BY DEF ToldInv, handlerVars
<1>2. Fresh(connected[a]) => FreshNext(connected'[a])
  BY DEF Fresh, FreshNext, handlerVars
<1>3. \A p \in Ops : Pending(p, a) => PendingNext(p, a)
  BY OthersTell DEF handlerVars
<1> QED BY <1>1, <1>2, <1>3

(* A request's step keeps HeldInv when it holds a stream of its agent.     *)
LEMMA HeldKept ==
  ASSUME NEW o \in Ops, OthersKept(o), HeldInv, UNCHANGED <<pc, agent>>,
         \A s \in Streams : pc[s] \in {"idle", "registered"} => push'[s] = push[s] /\ connRow'[s] = connRow[s],
         opConn'[o] \in Streams => pc[opConn'[o]] \notin {"idle", "registered"},
         opc'[o] \in {"found", "send", "reload", "relabel"} => AgentOf[opConn'[o]] = opAgent'[o]
  PROVE  HeldInv'
<1>1. \A s \in Streams : /\ pc'[s] \in {"idle", "registered"} => push'[s] = <<>>
                         /\ pc'[s] = "registered" => connRow'[s] = agent'[s]
  BY DEF HeldInv
<1>2. \A p \in Ops :
         /\ opConn'[p] \in Streams => pc'[opConn'[p]] \notin {"idle", "registered"}
         /\ opc'[p] \in {"found", "send", "reload", "relabel"} => AgentOf[opConn'[p]] = opAgent'[p]
  BY DEF HeldInv, OthersKept
<1> QED BY <1>1, <1>2 DEF HeldInv

(* A connection the registry has is of its agent and has been entered.     *)
LEMMA EntryOf ==
  ASSUME Typing, RegistryAgrees, NEW a \in Agents, connected[a] # None
  PROVE  /\ connected[a] \in Streams /\ AgentOf[connected[a]] = a
         /\ pc[connected[a]] \notin {"idle", "registered"} /\ connRow[connected[a]] \in Row
         /\ connRow[connected[a]] # None
<1>1. connected[a] \in Streams /\ pc[connected[a]] \in InService /\ AgentOf[connected[a]] = a
  BY DEF Typing, TypeOK, RegistryAgrees
<1>2. connRow[connected[a]] \in Row
  BY <1>1 DEF Typing, LocalsInv, InService, HandlerPC
<1> QED BY <1>1, <1>2, NoneNoRow DEF InService, Row

(* The steps of a push that leave the handlers and the store alone.        *)
LEMMA PushSettle ==
  ASSUME Typing, RegistryAgrees, SettleInv, NEW o \in Ops, OthersKept(o),
         \/ ListAgents(o) \/ ListFails(o) \/ DeleteFails(o) \/ PushBuild(o) \/ PushBuildFails(o)
         \/ (\E b \in Agents : PushLookup(o, b) \/ PushSkip(o, b))
         \/ EnqueuePanics(o) \/ Respond(o)
  PROVE  SettleInv'
<1>1. /\ HeldInv /\ ToldInv
      /\ opc \in [Ops -> RequestPC] /\ opSite \in [Ops -> Sites \cup {None}] /\ todo \in [Ops -> SUBSET Agents]
      /\ opAgent \in [Ops -> Agents \cup {None}] /\ opConn \in [Ops -> Streams \cup {None}]
      /\ opMsg \in [Ops -> Msg \cup {None}] /\ row \in [Agents -> Row \cup {None}]
      /\ missed \subseteq Agents
  BY DEF SettleInv, Typing, TypeOK
<1>2. /\ opConn[o] \in Streams => pc[opConn[o]] \notin {"idle", "registered"}
      /\ opc[o] \in {"found", "send", "reload", "relabel"} => AgentOf[opConn[o]] = opAgent[o]
  BY <1>1 DEF HeldInv
<1> USE DEF Step, storeVars
<1>3. CASE ListAgents(o)
  <2>1. /\ opc[o] = "list" /\ opc'[o] = "push" /\ todo'[o] = AgentIDsForSite(opSite[o])
        /\ UNCHANGED <<handlerVars, tests, row, connected, missed, opSite, opAgent, opConn, opMsg>>
    BY <1>1, <1>3 DEF ListAgents
  <2>2. ToldInv'
    <3>1. ASSUME NEW a \in Agents, connected[a] # None, connRow[connected[a]] = row[a], Pending(o, a)
          PROVE  PendingNext(o, a)
      <4>1. row[a] # None
        BY <3>1, EntryOf
      <4>2. opSite[o] = row[a].site
        BY <2>1, <3>1 DEF Pending, WillTell
      <4>3. a \in todo'[o]
        BY <2>1, <4>1, <4>2 DEF AgentIDsForSite
      <4> QED BY <2>1, <4>3 DEF PendingNext, WillTell
    <3> QED BY <1>1, <2>1, <3>1, ToldKept
  <2>3. HeldInv'
    BY <1>1, <1>2, <2>1, HeldKept DEF handlerVars
  <2> QED BY <2>2, <2>3 DEF SettleInv
<1>4. CASE ListFails(o)
  <2>1. /\ opc[o] = "list" /\ opc'[o] = "idle" /\ opConn'[o] = None
        /\ missed' = missed \cup AgentIDsForSite(opSite[o])
        /\ UNCHANGED <<handlerVars, tests, row, connected>>
    BY <1>1, <1>4 DEF ListFails, Forget
  <2>2. ToldInv'
    <3>1. ASSUME NEW a \in Agents, connected[a] # None, connRow[connected[a]] = row[a], a \notin missed',
                 Pending(o, a)
          PROVE  FALSE
      <4>1. row[a] # None
        BY <3>1, EntryOf
      <4>2. opSite[o] = row[a].site
        BY <2>1, <3>1 DEF Pending, WillTell
      <4> QED BY <2>1, <3>1, <4>1, <4>2 DEF AgentIDsForSite
    <3>2. missed \subseteq missed'
      BY <2>1
    <3> QED BY <1>1, <2>1, <3>1, <3>2, ToldKept
  <2>3. HeldInv'
    BY <1>1, <1>2, <2>1, HeldKept DEF handlerVars
  <2> QED BY <2>2, <2>3 DEF SettleInv
<1>5. CASE DeleteFails(o) \/ Respond(o)
  <2>1. /\ opc[o] = "delete" \/ (opc[o] = "push" /\ todo[o] = {})
        /\ opc'[o] = "idle" /\ opConn'[o] = None
        /\ UNCHANGED <<handlerVars, tests, row, connected, missed>>
    BY <1>1, <1>5 DEF DeleteFails, Respond, Forget
  <2>2. ToldInv'
    <3>1. \A a \in Agents : ~ Pending(o, a)
      BY <2>1 DEF Pending, WillTell
    <3> QED BY <1>1, <2>1, <3>1, ToldKept
  <2>3. HeldInv'
    BY <1>1, <1>2, <2>1, HeldKept DEF handlerVars
  <2> QED BY <2>2, <2>3 DEF SettleInv
<1>6. CASE PushBuild(o)
  <2> DEFINE msg == [kind |-> "config", cfg |-> ConfOf(tests, connRow[opConn[o]])]
  <2>1. /\ opc[o] = "found" /\ opc'[o] = "send" /\ opMsg'[o] = msg
        /\ UNCHANGED <<handlerVars, tests, row, connected, missed, opSite, todo, opAgent, opConn>>
    BY <1>1, <1>6 DEF PushBuild, ConfigForAgent, ConfOf
  <2>2. msg.kind = "config" /\ msg.cfg = ConfOf(tests, connRow[opConn[o]])
    OBVIOUS
  <2> HIDE DEF msg
  <2>3. ToldInv'
    <3>1. \A a \in Agents : Pending(o, a) => PendingNext(o, a)
      BY <2>1, <2>2 DEF Pending, PendingNext, WillTell
    <3> QED BY <1>1, <2>1, <3>1, ToldKept
  <2>4. HeldInv'
    BY <1>1, <1>2, <2>1, <2>2, HeldKept DEF handlerVars
  <2> QED BY <2>3, <2>4 DEF SettleInv
<1>7. CASE PushBuildFails(o)
  <2>1. /\ opc[o] = "found" /\ opc'[o] = "push" /\ missed' = missed \cup {opAgent[o]}
        /\ UNCHANGED <<handlerVars, tests, row, connected, opSite, todo, opAgent, opConn, opMsg>>
    BY <1>1, <1>7 DEF PushBuildFails
  <2>2. ToldInv'
    <3>1. \A a \in Agents : a \notin missed' /\ Pending(o, a) => PendingNext(o, a)
      BY <2>1 DEF Pending, PendingNext, WillTell
    <3>2. missed \subseteq missed'
      BY <2>1
    <3> QED BY <1>1, <2>1, <3>1, <3>2, ToldKept
  <2>3. HeldInv'
    BY <1>1, <1>2, <2>1, HeldKept DEF handlerVars
  <2> QED BY <2>2, <2>3 DEF SettleInv
<1>8. ASSUME NEW b \in Agents, PushLookup(o, b) PROVE SettleInv'
  <2>1. /\ opc[o] = "push" /\ opc'[o] = "found" /\ connected[b] # None
        /\ opAgent'[o] = b /\ opConn'[o] = connected[b] /\ todo'[o] = todo[o] \ {b}
        /\ UNCHANGED <<handlerVars, tests, row, connected, missed, opSite, opMsg>>
    BY <1>1, <1>8 DEF PushLookup
  <2>2. ToldInv'
    <3>1. \A a \in Agents : Pending(o, a) => PendingNext(o, a)
      BY <2>1 DEF Pending, PendingNext, WillTell
    <3> QED BY <1>1, <2>1, <3>1, ToldKept
  <2>3. HeldInv'
    <3>1. AgentOf[opConn'[o]] = opAgent'[o] /\ pc[opConn'[o]] \notin {"idle", "registered"}
      BY <2>1, EntryOf
    <3> QED BY <1>1, <2>1, <3>1, HeldKept DEF handlerVars
  <2> QED BY <2>2, <2>3 DEF SettleInv
<1>9. ASSUME NEW b \in Agents, PushSkip(o, b) PROVE SettleInv'
  <2>1. /\ opc[o] = "push" /\ opc'[o] = "push" /\ connected[b] = None /\ todo'[o] = todo[o] \ {b}
        /\ UNCHANGED <<handlerVars, tests, row, connected, missed, opSite, opAgent, opConn, opMsg>>
    BY <1>1, <1>9 DEF PushSkip
  <2>2. ToldInv'
    <3>1. \A a \in Agents : connected[a] # None /\ Pending(o, a) => PendingNext(o, a)
      BY <2>1 DEF Pending, PendingNext, WillTell
    <3> QED BY <1>1, <2>1, <3>1, ToldKept
  <2>3. HeldInv'
    BY <1>1, <1>2, <2>1, HeldKept DEF handlerVars
  <2> QED BY <2>2, <2>3 DEF SettleInv
<1>10. CASE EnqueuePanics(o)
  <2>1. /\ opc[o] = "send" /\ opc'[o] = "idle" /\ opConn'[o] = None /\ closed[opConn[o]]
        /\ missed' = missed \cup todo[o]
        /\ UNCHANGED <<handlerVars, tests, row, connected>>
    BY <1>1, <1>10 DEF EnqueuePanics, Forget
  <2>2. ToldInv'
    <3>1. ASSUME NEW a \in Agents, connected[a] # None, a \notin missed' PROVE ~ Pending(o, a)
      <4>1. connected[a] # opConn[o]
        BY <2>1, <3>1 DEF RegistryAgrees
      <4> QED BY <2>1, <3>1, <4>1 DEF Pending, WillTell
    <3>2. missed \subseteq missed'
      BY <2>1
    <3> QED BY <1>1, <2>1, <3>1, <3>2, ToldKept
  <2>3. HeldInv'
    BY <1>1, <1>2, <2>1, HeldKept DEF handlerVars
  <2> QED BY <2>2, <2>3 DEF SettleInv
<1> QED BY <1>3, <1>4, <1>5, <1>6, <1>7, <1>8, <1>9, <1>10

(* A message that is queued: a configuration that is current makes the     *)
(* connection it goes to up to date; an outdated one counts as missed.     *)
LEMMA EnqueueSettle ==
  ASSUME Typing, RegistryAgrees, SettleInv, NEW o \in Ops, OthersKept(o), Enqueue(o)
  PROVE  SettleInv'
<1> DEFINE c == opConn[o]
           m == opMsg[o]
<1>1. /\ HeldInv /\ ToldInv
      /\ opc \in [Ops -> RequestPC] /\ push \in [Streams -> Seq(Msg)] /\ missed \subseteq Agents
      /\ connected \in [Agents -> Streams \cup {None}]
  BY DEF SettleInv, Typing, TypeOK
<1>2. /\ opc[o] = "send" /\ opc'[o] = "push" /\ missed' = AfterSend(o, HasRoom(o))
      /\ push' = IF HasRoom(o) THEN [push EXCEPT ![c] = Append(@, m)] ELSE push
      /\ UNCHANGED <<tests, row, connected, pc, agent, connRow, built, sent, opSite, todo, opAgent, opConn, opMsg>>
  BY <1>1 DEF Enqueue, TrySend, Step, storeVars
<1>3. c \in Streams /\ m \in Msg /\ opAgent[o] \in Agents
  BY <1>2 DEF Typing, LocalsInv
<1>4. pc[c] \notin {"idle", "registered"} /\ AgentOf[c] = opAgent[o]
  BY <1>1, <1>2, <1>3 DEF HeldInv
<1>5. m.kind \in {"config", "run"}
  BY <1>3 DEF Msg
<1>6. HasRoom(o) => push'[c] = Append(push[c], m)
  BY <1>1, <1>2, <1>3
<1>7. ~ HasRoom(o) => push' = push
  BY <1>2
<1>8. \A u \in Streams : u # c => push'[u] = push[u]
  BY <1>1, <1>2, <1>3
<1>9. /\ \A a \in Agents : a # opAgent[o] /\ a \in missed => a \in missed'
      /\ m.kind = "run" \/ connected[opAgent[o]] # c => missed' = missed
      /\ m.kind # "run" /\ connected[opAgent[o]] = c /\ opAgent[o] \notin missed'
            => HasRoom(o) /\ m.cfg = ConfOf(tests, connRow[c])
  BY <1>2 DEF AfterSend, ConfigForAgent, ConfOf
<1> HIDE DEF c, m
<1>10. ASSUME NEW u \in Streams, u # c, Fresh(u) PROVE FreshNext(u)
  BY <1>2, <1>8, <1>10 DEF Fresh, FreshNext
<1>11. ASSUME m.kind = "config", HasRoom(o), m.cfg = ConfOf(tests, connRow[c]) PROVE FreshNext(c)
  <2>1. LastIs(Append(push[c], m), ConfOf(tests, connRow[c]))
    BY <1>1, <1>3, <1>11, Joins
  <2> QED BY <1>2, <1>6, <1>11, <2>1 DEF FreshNext, UpToDate
<1>12. ASSUME m.kind = "run", Fresh(c) PROVE FreshNext(c)
  <2>1. CASE HasRoom(o)
    <3> DEFINE conf == ConfOf(tests, connRow[c])
    <3>1. /\ LastIs(push[c], conf) => LastIs(Append(push[c], m), conf)
          /\ NoConfig(push[c]) => NoConfig(Append(push[c], m))
      <4>1. push[c] \in Seq(Msg) /\ m.kind # "config"
        BY <1>1, <1>3, <1>12
      <4> QED BY <1>3, <4>1, Joins
    <3> HIDE DEF conf
    <3> QED BY <1>2, <1>6, <1>12, <2>1, <3>1 DEF Fresh, FreshNext, UpToDate, conf
  <2>2. CASE ~ HasRoom(o)
    BY <1>2, <1>7, <1>12, <2>2 DEF Fresh, FreshNext
  <2> QED BY <2>1, <2>2
<1>13. ToldInv'
  <2> SUFFICES ASSUME NEW a \in Agents, connected'[a] # None, pc'[connected'[a]] \in Live,
                      a \notin missed', connRow'[connected'[a]] = row'[a]
               PROVE  FreshNext(connected'[a]) \/ \E p \in Ops : PendingNext(p, a)
    BY ToldNext
  <2> DEFINE u == connected[a]
  <2>1. u \in Streams /\ AgentOf[u] = a /\ u # None /\ pc[u] \in Live /\ connRow[u] = row[a]
        /\ connected'[a] = u
    BY <1>2, EntryOf
  <2> HIDE DEF u
  <2>2. CASE u = c /\ m.kind = "config"
    <3>1. a = opAgent[o] /\ connected[a] = c
      BY <1>4, <2>1, <2>2 DEF u
    <3>2. HasRoom(o) /\ m.cfg = ConfOf(tests, connRow[c])
      BY <1>9, <2>2, <3>1
    <3> QED BY <1>11, <2>1, <2>2, <3>2
  <2>3. CASE ~ (u = c /\ m.kind = "config")
    <3>1. a \notin missed
      BY <1>5, <1>9, <2>1, <2>3 DEF u
    <3>2. Fresh(u) \/ \E p \in Ops : Pending(p, a)
      BY <1>1, <2>1, <3>1 DEF ToldInv, u
    <3>3. Pending(o, a) => PendingNext(o, a)
      BY <1>2, <2>3 DEF Pending, PendingNext, WillTell, m, c, u
    <3>4. \A p \in Ops : Pending(p, a) => PendingNext(p, a)
      BY <1>2, <3>3, OthersTell
    <3>5. Fresh(u) => FreshNext(u)
      BY <1>5, <1>10, <1>12, <2>1, <2>3
    <3> QED BY <2>1, <3>2, <3>4, <3>5
  <2> QED BY <2>2, <2>3
<1>14. HeldInv'
  <2>1. \A s \in Streams : pc[s] \in {"idle", "registered"} => push'[s] = push[s] /\ connRow'[s] = connRow[s]
    BY <1>2, <1>4, <1>8
  <2>2. opConn'[o] \in Streams => pc[opConn'[o]] \notin {"idle", "registered"}
    BY <1>2, <1>4 DEF c
  <2> QED BY <1>1, <1>2, <2>1, <2>2, HeldKept
<1> QED BY <1>13, <1>14 DEF SettleInv

(* RefreshAgent: the agent is pushed to once its connection has the row.   *)
LEMMA RefreshSettle ==
  ASSUME Typing, RegistryAgrees, SettleInv, NEW o \in Ops, OthersKept(o),
         RefreshLookup(o) \/ RefreshReload(o) \/ RefreshNothing(o) \/ RefreshFails(o) \/ RefreshRelabel(o)
  PROVE  SettleInv'
<1>1. /\ HeldInv /\ ToldInv
      /\ opc \in [Ops -> RequestPC] /\ todo \in [Ops -> SUBSET Agents]
      /\ opConn \in [Ops -> Streams \cup {None}] /\ connRow \in [Streams -> Row \cup {None}]
      /\ opc[o] \in {"refresh", "reload", "relabel"} => opAgent[o] \in Agents
      /\ opc[o] \in {"reload", "relabel"} => opConn[o] \in Streams
  BY DEF SettleInv, Typing, TypeOK, LocalsInv
<1>2. /\ opConn[o] \in Streams => pc[opConn[o]] \notin {"idle", "registered"}
      /\ opc[o] \in {"found", "send", "reload", "relabel"} => AgentOf[opConn[o]] = opAgent[o]
  BY <1>1 DEF HeldInv
<1> USE DEF Step, storeVars
<1>3. CASE RefreshLookup(o)
  <2>1. /\ opc[o] = "refresh" /\ opc'[o] = "reload" /\ connected[opAgent[o]] # None
        /\ opConn'[o] = connected[opAgent[o]]
        /\ UNCHANGED <<handlerVars, tests, row, connected, missed, opSite, todo, opAgent, opMsg>>
    BY <1>1, <1>3 DEF RefreshLookup
  <2>2. ToldInv'
    <3>1. \A a \in Agents : Pending(o, a) => PendingNext(o, a)
      BY <2>1 DEF Pending, PendingNext, WillTell
    <3> QED BY <1>1, <2>1, <3>1, ToldKept
  <2>3. HeldInv'
    <3>1. AgentOf[opConn'[o]] = opAgent'[o] /\ pc[opConn'[o]] \notin {"idle", "registered"}
      BY <1>1, <2>1, EntryOf
    <3> QED BY <1>1, <2>1, <3>1, HeldKept DEF handlerVars
  <2> QED BY <2>2, <2>3 DEF SettleInv
<1>4. CASE RefreshReload(o)
  <2>1. /\ opc[o] = "reload" /\ opc'[o] = "relabel"
        /\ UNCHANGED <<handlerVars, tests, row, connected, missed, opSite, todo, opAgent, opConn, opMsg>>
    BY <1>1, <1>4 DEF RefreshReload
  <2>2. ToldInv'
    <3>1. \A a \in Agents : Pending(o, a) => PendingNext(o, a)
      BY <2>1 DEF Pending, PendingNext, WillTell
    <3> QED BY <1>1, <2>1, <3>1, ToldKept
  <2>3. HeldInv'
    BY <1>1, <1>2, <2>1, HeldKept DEF handlerVars
  <2> QED BY <2>2, <2>3 DEF SettleInv
<1>5. CASE RefreshNothing(o)
  <2>1. /\ opc[o] = "refresh" /\ connected[opAgent[o]] = None /\ opc'[o] = "push"
        /\ UNCHANGED <<handlerVars, tests, row, connected, missed, opSite, todo, opAgent, opConn, opMsg>>
    BY <1>1, <1>5 DEF RefreshNothing
  <2>2. ToldInv'
    <3>1. ASSUME NEW a \in Agents, connected[a] # None, connRow[connected[a]] = row[a], Pending(o, a)
          PROVE  FALSE
      <4>1. a = opAgent[o]
        BY <2>1, <3>1 DEF Pending, WillTell
      <4> QED BY <2>1, <3>1, <4>1
    <3> QED BY <1>1, <2>1, <3>1, ToldKept
  <2>3. HeldInv'
    BY <1>1, <1>2, <2>1, HeldKept DEF handlerVars
  <2> QED BY <2>2, <2>3 DEF SettleInv
<1>6. CASE RefreshFails(o)
  <2>1. /\ opc[o] = "reload" /\ opc'[o] = "push" /\ missed' = missed \cup {opAgent[o]}
        /\ UNCHANGED <<handlerVars, tests, row, connected, opSite, todo, opAgent, opConn, opMsg>>
    BY <1>1, <1>6 DEF RefreshFails
  <2>2. ToldInv'
    <3>1. \A a \in Agents : a \notin missed' => ~ Pending(o, a)
      BY <2>1 DEF Pending, WillTell
    <3>2. missed \subseteq missed'
      BY <2>1
    <3> QED BY <1>1, <2>1, <3>1, <3>2, ToldKept
  <2>3. HeldInv'
    BY <1>1, <1>2, <2>1, HeldKept DEF handlerVars
  <2> QED BY <2>2, <2>3 DEF SettleInv
<1>7. CASE RefreshRelabel(o)
  <2> DEFINE c == opConn[o]
  <2>1. /\ opc[o] = "relabel" /\ opc'[o] = "push" /\ todo'[o] = {opAgent[o]}
        /\ connRow' = [connRow EXCEPT ![c] = opRow[o]]
        /\ UNCHANGED <<tests, row, connected, missed, pc, agent, push, built, sent, opSite, opAgent, opConn, opMsg>>
    BY <1>1, <1>7 DEF RefreshRelabel
  <2>2. c \in Streams /\ AgentOf[c] = opAgent[o] /\ pc[c] \notin {"idle", "registered"}
    BY <1>1, <1>2, <2>1
  <2>3. \A u \in Streams : u # c => connRow'[u] = connRow[u]
    BY <1>1, <2>1, <2>2
  <2> HIDE DEF c
  <2>4. ToldInv'
    <3> SUFFICES ASSUME NEW a \in Agents, connected'[a] # None, pc'[connected'[a]] \in Live,
                        a \notin missed', connRow'[connected'[a]] = row'[a]
                 PROVE  FreshNext(connected'[a]) \/ \E p \in Ops : PendingNext(p, a)
      BY ToldNext
    <3>1. CASE a = opAgent[o]
      <4>1. PendingNext(o, a)
        BY <2>1, <3>1 DEF PendingNext, WillTell
      <4> QED BY <4>1
    <3>2. CASE a # opAgent[o]
      <4> DEFINE u == connected[a]
      <4>1. u \in Streams /\ AgentOf[u] = a
        BY <2>1, EntryOf
      <4>2. u # c /\ connRow'[u] = connRow[u]
        BY <2>2, <2>3, <3>2, <4>1
      <4>3. Fresh(u) \/ \E p \in Ops : Pending(p, a)
        BY <1>1, <2>1, <4>2 DEF ToldInv
      <4>4. ~ Pending(o, a)
        BY <2>1, <3>2 DEF Pending, WillTell
      <4>5. \A p \in Ops : Pending(p, a) => PendingNext(p, a)
        BY <2>1, <4>4, OthersTell
      <4>6. Fresh(u) => FreshNext(u)
        BY <2>1, <4>2 DEF Fresh, FreshNext
      <4> QED BY <2>1, <4>3, <4>5, <4>6
    <3> QED BY <3>1, <3>2
  <2>5. HeldInv'
    <3>1. \A s \in Streams : pc[s] \in {"idle", "registered"} => push'[s] = push[s] /\ connRow'[s] = connRow[s]
      BY <2>1, <2>2, <2>3
    <3> QED BY <1>1, <1>2, <2>1, <3>1, HeldKept
  <2> QED BY <2>4, <2>5 DEF SettleInv
<1> QED BY <1>3, <1>4, <1>5, <1>6, <1>7

(* A change of a site's tests: its agents are told, or missed. *)
LEMMA EditSettle ==
  ASSUME Typing, RegistryAgrees, SettleInv, NEW o \in Ops, OthersKept(o), NEW x \in Sites,
         tests' = [tests EXCEPT ![x] = @ + 1], UNCHANGED <<handlerVars, row, connected>>, missed \subseteq missed',
         \A a \in Agents : ~ Pending(o, a),
         \A a \in Agents : row[a] # None /\ row[a].site = x => a \in missed' \/ PendingNext(o, a),
         opConn'[o] \in Streams => pc[opConn'[o]] \notin {"idle", "registered"},
         opc'[o] \in {"list", "push"}
  PROVE  SettleInv'
<1>0. HeldInv /\ ToldInv /\ tests \in [Sites -> Nat]
  BY DEF SettleInv, Typing, TypeOK
<1>1. ToldInv'
  <2> SUFFICES ASSUME NEW a \in Agents, connected'[a] # None, pc'[connected'[a]] \in Live,
                      a \notin missed', connRow'[connected'[a]] = row'[a]
               PROVE  FreshNext(connected'[a]) \/ \E p \in Ops : PendingNext(p, a)
    BY ToldNext
  <2> DEFINE u == connected[a]
  <2>1. /\ u \in Streams /\ connRow[u] = row[a] /\ row[a] # None /\ row[a] \in Row
        /\ pc[u] \in Live /\ a \notin missed /\ u # None /\ connected'[a] = u
    BY EntryOf DEF handlerVars
  <2>2. CASE row[a].site = x
    BY <1>0, <2>1, <2>2
  <2>3. CASE row[a].site # x
    <3>1. Fresh(u) \/ \E p \in Ops : Pending(p, a)
      BY <1>0, <2>1 DEF ToldInv
    <3>2. \A p \in Ops : Pending(p, a) => PendingNext(p, a)
      BY <2>1, OthersTell
    <3>3. tests'[connRow[u].site] = tests[connRow[u].site]
      BY <1>0, <2>1, <2>3 DEF Row
    <3>4. ConfOf(tests', connRow[u]) = ConfOf(tests, connRow[u])
      BY <3>3 DEF ConfOf
    <3>5. Fresh(u) => FreshNext(u)
      BY <3>4 DEF Fresh, FreshNext, UpToDate, handlerVars
    <3> QED BY <2>1, <3>1, <3>2, <3>5
  <2> QED BY <2>2, <2>3
<1>2. HeldInv'
  BY <1>0, HeldKept DEF handlerVars
<1> QED BY <1>1, <1>2 DEF SettleInv

(* The second half of handleDeleteTest. *)
LEMMA DeleteSettle ==
  ASSUME Typing, RegistryAgrees, SettleInv, NEW o \in Ops, OthersKept(o), DeleteTest(o)
  PROVE  SettleInv'
<1>0. opc \in [Ops -> RequestPC] /\ HeldInv
  BY DEF Typing, TypeOK, SettleInv
<1>1. /\ opc[o] = "delete" /\ opc'[o] = "push" /\ tests' = [tests EXCEPT ![opSite[o]] = @ + 1]
      /\ missed' = missed \cup (AgentIDsForSite(opSite[o]) \ todo[o])
      /\ UNCHANGED <<handlerVars, row, connected, todo, opConn>>
  BY <1>0 DEF DeleteTest, Step
<1>2. opSite[o] \in Sites
  BY <1>0, <1>1 DEF Typing, LocalsInv
<1>3. \A a \in Agents : ~ Pending(o, a)
  BY <1>1 DEF Pending, WillTell
<1>4. ASSUME NEW a \in Agents, row[a] # None, row[a].site = opSite[o]
      PROVE  a \in missed' \/ PendingNext(o, a)
  <2>1. a \in AgentIDsForSite(opSite[o])
    BY <1>4 DEF AgentIDsForSite
  <2>2. a \in todo[o] => PendingNext(o, a)
    BY <1>1 DEF PendingNext, WillTell
  <2> QED BY <1>1, <2>1, <2>2
<1>5. opConn'[o] \in Streams => pc[opConn'[o]] \notin {"idle", "registered"}
  BY <1>0, <1>1 DEF HeldInv
<1>6. missed \subseteq missed'
  BY <1>1
<1> QED BY <1>1, <1>2, <1>3, <1>4, <1>5, <1>6, EditSettle

(* A request that is accepted. *)
LEMMA OperatorSettle ==
  ASSUME Typing, RegistryAgrees, SettleInv, NEW o \in Ops, OthersKept(o), Operator(o)
  PROVE  SettleInv'
<1>0. /\ HeldInv /\ ToldInv /\ opc \in [Ops -> RequestPC]
      /\ opSite \in [Ops -> Sites \cup {None}] /\ todo \in [Ops -> SUBSET Agents]
      /\ opAgent \in [Ops -> Agents \cup {None}] /\ opConn \in [Ops -> Streams \cup {None}]
      /\ opMsg \in [Ops -> Msg \cup {None}] /\ row \in [Agents -> Row \cup {None}]
  BY DEF Typing, TypeOK, SettleInv
<1>1. opConn[o] \in Streams => pc[opConn[o]] \notin {"idle", "registered"}
  BY <1>0 DEF HeldInv
<1> USE DEF Step, storeVars, Accept
<1>2. ASSUME NEW x \in Sites, SetSiteTests(o, x) PROVE SettleInv'
  <2>1. /\ opc[o] = "idle" /\ opc'[o] = "list" /\ tests' = [tests EXCEPT ![x] = @ + 1] /\ opSite'[o] = x
        /\ UNCHANGED <<handlerVars, row, connected, missed, opConn>>
    BY <1>0, <1>2 DEF SetSiteTests
  <2>2. \A a \in Agents : ~ Pending(o, a)
    BY <2>1 DEF Pending, WillTell
  <2>3. \A a \in Agents : row[a].site = x => PendingNext(o, a)
    BY <2>1 DEF PendingNext, WillTell
  <2> QED BY <1>1, <2>1, <2>2, <2>3, EditSettle
<1>3. ASSUME NEW x \in Sites, CollectForDelete(o, x) PROVE SettleInv'
  <2>1. /\ opc[o] = "idle" /\ opc'[o] = "delete"
        /\ UNCHANGED <<handlerVars, tests, row, connected, missed, opConn>>
    BY <1>0, <1>3 DEF CollectForDelete
  <2>2. \A a \in Agents : ~ Pending(o, a)
    BY <2>1 DEF Pending, WillTell
  <2>3. ToldInv'
    BY <1>0, <2>1, <2>2, ToldKept
  <2>4. HeldInv'
    BY <1>0, <1>1, <2>1, HeldKept DEF handlerVars
  <2> QED BY <2>3, <2>4 DEF SettleInv
<1>4. ASSUME NEW b \in Agents, NEW new \in Row, UpdateAgent(o, b, new) \/ DeleteAgent(o, b) PROVE SettleInv'
  <2>1. /\ opc[o] = "idle" /\ UNCHANGED <<handlerVars, tests, connected, missed, opConn>>
        /\ \/ opc'[o] = "refresh" /\ opAgent'[o] = b
           \/ opc'[o] = "idle" /\ row'[b] = None
        /\ \A a \in Agents : a # b => row'[a] = row[a]
    BY <1>0, <1>4 DEF UpdateAgent, DeleteAgent
  <2>2. ToldInv'
    <3> SUFFICES ASSUME NEW a \in Agents, connected'[a] # None, pc'[connected'[a]] \in Live,
                        a \notin missed', connRow'[connected'[a]] = row'[a]
                 PROVE  FreshNext(connected'[a]) \/ \E p \in Ops : PendingNext(p, a)
      BY ToldNext
    <3>1. connRow[connected[a]] # None /\ connRow[connected[a]] = row'[a]
      BY <2>1, EntryOf DEF handlerVars
    <3>2. CASE a = b
      <4>1. PendingNext(o, a)
        BY <2>1, <3>1, <3>2 DEF PendingNext, WillTell
      <4> QED BY <1>0, <4>1
    <3>3. CASE a # b
      <4>1. ~ Pending(o, a)
        BY <2>1 DEF Pending, WillTell
      <4>2. Fresh(connected[a]) \/ \E p \in Ops : Pending(p, a)
        BY <1>0, <2>1, <3>1, <3>3 DEF ToldInv, handlerVars
      <4>3. \A p \in Ops : Pending(p, a) => PendingNext(p, a)
        BY <2>1, <3>3, <4>1, OthersTell
      <4>4. Fresh(connected[a]) => FreshNext(connected[a])
        BY <2>1 DEF Fresh, FreshNext, handlerVars
      <4> QED BY <2>1, <4>2, <4>3, <4>4
    <3> QED BY <3>2, <3>3
  <2>3. HeldInv'
    BY <1>0, <1>1, <2>1, HeldKept DEF handlerVars
  <2> QED BY <2>2, <2>3 DEF SettleInv
<1>5. ASSUME NEW b \in Agents, RunTest(o, b) PROVE SettleInv'
  <2>1. /\ opc[o] = "idle" /\ opc'[o] = "send" /\ connected[b] # None /\ opAgent'[o] = b
        /\ opConn'[o] = connected[b] /\ opMsg'[o] = [kind |-> "run", cfg |-> None]
        /\ UNCHANGED <<handlerVars, tests, row, connected, missed>>
    BY <1>0, <1>5 DEF RunTest
  <2>2. ToldInv'
    <3>1. \A a \in Agents : ~ Pending(o, a)
      BY <2>1 DEF Pending, WillTell
    <3> QED BY <1>0, <2>1, <3>1, ToldKept
  <2>3. HeldInv'
    <3>1. AgentOf[opConn'[o]] = opAgent'[o] /\ pc[opConn'[o]] \notin {"idle", "registered"}
      BY <2>1, EntryOf
    <3> QED BY <1>0, <2>1, <3>1, HeldKept DEF handlerVars
  <2> QED BY <2>2, <2>3 DEF SettleInv
<1>6. CASE \E x \in Sites : SetSiteTests(o, x) \/ CollectForDelete(o, x)
  BY <1>2, <1>3, <1>6
<1>7. ASSUME NEW b \in Agents, DeleteAgent(o, b) PROVE SettleInv'
  <2>1. row[b] \in Row
    BY <1>0, <1>7 DEF DeleteAgent
  <2> QED BY <1>4, <1>7, <2>1
<1> QED BY <1>4, <1>5, <1>6, <1>7 DEF Operator

(* Every step keeps the invariant. *)
LEMMA NextSettle == IInv /\ SettleInv /\ [Next]_vars => SettleInv'
<1> SUFFICES ASSUME IInv, SettleInv, [Next]_vars PROVE SettleInv'
  OBVIOUS
<1>1. Typing /\ RegistryAgrees
  BY DEF IInv, Typing
<1>2. ASSUME NEW s \in Streams, Handler(s) \/ Network(s) PROVE SettleInv'
  BY <1>1, <1>2, HandlerSettle
<1>3. ASSUME NEW o \in Ops, Request(o) \/ Operator(o) PROVE SettleInv'
  <2>1. OthersKept(o)
    BY <1>1, <1>3, RequestsApart
  <2>2. CASE Operator(o)
    BY <1>1, <2>1, <2>2, OperatorSettle
  <2>3. CASE Request(o)
    BY <1>1, <2>1, <2>3, PushSettle, EnqueueSettle, RefreshSettle, DeleteSettle DEF Request
  <2> QED BY <1>3, <2>2, <2>3
<1>4. CASE UNCHANGED vars
  <2>1. HeldInv /\ ToldInv
    BY DEF SettleInv
  <2>2. UNCHANGED <<row, tests, connected, pc, agent, connRow, push, built, sent, opc, opSite, todo, opAgent,
                    opConn, opMsg, missed>>
    BY <1>4 DEF vars, storeVars, handlerVars, requestVars
  <2>3. ToldInv'
    BY <2>1, <2>2, ToldNext DEF ToldInv, Fresh, FreshNext, Pending, PendingNext
  <2>4. HeldInv'
    BY <2>1, <2>2 DEF HeldInv
  <2> QED BY <2>3, <2>4 DEF SettleInv
<1> QED BY <1>2, <1>3, <1>4 DEF Next

(* Nothing is queued, held or missed at first. *)
LEMMA InitSettle == Init => SettleInv
BY DEF Init, SettleInv, HeldInv, ToldInv

(* In a settled state the invariant is the property. *)
LEMMA SettledTold == IInv /\ SettleInv => SettledConfigCurrent
<1> SUFFICES ASSUME IInv, SettleInv, NEW a \in Agents, Settled(a), a \notin missed,
                    connRow[connected[a]] = row[a]
             PROVE  sent[connected[a]] = ConfigForAgent(row[a])
  BY DEF SettledConfigCurrent
<1> DEFINE u == connected[a]
<1>1. u # None /\ pc[u] = "loop" /\ push[u] = <<>> /\ \A o \in Ops : opc[o] = "idle"
  BY DEF Settled
<1>2. \A o \in Ops : ~ Pending(o, a)
  BY <1>1 DEF Pending, WillTell
<1>3. Fresh(u)
  BY <1>1, <1>2 DEF SettleInv, ToldInv, Live
<1>4. ~ LastIs(push[u], ConfOf(tests, connRow[u]))
  BY <1>1 DEF LastIs
<1>5. sent[u] = ConfOf(tests, connRow[u])
  BY <1>1, <1>3, <1>4 DEF Fresh, UpToDate
<1> QED BY <1>5 DEF ConfOf, ConfigForAgent

(* For any number of agents, streams, sites, edits and requests at the     *)
(* same time, and any queue length: an agent that is in its select loop    *)
(* with an empty queue, was not left out of its last push nor sent an      *)
(* outdated one, and whose connection has the agent's row, has been sent   *)
(* the tests now assigned to its site.  ControlStream enters the           *)
(* connection before it builds the initial configuration, and PushConfigs  *)
(* looks it up after the write (server.go), so whatever the order one of   *)
(* them sees the other.                                                    *)
THEOREM SettledIsCurrent == Spec => []SettledConfigCurrent
BY NextSettle, Invariance, InitSettle, SettledTold, PTL DEF Spec

=============================================================================

--------------------------- MODULE ServicesProofs ---------------------------
(***************************************************************************)
(* Proofs about the parts of Services that share no state: the reflector   *)
(* of the throughput test and its clients (Perfmon), the notifications     *)
(* (Notify), a traceroute (Trace) and the detection of changed routes      *)
(* (PathChange), and an agent's reports: its lines and its health          *)
(* (AgentReports).  Each part has an inductive invariant of its own, which *)
(* the steps of the other parts leave alone.                               *)
(***************************************************************************)
EXTENDS Services, WellFoundedInduction, FiniteSetTheorems, TLAPS

-----------------------------------------------------------------------------
(* The reflector *)

(* The allowlists that come of the settings on record. *)
Allowlists == {ParseCIDRs(s.cidrs) : s \in Settings} \cup {<<>>}
ListenerStates == [port : Ports \cup {0}, allowed : Allowlists, open : BOOLEAN,
                   cancelled : BOOLEAN, accepting : BOOLEAN]
Records == [cancel : Nat, port : Ports \cup {0}, allowed : Allowlists]

ReflTyped ==
    /\ started \in 0 .. MaxListeners
    /\ listener \in [Listeners -> ListenerStates]
    /\ perfmon \in Records /\ perfmon.cancel \in 0 .. started
    /\ starting \in [enabled : BOOLEAN, port : Ports \cup {0}, cidrs : Allowlists]

(* A listener that has not been started is not open.                       *)
OnlyStarted == \A l \in Listeners : listener[l].open => l <= started

(* Between the two halves of reconcile every listener has been told to     *)
(* stop and there is room for another; otherwise all but the recorded one. *)
ToldToStop ==
    IF starting = Nothing
    THEN \A l \in 1 .. started : listener[l].cancelled <=> l # perfmon.cancel
    ELSE started < MaxListeners /\ \A l \in 1 .. started : listener[l].cancelled

(* The recorded listener goes on as recorded.                              *)
Recorded == starting = Nothing /\ perfmon.cancel # 0 =>
    /\ listener[perfmon.cancel].open
    /\ listener[perfmon.cancel].port = perfmon.port
    /\ listener[perfmon.cancel].allowed = perfmon.allowed

PortsApart == \A k, l \in Listeners :
    k # l /\ listener[k].open /\ listener[l].open => listener[k].port # listener[l].port

ReflInv == ReflTyped /\ OnlyStarted /\ ToldToStop /\ Recorded /\ PortsApart

(* The reflector starts with nothing to know. *)
LEMMA ReflStarts == PerfmonInit => ReflInv
  <1> SUFFICES ASSUME PerfmonInit PROVE ReflInv
    OBVIOUS
  <1>1. NoListener \in ListenerStates /\ ~ NoListener.open
    BY DEF NoListener, ListenerStates, Allowlists
  <1>2. Off \in Records /\ Off.cancel = 0
    BY DEF Off, Records, Allowlists
  <1>3. Nothing \in [enabled : BOOLEAN, port : Ports \cup {0}, cidrs : Allowlists]
    BY DEF Nothing, Allowlists
  <1>4. \A l \in Listeners : listener[l] = NoListener
    BY DEF PerfmonInit
  <1>5. ReflTyped
    BY <1>1, <1>2, <1>3, PerfmonBounds DEF PerfmonInit, ReflTyped
  <1>6. OnlyStarted /\ PortsApart
    BY <1>1, <1>4 DEF OnlyStarted, PortsApart
  <1>7. ToldToStop /\ Recorded
    BY <1>2 DEF PerfmonInit, ToldToStop, Recorded
  <1> QED BY <1>5, <1>6, <1>7 DEF ReflInv

(* A step that leaves the reflector's state alone keeps its invariant. *)
LEMMA ReflFrame ==
  ASSUME ReflInv, UNCHANGED reflVars
  PROVE  ReflInv'
  BY DEF ReflInv, ReflTyped, OnlyStarted, ToldToStop, Recorded, PortsApart, reflVars

(* What telling the recorded listener to stop does to the listeners. *)
LEMMA StopsRecorded ==
  ASSUME ReflInv, starting = Nothing, listener' = stop(listener)
  PROVE  /\ listener' \in [Listeners -> ListenerStates]
         /\ \A l \in Listeners : /\ listener'[l].open = listener[l].open
                                 /\ listener'[l].port = listener[l].port
         /\ \A l \in 1 .. started : listener'[l].cancelled
  <1>1. listener \in [Listeners -> ListenerStates] /\ perfmon.cancel \in 0 .. started
        /\ started \in 0 .. MaxListeners /\ MaxListeners \in Nat
    BY PerfmonBounds DEF ReflInv, ReflTyped
  <1>2. \A l \in 1 .. started : l \in Listeners /\ (listener[l].cancelled <=> l # perfmon.cancel)
    BY <1>1 DEF ReflInv, ToldToStop, Listeners
  <1>3. CASE perfmon.cancel = 0
    BY <1>1, <1>2, <1>3 DEF stop
  <1>4. CASE perfmon.cancel # 0
    <2> DEFINE l0 == perfmon.cancel
               n == [listener[l0] EXCEPT !.cancelled = TRUE]
    <2>1. l0 \in 1 .. started /\ l0 \in Listeners
      BY <1>1, <1>4 DEF Listeners
    <2>2. n \in ListenerStates /\ n.open = listener[l0].open /\ n.port = listener[l0].port /\ n.cancelled
      BY <1>1, <2>1 DEF ListenerStates
    <2>3. listener' = [listener EXCEPT ![l0] = n]
      BY <1>1, <1>4, <2>1 DEF stop
    <2> HIDE DEF n, l0
    <2>4. \A l \in Listeners : listener'[l] = IF l = l0 THEN n ELSE listener[l]
      BY <1>1, <2>3
    <2>5. \A l \in 1 .. started : listener'[l].cancelled
      BY <1>2, <2>2, <2>4 DEF l0
    <2> QED BY <1>1, <2>2, <2>3, <2>4, <2>5
  <1> QED BY <1>3, <1>4

(* reconcile turns the reflector off, or has stopped the old one and goes  *)
(* on to start another.                                                    *)
LEMMA ReconcileStep ==
  ASSUME ReflInv, NEW s \in Settings, reconcilePerfmonReflector(s)
  PROVE  ReflInv'
  <1> DEFINE allowed == ParseCIDRs(s.cidrs)
             cfg == [perfmonReflectorConfigFor(s) EXCEPT !.cidrs = allowed]
  <1>0. /\ perfmonReflectorConfigFor(s).cidrs = s.cidrs /\ perfmonReflectorConfigFor(s).enabled = s.enabled
        /\ cfg = [enabled |-> s.enabled, port |-> s.port, cidrs |-> allowed]
    BY DEF perfmonReflectorConfigFor
  <1>1. /\ ReflTyped /\ OnlyStarted /\ PortsApart /\ starting = Nothing
        /\ listener' = stop(listener) /\ started' = started
        /\ \/ perfmon' = Off /\ starting' = starting
           \/ /\ s.enabled /\ started < MaxListeners
              /\ starting' = cfg /\ perfmon' = perfmon
    BY <1>0 DEF ReflInv, reconcilePerfmonReflector
  <1>2. /\ listener' \in [Listeners -> ListenerStates]
        /\ \A l \in Listeners : /\ listener'[l].open = listener[l].open
                                /\ listener'[l].port = listener[l].port
        /\ \A l \in 1 .. started : listener'[l].cancelled
    BY <1>1, StopsRecorded
  <1>3. OnlyStarted' /\ PortsApart'
    BY <1>1, <1>2 DEF OnlyStarted, PortsApart
  <1>4. CASE perfmon' = Off /\ starting' = starting
    <2>1. Off \in Records /\ Off.cancel = 0
      BY DEF Off, Records, Allowlists
    <2>2. ReflTyped'
      BY <1>1, <1>2, <1>4, <2>1 DEF ReflTyped
    <2>3. ToldToStop' /\ Recorded'
      BY <1>1, <1>2, <1>4, <2>1 DEF ReflTyped, ToldToStop, Recorded
    <2> QED BY <1>3, <2>2, <2>3 DEF ReflInv
  <1>5. CASE /\ s.enabled /\ started < MaxListeners
             /\ starting' = cfg /\ perfmon' = perfmon
    <2>1. s.enabled \in BOOLEAN /\ s.port \in Ports \cup {0}
      BY PerfmonSettings
    <2>2. allowed \in Allowlists
      BY DEF Allowlists
    <2> HIDE DEF allowed
    <2>3. cfg \in [enabled : BOOLEAN, port : Ports \cup {0}, cidrs : Allowlists]
      BY <1>0, <2>1, <2>2
    <2>4. cfg # Nothing
      <3>1. cfg.enabled # Nothing.enabled
        BY <1>0, <1>5 DEF Nothing
      <3> QED BY <3>1
    <2> HIDE DEF cfg
    <2>5. ReflTyped'
      BY <1>1, <1>2, <1>5, <2>3 DEF ReflTyped
    <2>6. ToldToStop' /\ Recorded'
      BY <1>1, <1>2, <1>5, <2>4 DEF ReflTyped, ToldToStop, Recorded
    <2> QED BY <1>3, <2>5, <2>6 DEF ReflInv
  <1> QED BY <1>1, <1>4, <1>5

(* The new listener, or none when its port is still held.                  *)
LEMMA StartStep ==
  ASSUME ReflInv, startReflector
  PROVE  ReflInv'
  <1>1. /\ ReflTyped /\ OnlyStarted /\ PortsApart /\ ToldToStop
        /\ starting # Nothing /\ starting' = Nothing
    BY DEF ReflInv, startReflector
  <1>2. started < MaxListeners /\ \A l \in 1 .. started : listener[l].cancelled
    BY <1>1 DEF ToldToStop
  <1>3. Nothing \in [enabled : BOOLEAN, port : Ports \cup {0}, cidrs : Allowlists]
    BY DEF Nothing, Allowlists
  <1>4. CASE taken(starting.port)
    <2>1. perfmon' = Off /\ listener' = listener /\ started' = started
      BY <1>4 DEF startReflector, failedToStart
    <2>2. Off \in Records /\ Off.cancel = 0
      BY DEF Off, Records, Allowlists
    <2>3. ReflTyped'
      BY <1>1, <1>3, <2>1, <2>2 DEF ReflTyped
    <2>4. OnlyStarted' /\ PortsApart'
      BY <1>1, <2>1 DEF OnlyStarted, PortsApart
    <2>5. ToldToStop' /\ Recorded'
      BY <1>1, <1>2, <2>1, <2>2 DEF ReflTyped, ToldToStop, Recorded
    <2> QED BY <2>3, <2>4, <2>5 DEF ReflInv
  <1>5. CASE ~ taken(starting.port)
    <2> DEFINE l0 == started + 1
               n == Reflector(starting)
               r == [cancel |-> l0, port |-> starting.port, allowed |-> starting.cidrs]
    <2>1. listener' = [listener EXCEPT ![l0] = n] /\ perfmon' = r /\ started' = l0
      BY <1>5 DEF startReflector
    <2>2. started \in 0 .. MaxListeners /\ MaxListeners \in Nat /\ l0 \in Listeners /\ l0 \in 1 .. MaxListeners
          /\ listener \in [Listeners -> ListenerStates]
          /\ starting \in [enabled : BOOLEAN, port : Ports \cup {0}, cidrs : Allowlists]
      BY <1>1, <1>2, PerfmonBounds DEF ReflTyped, Listeners
    <2>3. n \in ListenerStates /\ n.open /\ ~ n.cancelled /\ n.port = starting.port /\ n.allowed = starting.cidrs
      BY <2>2 DEF Reflector, ListenerStates
    <2>4. r \in Records /\ r.cancel = l0 /\ r.port = starting.port /\ r.allowed = starting.cidrs
      BY <2>2 DEF Records
    <2>5. \A l \in Listeners : listener[l].open => listener[l].port # n.port
      BY <1>5, <2>3 DEF taken
    <2> HIDE DEF n, r
    <2>6. \A l \in Listeners : listener'[l] = IF l = l0 THEN n ELSE listener[l]
      BY <2>1, <2>2
    <2>7. ReflTyped'
      BY <1>1, <1>3, <2>1, <2>2, <2>3, <2>4 DEF ReflTyped
    <2>8. OnlyStarted'
      BY <1>1, <2>1, <2>2, <2>6 DEF OnlyStarted, Listeners
    <2>9. PortsApart'
      BY <1>1, <2>3, <2>5, <2>6 DEF PortsApart
    <2>10. \A l \in 1 .. started' : l \in Listeners /\ (l = l0 \/ l \in 1 .. started)
      BY <2>1, <2>2 DEF Listeners
    <2>11. \A l \in 1 .. started' : listener'[l].cancelled <=> l # l0
      BY <1>2, <2>3, <2>6, <2>10
    <2>12. ToldToStop' /\ Recorded'
      BY <1>1, <2>1, <2>2, <2>3, <2>4, <2>6, <2>11 DEF ToldToStop, Recorded
    <2> QED BY <2>7, <2>8, <2>9, <2>12 DEF ReflInv
  <1> QED BY <1>4, <1>5

(* A cancelled listener is closed, or one stops accepting: the recorded    *)
(* one is not among the cancelled.                                         *)
LEMMA ListenerSteps ==
  ASSUME ReflInv, NEW l \in Listeners, CloseListener(l) \/ AcceptFails(l)
  PROVE  ReflInv'
  <1> DEFINE n == listener'[l]
  <1>1. /\ ReflTyped /\ OnlyStarted /\ PortsApart /\ ToldToStop /\ Recorded
        /\ started' = started /\ perfmon' = perfmon /\ starting' = starting
        /\ listener \in [Listeners -> ListenerStates]
    BY DEF ReflInv, ReflTyped, CloseListener, AcceptFails
  <1>2. /\ n \in ListenerStates /\ n.port = listener[l].port /\ n.allowed = listener[l].allowed
        /\ n.cancelled = listener[l].cancelled
        /\ n.open => listener[l].open
        /\ ~ n.open => ~ listener[l].open \/ (listener[l].open /\ listener[l].cancelled)
    <2>1. CASE CloseListener(l)
      <3> DEFINE m == [listener[l] EXCEPT !.open = FALSE, !.accepting = FALSE]
      <3>1. n = m
        BY <1>1, <2>1 DEF CloseListener
      <3>2. m \in ListenerStates /\ m.port = listener[l].port /\ m.allowed = listener[l].allowed
            /\ m.cancelled = listener[l].cancelled /\ ~ m.open
        BY <1>1 DEF ListenerStates
      <3>3. listener[l].open /\ listener[l].cancelled
        BY <2>1 DEF CloseListener
      <3> QED BY <3>1, <3>2, <3>3
    <2>2. CASE AcceptFails(l)
      <3> DEFINE m == [listener[l] EXCEPT !.accepting = FALSE]
      <3>1. n = m
        BY <1>1, <2>2 DEF AcceptFails
      <3>2. m \in ListenerStates /\ m.port = listener[l].port /\ m.allowed = listener[l].allowed
            /\ m.cancelled = listener[l].cancelled /\ m.open = listener[l].open
        BY <1>1 DEF ListenerStates
      <3> QED BY <3>1, <3>2
    <2> QED BY <2>1, <2>2
  <1>3. /\ DOMAIN listener' = Listeners
        /\ \A k \in Listeners : k # l => listener'[k] = listener[k]
        /\ listener' = [k \in Listeners |-> listener'[k]]
    BY <1>1 DEF CloseListener, AcceptFails
  <1>4. \A k \in Listeners :
           /\ listener'[k] \in ListenerStates /\ listener'[k].port = listener[k].port
           /\ listener'[k].allowed = listener[k].allowed
           /\ listener'[k].cancelled = listener[k].cancelled
           /\ listener'[k].open => listener[k].open
           /\ ~ listener'[k].open => ~ listener[k].open \/ listener[k].cancelled
    BY <1>1, <1>2, <1>3
  <1> HIDE DEF n
  <1>5. ReflTyped'
    BY <1>1, <1>3, <1>4 DEF ReflTyped
  <1>6. OnlyStarted' /\ PortsApart'
    BY <1>1, <1>4 DEF OnlyStarted, PortsApart
  <1>7. 1 .. started \subseteq Listeners
    BY <1>1, PerfmonBounds DEF ReflTyped, Listeners
  <1>8. ToldToStop'
    BY <1>1, <1>4, <1>7 DEF ToldToStop
  <1>9. Recorded'
    <2> SUFFICES ASSUME starting = Nothing, perfmon.cancel # 0
                 PROVE  /\ listener'[perfmon.cancel].open
                        /\ listener'[perfmon.cancel].port = perfmon.port
                        /\ listener'[perfmon.cancel].allowed = perfmon.allowed
      BY <1>1 DEF Recorded
    <2>1. perfmon.cancel \in 1 .. started
      BY <1>1 DEF ReflTyped
    <2>2. ~ listener[perfmon.cancel].cancelled
      BY <1>1, <2>1 DEF ToldToStop
    <2>3. perfmon.cancel \in Listeners
      BY <1>7, <2>1
    <2>4. /\ listener[perfmon.cancel].open
          /\ listener[perfmon.cancel].port = perfmon.port
          /\ listener[perfmon.cancel].allowed = perfmon.allowed
      BY <1>1 DEF Recorded
    <2> QED BY <1>4, <2>2, <2>3, <2>4
  <1> QED BY <1>5, <1>6, <1>8, <1>9 DEF ReflInv

(* Every step of the throughput test keeps the reflector's invariant.      *)
LEMMA ReflSteps ==
  ASSUME ReflInv, PerfmonNext
  PROVE  ReflInv'
  <1>1. CASE \E s \in Settings : reconcilePerfmonReflector(s)
    BY <1>1, ReconcileStep
  <1>2. CASE startReflector
    BY <1>2, StartStep
  <1>3. CASE \E l \in Listeners : CloseListener(l) \/ AcceptFails(l)
    BY <1>3, ListenerSteps
  <1>4. ASSUME NEW c \in Peers,
               \/ Accept(c) \/ AnswerHello(c) \/ ReadHeader(c) \/ CountUpload(c) \/ SendDownload(c) \/ Cut(c)
               \/ dial(c) \/ readHandshake(c) \/ streamFor(c) \/ runUploadConn(c) \/ runDownloadConn(c)
               \/ \E d \in Durations : RunClient(c, d)
        PROVE  ReflInv'
    <2>1. UNCHANGED reflVars
      BY <1>4 DEF Accept, AnswerHello, ReadHeader, CountUpload, SendDownload, Cut, dial, readHandshake,
                  streamFor, runUploadConn, runDownloadConn, RunClient
    <2> QED BY <2>1, ReflFrame
  <1> QED BY <1>1, <1>2, <1>3, <1>4 DEF PerfmonNext

(* What the property says of the reflector follows.                        *)
LEMMA ReflKnown == ReflInv => ReflectorKnown
  <1> SUFFICES ASSUME ReflInv, starting = Nothing
               PROVE  /\ \A l \in 1 .. started : listener[l].cancelled = (l # perfmon.cancel)
                      /\ perfmon.cancel # 0 =>
                            /\ listener[perfmon.cancel].open
                            /\ listener[perfmon.cancel].port = perfmon.port
                            /\ listener[perfmon.cancel].allowed = perfmon.allowed
                      /\ PortsApart
    BY DEF ReflectorKnown, PortsApart
  <1>1. \A l \in 1 .. started : l \in Listeners
    BY PerfmonBounds DEF ReflInv, ReflTyped, Listeners
  <1>2. \A l \in 1 .. started : listener[l].cancelled \in BOOLEAN
    BY <1>1 DEF ReflInv, ReflTyped, ListenerStates
  <1>3. \A l \in 1 .. started : listener[l].cancelled <=> l # perfmon.cancel
    BY DEF ReflInv, ToldToStop
  <1>4. \A l \in 1 .. started : listener[l].cancelled = (l # perfmon.cancel)
    BY <1>2, <1>3
  <1> QED BY <1>4 DEF ReflInv, Recorded

-----------------------------------------------------------------------------
(* The clients of the throughput test *)

Amounts == {"none", "some", "all"}
PeerStates == [pc : {"idle", "dial", "hello", "stream", "done"}, phase : {"upload", "download"}, dur : Nat,
               failedStep : {"", "connect", "handshake", "upload", "download"}, success : BOOLEAN,
               upload : Amounts, by : Seq(SUBSET Peers)]
LinkStates == [at : {"none", "backlog", "served", "closed", "broken"}, on : Nat,
               srv : {"hello", "header", "data"}, data : Amounts, half : BOOLEAN, counted : Amounts]

(* The connections let in before the one under way. *)
Before(k) == IF k.phase = "upload" THEN 0 ELSE 1

(* Who has let this peer in: one listener for each connection that was     *)
(* accepted, and none without the peer on its allowlist.                   *)
LetIn(c, k, n) ==
    /\ \A i \in 1 .. Len(k.by) : c \in k.by[i]
    /\ k.pc \in {"idle", "dial"} => n.at = "none" /\ n.srv = "hello" /\ Len(k.by) = Before(k)
    /\ n.at = "backlog" => n.on \in Listeners /\ n.srv = "hello" /\ Len(k.by) = Before(k)
    /\ n.at = "served" => Len(k.by) = Before(k) + 1
    /\ n.at \in {"backlog", "served"} => k.pc \in {"hello", "stream"}
    /\ n.srv # "hello" => Len(k.by) = Before(k) + 1
    /\ k.pc = "stream" => n.srv # "hello"

(* What the connection has carried, and what the reflector made of it.     *)
Carried(k, n) ==
    /\ n.srv = "data" \/ k.phase = "download" => k.dur \in 1 .. MaxDuration
    /\ k.phase = "download" => k.upload = "all"
    /\ n.counted # "none" => n.counted = "all" /\ n.srv = "data"
    /\ n.half => n.data = "all"

(* A success is final, and was earned on the way.                          *)
Earned(k, n) == k.success =>
    /\ k.pc = "done" /\ k.phase = "download" /\ n.at \in {"closed", "broken"}
    /\ n.srv # "hello" /\ (n.data # "none" \/ n.at = "closed")

ClientOK(c, k, n) ==
    /\ k \in PeerStates /\ n \in LinkStates
    /\ LetIn(c, k, n) /\ Carried(k, n) /\ Earned(k, n)

ClientInv ==
    /\ client \in [Peers -> PeerStates] /\ link \in [Peers -> LinkStates]
    /\ \A c \in Peers : ClientOK(c, client[c], link[c])

(* A connection that has not been made, and a client that has done nothing *)
(* but to look at the duration it was given.                               *)
LEMMA FreshClient ==
  ASSUME NEW c, NEW k \in PeerStates, NEW n \in LinkStates,
         k.pc \in {"idle", "dial"}, k.phase = "upload", ~ k.success, k.by = <<>>,
         n.at = "none", n.srv = "hello", n.counted = "none", ~ n.half
  PROVE  ClientOK(c, k, n)
  BY DEF ClientOK, LetIn, Carried, Earned, Before, Listeners

(* The fields of the records a client starts with. *)
LEMMA FreshRecords ==
  /\ Idle \in PeerStates /\ Idle.pc = "idle" /\ Idle.phase = "upload" /\ ~ Idle.success /\ Idle.by = <<>>
  /\ NoLink \in LinkStates /\ NoLink.at = "none" /\ NoLink.srv = "hello" /\ NoLink.counted = "none"
  /\ ~ NoLink.half /\ NoLink.data = "none"
  <1>1. Idle \in PeerStates /\ Idle.pc = "idle" /\ Idle.phase = "upload" /\ ~ Idle.success /\ Idle.by = <<>>
    BY DEF Idle, PeerStates, Amounts
  <1>2. /\ NoLink \in LinkStates /\ NoLink.at = "none" /\ NoLink.srv = "hello" /\ NoLink.counted = "none"
        /\ ~ NoLink.half /\ NoLink.data = "none"
    BY DEF NoLink, LinkStates, Amounts
  <1> QED BY <1>1, <1>2

(* No client has started. *)
LEMMA ClientsStart == PerfmonInit => ClientInv
  <1> SUFFICES ASSUME PerfmonInit PROVE ClientInv
    OBVIOUS
  <1>1. \A c \in Peers : ClientOK(c, Idle, NoLink)
    BY FreshRecords, FreshClient
  <1>2. client = [c \in Peers |-> Idle] /\ link = [c \in Peers |-> NoLink]
    BY DEF PerfmonInit
  <1> QED BY <1>1, <1>2, FreshRecords DEF ClientInv

(* A step of one client and its connection. *)
Step(c, k, n) ==
    /\ client' = [client EXCEPT ![c] = k] /\ link' = [link EXCEPT ![c] = n]
    /\ ClientOK(c, k, n)

(* Such a step keeps the invariant of all. *)
LEMMA OneClientSteps ==
  ASSUME ClientInv, NEW c \in Peers, NEW k, NEW n, Step(c, k, n)
  PROVE  ClientInv'
  <1>1. k \in PeerStates /\ n \in LinkStates
    BY DEF Step, ClientOK
  <1>2. client' \in [Peers -> PeerStates] /\ link' \in [Peers -> LinkStates]
    BY <1>1 DEF Step, ClientInv
  <1>3. \A d \in Peers : client'[d] = (IF d = c THEN k ELSE client[d]) /\ link'[d] = (IF d = c THEN n ELSE link[d])
    BY DEF Step, ClientInv
  <1> SUFFICES ASSUME NEW d \in Peers PROVE ClientOK(d, client'[d], link'[d])
    BY <1>2 DEF ClientInv, ClientOK, LetIn, Carried, Earned, Before, Listeners, PeerStates, LinkStates, Amounts
  <1>4. CASE d = c
    BY <1>3, <1>4 DEF Step
  <1>5. CASE d # c
    BY <1>3, <1>5 DEF ClientInv
  <1> QED BY <1>4, <1>5

(* The reflector accepts a connection or turns it away.                    *)
LEMMA AcceptStep ==
  ASSUME ReflInv, ClientInv, NEW c \in Peers, Accept(c)
  PROVE  ClientInv'
  <1> DEFINE k == client[c]
             n == link[c]
             al == Named(listener[n.on].allowed)
  <1>1. ClientOK(c, k, n) /\ n.at = "backlog" /\ link \in [Peers -> LinkStates] /\ client \in [Peers -> PeerStates]
    BY DEF ClientInv, Accept
  <1>2. /\ n.on \in Listeners /\ n.srv = "hello" /\ Len(k.by) = Before(k) /\ k.pc \in {"hello", "stream"}
        /\ k \in PeerStates /\ n \in LinkStates /\ k.pc # "stream"
    BY <1>1 DEF ClientOK, LetIn
  <1>3. al \in SUBSET Peers /\ (connAllowed(c, listener[n.on].allowed) <=> c \in al)
    BY DEF Named, connAllowed
  <1>4. ~ k.success
    BY <1>1, <1>2 DEF ClientOK, Earned
  <1>5. CASE c \in al
    <2> DEFINE k1 == [k EXCEPT !.by = Append(@, al)]
               n1 == [n EXCEPT !.at = "served"]
    <2>1. link' = [link EXCEPT ![c] = n1] /\ client' = [client EXCEPT ![c] = k1]
      BY <1>1, <1>3, <1>5 DEF Accept
    <2>2. n1 \in LinkStates /\ n1.at = "served" /\ n1.on = n.on /\ n1.srv = n.srv /\ n1.data = n.data
          /\ n1.half = n.half /\ n1.counted = n.counted
      BY <1>2 DEF LinkStates
    <2>3. k1 \in PeerStates /\ k1.pc = k.pc /\ k1.phase = k.phase /\ k1.dur = k.dur /\ k1.upload = k.upload
          /\ k1.success = k.success /\ k1.by = Append(k.by, al) /\ k.by \in Seq(SUBSET Peers)
      <3> DEFINE b == Append(k.by, al)
      <3>1. k.by \in Seq(SUBSET Peers)
        BY <1>2 DEF PeerStates
      <3>2. b \in Seq(SUBSET Peers)
        BY <1>3, <3>1
      <3>3. k1 = [k EXCEPT !.by = b]
        OBVIOUS
      <3> HIDE DEF b, k1
      <3>4. k1 \in PeerStates /\ k1.pc = k.pc /\ k1.phase = k.phase /\ k1.dur = k.dur /\ k1.upload = k.upload
            /\ k1.success = k.success /\ k1.by = b
        BY <1>2, <3>2, <3>3 DEF PeerStates
      <3> QED BY <3>1, <3>4 DEF b
    <2>4. Len(k1.by) = Len(k.by) + 1 /\ \A i \in 1 .. Len(k1.by) : c \in k1.by[i]
      <3>1. Len(Append(k.by, al)) = Len(k.by) + 1
        BY <1>3, <2>3
      <3>2. \A i \in 1 .. Len(k.by) + 1 : Append(k.by, al)[i] = IF i = Len(k.by) + 1 THEN al ELSE k.by[i]
        BY <1>3, <2>3
      <3>3. \A i \in 1 .. Len(k.by) : c \in k.by[i]
        BY <1>1 DEF ClientOK, LetIn
      <3>4. Len(k.by) \in Nat
        BY <2>3
      <3> HIDE DEF k, al
      <3>5. ASSUME NEW i \in 1 .. Len(k.by) + 1 PROVE c \in Append(k.by, al)[i]
        BY <1>5, <3>2, <3>3, <3>4
      <3> QED BY <2>3, <3>1, <3>5
    <2>5. Before(k1) = Before(k) /\ Before(k) \in Nat
      BY <2>3 DEF Before
    <2>6. LetIn(c, k1, n1)
      BY <1>2, <2>2, <2>3, <2>4, <2>5 DEF LetIn
    <2>7. Carried(k1, n1) /\ Earned(k1, n1)
      BY <1>1, <1>4, <2>2, <2>3 DEF Carried, Earned, ClientOK
    <2>8. Step(c, k1, n1)
      BY <2>1, <2>2, <2>3, <2>6, <2>7 DEF Step, ClientOK
    <2> QED BY <2>8, OneClientSteps
  <1>6. CASE c \notin al
    <2> DEFINE n1 == [n EXCEPT !.at = "closed"]
    <2>1. link' = [link EXCEPT ![c] = n1] /\ client' = [client EXCEPT ![c] = k]
      BY <1>1, <1>3, <1>6 DEF Accept
    <2>2. n1 \in LinkStates /\ n1.at = "closed" /\ n1.on = n.on /\ n1.srv = n.srv /\ n1.data = n.data
          /\ n1.half = n.half /\ n1.counted = n.counted
      BY <1>2 DEF LinkStates
    <2>3. LetIn(c, k, n1)
      BY <1>1, <1>2, <2>2 DEF LetIn, ClientOK
    <2>4. Carried(k, n1) /\ Earned(k, n1)
      BY <1>1, <1>2, <1>4, <2>2 DEF Carried, Earned, ClientOK
    <2>5. Step(c, k, n1)
      BY <1>2, <2>1, <2>2, <2>3, <2>4 DEF Step, ClientOK
    <2> QED BY <2>5, OneClientSteps
  <1> QED BY <1>5, <1>6

(* What the reflector does to a connection it serves, and the network to   *)
(* any: the handshake, the header, the data, and its end.                  *)
LEMMA ServedStep ==
  ASSUME ClientInv, NEW c \in Peers,
         \/ AnswerHello(c) \/ ReadHeader(c) \/ CountUpload(c) \/ SendDownload(c) \/ Cut(c)
  PROVE  ClientInv'
  <1> DEFINE k == client[c]
             n == link[c]
  <1>1. /\ ClientOK(c, k, n) /\ link \in [Peers -> LinkStates] /\ client \in [Peers -> PeerStates]
        /\ client' = [client EXCEPT ![c] = k]
    BY DEF ClientInv, AnswerHello, ReadHeader, CountUpload, SendDownload, Cut
  <1>2. k \in PeerStates /\ n \in LinkStates /\ LetIn(c, k, n) /\ Carried(k, n) /\ Earned(k, n)
    BY <1>1 DEF ClientOK
  <1>3. n.at \in {"backlog", "served"} /\ ~ k.success
    BY <1>2 DEF Earned, AnswerHello, ReadHeader, CountUpload, SendDownload, Cut
  <1> DEFINE Becomes(n1) ==
        /\ link' = [link EXCEPT ![c] = n1] /\ n1 \in LinkStates
        /\ LetIn(c, k, n1) /\ Carried(k, n1)
  <1>4. \E n1 : Becomes(n1)
    <2>1. CASE AnswerHello(c)
      <3> DEFINE n1 == [n EXCEPT !.srv = "header"]
      <3>1. link' = [link EXCEPT ![c] = n1] /\ n.at = "served" /\ n.srv = "hello"
        BY <1>1, <2>1 DEF AnswerHello
      <3>2. n1 \in LinkStates /\ n1.at = n.at /\ n1.on = n.on /\ n1.srv = "header" /\ n1.data = n.data
            /\ n1.half = n.half /\ n1.counted = n.counted
        BY <1>2 DEF LinkStates
      <3>3. LetIn(c, k, n1)
        BY <1>2, <3>1, <3>2 DEF LetIn
      <3>4. Carried(k, n1)
        BY <1>2, <3>1, <3>2 DEF Carried
      <3>5. Becomes(n1)
        BY <3>1, <3>2, <3>3, <3>4
      <3> QED BY <3>5
    <2>2. CASE ReadHeader(c) /\ (k.dur = 0 \/ k.dur > MaxDuration)
      <3> DEFINE n1 == [n EXCEPT !.at = "closed"]
      <3>1. link' = [link EXCEPT ![c] = n1] /\ n.at = "served" /\ n.srv = "header"
        BY <1>1, <2>2 DEF ReadHeader
      <3>2. n1 \in LinkStates /\ n1.at = "closed" /\ n1.on = n.on /\ n1.srv = n.srv /\ n1.data = n.data
            /\ n1.half = n.half /\ n1.counted = n.counted
        BY <1>2 DEF LinkStates
      <3>3. LetIn(c, k, n1)
        BY <1>2, <3>1, <3>2 DEF LetIn
      <3>4. k.dur \notin 1 .. MaxDuration
        <4>1. k.dur \in Nat
          BY <1>2 DEF PeerStates
        <4>2. \A d \in Nat : d = 0 \/ d > MaxDuration => d \notin 1 .. MaxDuration
          BY PerfmonBounds
        <4> QED BY <2>2, <4>1, <4>2
      <3>5. Carried(k, n1)
        BY <1>2, <3>1, <3>2, <3>4 DEF Carried
      <3>6. Becomes(n1)
        BY <3>1, <3>2, <3>3, <3>5
      <3> QED BY <3>6
    <2>3. CASE ReadHeader(c) /\ ~ (k.dur = 0 \/ k.dur > MaxDuration)
      <3> DEFINE n1 == [n EXCEPT !.srv = "data"]
      <3>1. link' = [link EXCEPT ![c] = n1] /\ n.at = "served" /\ n.srv = "header"
        BY <1>1, <2>3 DEF ReadHeader
      <3>2. n1 \in LinkStates /\ n1.at = n.at /\ n1.on = n.on /\ n1.srv = "data" /\ n1.data = n.data
            /\ n1.half = n.half /\ n1.counted = n.counted
        BY <1>2 DEF LinkStates
      <3>3. LetIn(c, k, n1)
        BY <1>2, <3>1, <3>2 DEF LetIn
      <3>4. k.dur \in 1 .. MaxDuration
        <4>1. k.dur \in Nat
          BY <1>2 DEF PeerStates
        <4>2. \A d \in Nat : ~ (d = 0 \/ d > MaxDuration) => d \in 1 .. MaxDuration
          BY PerfmonBounds
        <4> QED BY <2>3, <4>1, <4>2
      <3>5. Carried(k, n1)
        BY <1>2, <3>1, <3>2, <3>4 DEF Carried
      <3>6. Becomes(n1)
        BY <3>1, <3>2, <3>3, <3>5
      <3> QED BY <3>6
    <2>4. CASE CountUpload(c)
      <3> DEFINE n1 == [n EXCEPT !.counted = n.data, !.at = "closed"]
      <3>1. link' = [link EXCEPT ![c] = n1] /\ n.at = "served" /\ n.srv = "data" /\ n.half /\ k.phase = "upload"
        BY <1>1, <2>4 DEF CountUpload
      <3>2. n1 \in LinkStates /\ n1.at = "closed" /\ n1.on = n.on /\ n1.srv = n.srv /\ n1.data = n.data
            /\ n1.half = n.half /\ n1.counted = n.data
        BY <1>2 DEF LinkStates
      <3>3. LetIn(c, k, n1)
        BY <1>2, <3>1, <3>2 DEF LetIn
      <3>4. Carried(k, n1)
        BY <1>2, <3>1, <3>2 DEF Carried
      <3>5. Becomes(n1)
        BY <3>1, <3>2, <3>3, <3>4
      <3> QED BY <3>5
    <2>5. CASE SendDownload(c) /\ n.data = "none"
      <3> DEFINE n1 == [n EXCEPT !.data = "some"]
      <3>1. link' = [link EXCEPT ![c] = n1] /\ n.at = "served" /\ n.srv = "data"
        BY <1>1, <2>5 DEF SendDownload
      <3>2. n1 \in LinkStates /\ n1.at = n.at /\ n1.on = n.on /\ n1.srv = n.srv /\ n1.data = "some"
            /\ n1.half = n.half /\ n1.counted = n.counted
        BY <1>2 DEF LinkStates, Amounts
      <3>3. LetIn(c, k, n1)
        BY <1>2, <3>1, <3>2 DEF LetIn
      <3>4. Carried(k, n1)
        BY <1>2, <2>5, <3>1, <3>2 DEF Carried
      <3>5. Becomes(n1)
        BY <3>1, <3>2, <3>3, <3>4
      <3> QED BY <3>5
    <2>6. CASE SendDownload(c) /\ n.data # "none"
      <3> DEFINE n1 == [n EXCEPT !.data = "all", !.at = "closed"]
      <3>1. link' = [link EXCEPT ![c] = n1] /\ n.at = "served" /\ n.srv = "data"
        BY <1>1, <2>6 DEF SendDownload
      <3>2. n1 \in LinkStates /\ n1.at = "closed" /\ n1.on = n.on /\ n1.srv = n.srv /\ n1.data = "all"
            /\ n1.half = n.half /\ n1.counted = n.counted
        BY <1>2 DEF LinkStates, Amounts
      <3>3. LetIn(c, k, n1)
        BY <1>2, <3>1, <3>2 DEF LetIn
      <3>4. Carried(k, n1)
        BY <1>2, <3>1, <3>2 DEF Carried
      <3>5. Becomes(n1)
        BY <3>1, <3>2, <3>3, <3>4
      <3> QED BY <3>5
    <2>7. CASE Cut(c)
      <3>1. PICK how \in {"broken", "closed"} : link' = [link EXCEPT ![c].at = how]
        BY <2>7 DEF Cut
      <3> DEFINE n1 == [n EXCEPT !.at = how]
      <3>2. link' = [link EXCEPT ![c] = n1] /\ n1 \in LinkStates /\ n1.at \in {"broken", "closed"} /\ n1.on = n.on /\ n1.srv = n.srv /\ n1.data = n.data
            /\ n1.half = n.half /\ n1.counted = n.counted
        BY <1>1, <1>2, <3>1 DEF LinkStates
      <3> HIDE DEF n1
      <3>3. k.pc \notin {"idle", "dial"}
        BY <1>2, <1>3 DEF LetIn
      <3>4. LetIn(c, k, n1)
        BY <1>2, <3>2, <3>3 DEF LetIn
      <3>5. Carried(k, n1)
        BY <1>2, <3>2 DEF Carried
      <3>6. Becomes(n1)
        BY <3>2, <3>4, <3>5
      <3> QED BY <3>6
    <2> QED BY <2>1, <2>2, <2>3, <2>4, <2>5, <2>6, <2>7
  <1>5. PICK n1 : Becomes(n1)
    BY <1>4
  <1>6. Step(c, k, n1)
    BY <1>1, <1>2, <1>3, <1>5 DEF Step, ClientOK, Earned
  <1> QED BY <1>6, OneClientSteps

(* The fields of a client that gives up, which is then at its end.         *)
LEMMA FailedClient ==
  ASSUME NEW k \in PeerStates, NEW why \in {"connect", "handshake", "upload", "download"}
  PROVE  LET k1 == [k EXCEPT !.pc = "done", !.failedStep = why] IN
         /\ k1 \in PeerStates /\ k1.pc = "done" /\ k1.phase = k.phase /\ k1.dur = k.dur
         /\ k1.success = k.success /\ k1.upload = k.upload /\ k1.by = k.by
  BY DEF PeerStates

(* A client that gives up on a connection that is not open. *)
LEMMA FailedStep ==
  ASSUME ClientInv, NEW c \in Peers, NEW why \in {"connect", "handshake", "upload", "download"},
         failed(c, why), link' = link, client[c].pc # "done", link[c].at \notin {"backlog", "served"}
  PROVE  ClientInv'
  <1> DEFINE k == client[c]
             n == link[c]
             k1 == [k EXCEPT !.pc = "done", !.failedStep = why]
  <1>1. /\ k \in PeerStates /\ n \in LinkStates /\ LetIn(c, k, n) /\ Carried(k, n) /\ Earned(k, n)
        /\ link \in [Peers -> LinkStates] /\ client \in [Peers -> PeerStates]
    BY DEF ClientInv, ClientOK
  <1>2. client' = [client EXCEPT ![c] = k1] /\ link' = [link EXCEPT ![c] = n]
    BY <1>1 DEF failed
  <1>3. /\ k1 \in PeerStates /\ k1.pc = "done" /\ k1.phase = k.phase /\ k1.dur = k.dur
        /\ k1.success = k.success /\ k1.upload = k.upload /\ k1.by = k.by
    BY <1>1, FailedClient
  <1>4. ~ k.success
    BY <1>1 DEF Earned
  <1> HIDE DEF k1
  <1>5. Before(k1) = Before(k)
    BY <1>3 DEF Before
  <1>6. LetIn(c, k1, n)
    BY <1>1, <1>3, <1>5 DEF LetIn
  <1>7. Carried(k1, n) /\ Earned(k1, n)
    BY <1>1, <1>3, <1>4 DEF Carried, Earned
  <1>8. Step(c, k1, n)
    BY <1>1, <1>2, <1>3, <1>6, <1>7 DEF Step, ClientOK
  <1> QED BY <1>8, OneClientSteps

(* A run begins. *)
LEMMA RunStep ==
  ASSUME ClientInv, NEW c \in Peers, NEW d \in Durations, RunClient(c, d)
  PROVE  ClientInv'
  <1> DEFINE k1 == [Idle EXCEPT !.pc = "dial", !.dur = perfmonDuration(d)]
  <1>1. perfmonDuration(d) \in Nat
    BY PerfmonBounds DEF perfmonDuration
  <1>2. k1 \in PeerStates /\ k1.pc = "dial" /\ k1.phase = "upload" /\ ~ k1.success /\ k1.by = <<>>
    BY <1>1, FreshRecords DEF PeerStates
  <1>3. client' = [client EXCEPT ![c] = k1] /\ link' = [link EXCEPT ![c] = NoLink]
    BY DEF RunClient
  <1> HIDE DEF k1
  <1>4. ClientOK(c, k1, NoLink)
    BY <1>2, FreshClient, FreshRecords
  <1>5. Step(c, k1, NoLink)
    BY <1>3, <1>4 DEF Step
  <1> QED BY <1>5, OneClientSteps

(* The client connects, or there is nobody to connect to. *)
LEMMA DialStep ==
  ASSUME ClientInv, NEW c \in Peers, dial(c)
  PROVE  ClientInv'
  <1> DEFINE k == client[c]
             n == link[c]
  <1>1. /\ k \in PeerStates /\ n \in LinkStates /\ LetIn(c, k, n) /\ Carried(k, n) /\ Earned(k, n)
        /\ link \in [Peers -> LinkStates] /\ client \in [Peers -> PeerStates]
    BY DEF ClientInv, ClientOK
  <1>2. k.pc = "dial" /\ n.at = "none" /\ Len(k.by) = Before(k) /\ ~ k.success
    BY <1>1 DEF dial, LetIn, Earned
  <1>3. CASE taken(TargetPort)
    <2>1. PICK l \in Listeners : link' = [link EXCEPT ![c] = [NoLink EXCEPT !.at = "backlog", !.on = l]]
      BY <1>3 DEF dial
    <2> DEFINE n1 == [NoLink EXCEPT !.at = "backlog", !.on = l]
               k1 == [k EXCEPT !.pc = "hello"]
    <2>2. l \in Nat
      BY DEF Listeners
    <2>3. n1 \in LinkStates /\ n1.at = "backlog" /\ n1.on = l /\ n1.srv = "hello" /\ n1.data = "none"
          /\ ~ n1.half /\ n1.counted = "none"
      BY <2>2, FreshRecords DEF LinkStates
    <2>4. /\ k1 \in PeerStates /\ k1.pc = "hello" /\ k1.phase = k.phase /\ k1.dur = k.dur
          /\ k1.success = k.success /\ k1.upload = k.upload /\ k1.by = k.by
      BY <1>1 DEF PeerStates
    <2>5. link' = [link EXCEPT ![c] = n1] /\ client' = [client EXCEPT ![c] = k1]
      BY <1>1, <1>3, <2>1 DEF dial
    <2> HIDE DEF n1, k1
    <2>6. Before(k1) = Before(k)
      BY <2>4 DEF Before
    <2>7. LetIn(c, k1, n1)
      BY <1>1, <1>2, <2>3, <2>4, <2>6 DEF LetIn
    <2>8. Carried(k1, n1) /\ Earned(k1, n1)
      BY <1>1, <1>2, <2>3, <2>4 DEF Carried, Earned
    <2>9. Step(c, k1, n1)
      BY <2>3, <2>4, <2>5, <2>7, <2>8 DEF Step, ClientOK
    <2> QED BY <2>9, OneClientSteps
  <1>4. CASE ~ taken(TargetPort)
    <2>1. failed(c, "connect") /\ link' = link
      BY <1>4 DEF dial
    <2> QED BY <1>2, <2>1, FailedStep
  <1> QED BY <1>3, <1>4

(* The handshake is read. *)
LEMMA HandshakeStep ==
  ASSUME ClientInv, NEW c \in Peers, readHandshake(c)
  PROVE  ClientInv'
  <1> DEFINE k == client[c]
             n == link[c]
  <1>1. /\ k \in PeerStates /\ n \in LinkStates /\ LetIn(c, k, n) /\ Carried(k, n) /\ Earned(k, n)
        /\ link \in [Peers -> LinkStates] /\ client \in [Peers -> PeerStates]
    BY DEF ClientInv, ClientOK
  <1>2. k.pc = "hello" /\ link' = link
    BY DEF readHandshake
  <1>3. CASE ~ (n.srv # "hello" /\ n.at # "broken")
    <2>1. failed(c, "handshake") /\ n.at \in {"closed", "broken"}
      BY <1>3 DEF readHandshake, lost
    <2> QED BY <1>2, <2>1, FailedStep
  <1>4. CASE n.srv # "hello" /\ n.at # "broken"
    <2> DEFINE k1 == [k EXCEPT !.pc = "stream"]
    <2>1. client' = [client EXCEPT ![c] = k1] /\ link' = [link EXCEPT ![c] = n] /\ n.srv # "hello"
      BY <1>1, <1>2, <1>4 DEF readHandshake
    <2>2. /\ k1 \in PeerStates /\ k1.pc = "stream" /\ k1.phase = k.phase /\ k1.dur = k.dur
          /\ k1.success = k.success /\ k1.upload = k.upload /\ k1.by = k.by
      BY <1>1 DEF PeerStates
    <2> HIDE DEF k1
    <2>3. Before(k1) = Before(k)
      BY <2>2 DEF Before
    <2>4. LetIn(c, k1, n)
      BY <1>1, <1>2, <2>1, <2>2, <2>3 DEF LetIn
    <2>5. Carried(k1, n) /\ Earned(k1, n)
      BY <1>1, <1>2, <2>2 DEF Carried, Earned
    <2>6. Step(c, k1, n)
      BY <1>1, <2>1, <2>2, <2>4, <2>5 DEF Step, ClientOK
    <2> QED BY <2>6, OneClientSteps
  <1> QED BY <1>3, <1>4

(* The upload is sent. *)
LEMMA StreamStep ==
  ASSUME ClientInv, NEW c \in Peers, streamFor(c)
  PROVE  ClientInv'
  <1> DEFINE k == client[c]
             n == link[c]
  <1>1. /\ k \in PeerStates /\ n \in LinkStates /\ LetIn(c, k, n) /\ Carried(k, n) /\ Earned(k, n)
        /\ link \in [Peers -> LinkStates] /\ client \in [Peers -> PeerStates]
    BY DEF ClientInv, ClientOK
  <1>2. k.pc = "stream" /\ k.phase = "upload" /\ ~ n.half
    BY DEF streamFor
  <1>3. CASE lost(c)
    <2>1. failed(c, "upload") /\ link' = link /\ n.at \in {"closed", "broken"}
      BY <1>3 DEF streamFor, lost
    <2> QED BY <1>2, <2>1, FailedStep
  <1>4. CASE ~ lost(c)
    <2> DEFINE n1 == IF n.data = "none" THEN [n EXCEPT !.data = "some"] ELSE [n EXCEPT !.data = "all", !.half = TRUE]
    <2>1. client' = [client EXCEPT ![c] = k] /\ link' = [link EXCEPT ![c] = n1]
      BY <1>1, <1>4 DEF streamFor
    <2>2. /\ n1 \in LinkStates /\ n1.at = n.at /\ n1.on = n.on /\ n1.srv = n.srv /\ n1.counted = n.counted
          /\ n1.half => n1.data = "all"
      <3>1. CASE n.data = "none"
        <4> DEFINE m == [n EXCEPT !.data = "some"]
        <4>1. m \in LinkStates /\ m.at = n.at /\ m.on = n.on /\ m.srv = n.srv /\ m.counted = n.counted /\ m.half = n.half
          BY <1>1 DEF LinkStates, Amounts
        <4>2. n1 = m
          BY <3>1
        <4> QED BY <1>2, <4>1, <4>2
      <3>2. CASE n.data # "none"
        <4> DEFINE m == [n EXCEPT !.data = "all", !.half = TRUE]
        <4>1. m \in LinkStates /\ m.at = n.at /\ m.on = n.on /\ m.srv = n.srv /\ m.counted = n.counted /\ m.data = "all"
          BY <1>1 DEF LinkStates, Amounts
        <4>2. n1 = m
          BY <3>2
        <4> QED BY <4>1, <4>2
      <3> QED BY <3>1, <3>2
    <2> HIDE DEF n1
    <2>3. LetIn(c, k, n1)
      BY <1>1, <2>2 DEF LetIn
    <2>4. Carried(k, n1) /\ Earned(k, n1)
      BY <1>1, <1>2, <2>2 DEF Carried, Earned
    <2>5. Step(c, k, n1)
      BY <1>1, <2>1, <2>2, <2>3, <2>4 DEF Step, ClientOK
    <2> QED BY <2>5, OneClientSteps
  <1> QED BY <1>3, <1>4

(* The count of the upload is read, and the download is next. *)
LEMMA UploadStep ==
  ASSUME ClientInv, NEW c \in Peers, runUploadConn(c)
  PROVE  ClientInv'
  <1> DEFINE k == client[c]
             n == link[c]
  <1>1. /\ k \in PeerStates /\ n \in LinkStates /\ LetIn(c, k, n) /\ Carried(k, n) /\ Earned(k, n)
        /\ link \in [Peers -> LinkStates] /\ client \in [Peers -> PeerStates]
    BY DEF ClientInv, ClientOK
  <1>2. k.pc = "stream" /\ k.phase = "upload" /\ n.at \in {"closed", "broken"}
    BY DEF runUploadConn, lost
  <1>3. CASE n.counted = "none"
    <2>1. failed(c, "upload") /\ link' = link
      BY <1>3 DEF runUploadConn
    <2> QED BY <1>2, <2>1, FailedStep
  <1>4. CASE n.counted # "none"
    <2> DEFINE k1 == [k EXCEPT !.upload = n.counted, !.phase = "download", !.pc = "dial"]
    <2>1. client' = [client EXCEPT ![c] = k1] /\ link' = [link EXCEPT ![c] = NoLink]
      BY <1>1, <1>4 DEF runUploadConn
    <2>2. n.counted = "all" /\ n.srv = "data" /\ k.dur \in 1 .. MaxDuration
      BY <1>1, <1>4 DEF Carried
    <2>3. /\ k1 \in PeerStates /\ k1.pc = "dial" /\ k1.phase = "download" /\ k1.dur = k.dur
          /\ k1.success = k.success /\ k1.upload = n.counted /\ k1.by = k.by
      BY <1>1 DEF PeerStates, LinkStates
    <2> HIDE DEF k1
    <2>4. Before(k1) = 1 /\ Before(k) = 0
      BY <1>2, <2>3 DEF Before
    <2>5. Len(k1.by) = 1
      BY <1>1, <2>2, <2>3, <2>4 DEF LetIn
    <2>6. LetIn(c, k1, NoLink)
      BY <1>1, <2>3, <2>4, <2>5, FreshRecords DEF LetIn
    <2>7. Carried(k1, NoLink) /\ Earned(k1, NoLink)
      BY <1>1, <1>2, <2>2, <2>3, FreshRecords DEF Carried, Earned
    <2>8. Step(c, k1, NoLink)
      BY <2>1, <2>3, <2>6, <2>7, FreshRecords DEF Step, ClientOK
    <2> QED BY <2>8, OneClientSteps
  <1> QED BY <1>3, <1>4

(* The download is read to its end. *)
LEMMA DownloadStep ==
  ASSUME ClientInv, NEW c \in Peers, runDownloadConn(c)
  PROVE  ClientInv'
  <1> DEFINE k == client[c]
             n == link[c]
  <1>1. /\ k \in PeerStates /\ n \in LinkStates /\ LetIn(c, k, n) /\ Carried(k, n) /\ Earned(k, n)
        /\ link \in [Peers -> LinkStates] /\ client \in [Peers -> PeerStates]
    BY DEF ClientInv, ClientOK
  <1>2. k.pc = "stream" /\ k.phase = "download" /\ n.at \in {"closed", "broken"} /\ link' = link
    BY DEF runDownloadConn, lost
  <1>3. CASE failed(c, "download")
    BY <1>2, <1>3, FailedStep
  <1>4. CASE /\ n.data # "none" \/ n.at = "closed"
             /\ client' = [client EXCEPT ![c].pc = "done", ![c].success = TRUE]
    <2> DEFINE k1 == [k EXCEPT !.pc = "done", !.success = TRUE]
    <2>1. client' = [client EXCEPT ![c] = k1] /\ link' = [link EXCEPT ![c] = n]
      BY <1>1, <1>2, <1>4
    <2>2. n.srv # "hello" /\ (n.data # "none" \/ n.at = "closed")
      BY <1>1, <1>2, <1>4 DEF LetIn
    <2>3. /\ k1 \in PeerStates /\ k1.pc = "done" /\ k1.phase = k.phase /\ k1.dur = k.dur
          /\ k1.upload = k.upload /\ k1.by = k.by
      BY <1>1 DEF PeerStates
    <2> HIDE DEF k1
    <2>4. Before(k1) = Before(k)
      BY <2>3 DEF Before
    <2>5. LetIn(c, k1, n)
      BY <1>1, <1>2, <2>3, <2>4 DEF LetIn
    <2>6. Carried(k1, n) /\ Earned(k1, n)
      BY <1>1, <1>2, <2>2, <2>3 DEF Carried, Earned
    <2>7. Step(c, k1, n)
      BY <1>1, <2>1, <2>3, <2>5, <2>6 DEF Step, ClientOK
    <2> QED BY <2>7, OneClientSteps
  <1> QED BY <1>3, <1>4 DEF runDownloadConn

(* A listener that closes breaks the connections it has not accepted. *)
LEMMA CloseLinks ==
  ASSUME ClientInv, NEW l \in Listeners, CloseListener(l)
  PROVE  ClientInv'
  <1> DEFINE broken(c) == [link[c] EXCEPT !.at = "broken"]
  <1>1. client' = client /\ link' = [c \in Peers |-> IF link[c].at = "backlog" /\ link[c].on = l
                                                      THEN broken(c) ELSE link[c]]
    BY DEF CloseListener
  <1>2. link \in [Peers -> LinkStates] /\ client \in [Peers -> PeerStates]
    BY DEF ClientInv
  <1>3. \A c \in Peers : /\ broken(c) \in LinkStates /\ broken(c).at = "broken" /\ broken(c).srv = link[c].srv
                         /\ broken(c).data = link[c].data /\ broken(c).half = link[c].half
                         /\ broken(c).counted = link[c].counted
    BY <1>2 DEF LinkStates
  <1>4. ASSUME NEW c \in Peers
        PROVE  ClientOK(c, client[c], broken(c)) \/ link[c].at # "backlog"
    <2> SUFFICES ASSUME link[c].at = "backlog" PROVE ClientOK(c, client[c], broken(c))
      OBVIOUS
    <2>1. /\ client[c] \in PeerStates /\ LetIn(c, client[c], link[c]) /\ Carried(client[c], link[c])
          /\ Earned(client[c], link[c])
      BY DEF ClientInv, ClientOK
    <2>2. ~ client[c].success /\ client[c].pc \notin {"idle", "dial"}
      BY <2>1 DEF Earned, LetIn
    <2> HIDE DEF broken
    <2>3. LetIn(c, client[c], broken(c))
      BY <1>3, <2>1, <2>2 DEF LetIn
    <2>4. Carried(client[c], broken(c)) /\ Earned(client[c], broken(c))
      BY <1>3, <2>1, <2>2 DEF Carried, Earned
    <2> QED BY <1>3, <2>1, <2>3, <2>4 DEF ClientOK
  <1> HIDE DEF broken
  <1>5. link' \in [Peers -> LinkStates]
    BY <1>1, <1>2, <1>3
  <1>6. \A c \in Peers : ClientOK(c, client'[c], link'[c])
    BY <1>1, <1>4 DEF ClientInv
  <1> QED BY <1>1, <1>2, <1>5, <1>6 DEF ClientInv, ClientOK, LetIn, Carried, Earned, Before, Listeners,
                                        PeerStates, LinkStates, Amounts

(* A step that leaves clients and connections alone keeps their invariant. *)
LEMMA ClientFrame ==
  ASSUME ClientInv, client' = client, link' = link
  PROVE  ClientInv'
  <1>1. client' \in [Peers -> PeerStates] /\ link' \in [Peers -> LinkStates]
    BY DEF ClientInv
  <1>2. \A c \in Peers : ClientOK(c, client'[c], link'[c])
    BY DEF ClientInv
  <1> QED BY <1>1, <1>2 DEF ClientInv, ClientOK, LetIn, Carried, Earned, Before, Listeners,
                            PeerStates, LinkStates, Amounts

(* Every step of the throughput test keeps the clients' invariant.         *)
LEMMA ClientSteps ==
  ASSUME ReflInv, ClientInv, PerfmonNext
  PROVE  ClientInv'
  <1>1. CASE \E s \in Settings : reconcilePerfmonReflector(s)
    BY <1>1, ClientFrame DEF reconcilePerfmonReflector
  <1>2. CASE startReflector
    BY <1>2, ClientFrame DEF startReflector
  <1>3. ASSUME NEW l \in Listeners, CloseListener(l) \/ AcceptFails(l)
        PROVE  ClientInv'
    BY <1>3, ClientFrame, CloseLinks DEF AcceptFails
  <1>4. ASSUME NEW c \in Peers,
               \/ Accept(c) \/ AnswerHello(c) \/ ReadHeader(c) \/ CountUpload(c) \/ SendDownload(c) \/ Cut(c)
               \/ dial(c) \/ readHandshake(c) \/ streamFor(c) \/ runUploadConn(c) \/ runDownloadConn(c)
               \/ \E d \in Durations : RunClient(c, d)
        PROVE  ClientInv'
    BY <1>4, AcceptStep, ServedStep, DialStep, HandshakeStep, StreamStep, UploadStep, DownloadStep, RunStep
  <1> QED BY <1>1, <1>2, <1>3, <1>4 DEF PerfmonNext

(* What the property says of a successful run follows.                     *)
LEMMA ClientsEarn == ClientInv => SuccessEarned
  <1> SUFFICES ASSUME ClientInv, NEW c \in Peers, client[c].success
               PROVE  /\ Len(client[c].by) = 2 /\ \A i \in 1 .. 2 : c \in client[c].by[i]
                      /\ client[c].upload = "all"
                      /\ link[c].data # "none" \/ (link[c].at = "closed" /\ link[c].srv # "hello")
                      /\ client[c].dur \in 1 .. MaxDuration
    BY DEF SuccessEarned
  <1>1. LetIn(c, client[c], link[c]) /\ Carried(client[c], link[c]) /\ Earned(client[c], link[c])
    BY DEF ClientInv, ClientOK
  <1>2. client[c].phase = "download" /\ link[c].srv # "hello"
        /\ (link[c].data # "none" \/ link[c].at = "closed")
    BY <1>1 DEF Earned
  <1>3. Len(client[c].by) = 2
    BY <1>1, <1>2 DEF LetIn, Before
  <1> QED BY <1>1, <1>2, <1>3 DEF LetIn, Carried

-----------------------------------------------------------------------------
(* Induction over the numbers, with a set in the place of a predicate *)

Less == {p \in Nat \X Nat : p[1] < p[2]}

(* A set of numbers that is not empty has a least one.                     *)
LEMMA LeastNumber ==
  ASSUME NEW T \in SUBSET Nat, T # {}
  PROVE  \E m \in T : \A n \in T : m <= n
  <1>1. OpToRel(<, Nat) = Less
    BY DEF OpToRel, Less
  <1>2. \E m \in T : \A n \in T : ~ (<<n, m>> \in OpToRel(<, Nat))
    BY WFMin, NatLessThanWellFounded
  <1>3. PICK m \in T : \A n \in T : ~ (<<n, m>> \in Less)
    BY <1>1, <1>2
  <1>4. \A i, n \in Nat : i < n => <<i, n>> \in Less
    BY DEF Less
  <1>5. \A n \in T : ~ (n < m)
    BY <1>3, <1>4
  <1> QED BY <1>5

(* A set with 0 in it that is closed under successor has every number.     *)
LEMMA SetInduction ==
  ASSUME NEW P \in SUBSET Nat, 0 \in P, \A n \in P : n + 1 \in P
  PROVE  P = Nat
  <1> SUFFICES ASSUME Nat \ P # {} PROVE FALSE
    OBVIOUS
  <1>1. PICK m \in Nat \ P : \A n \in Nat \ P : m <= n
    BY LeastNumber
  <1>2. m # 0 /\ m - 1 \in Nat /\ m - 1 \in P
    BY <1>1
  <1> QED BY <1>1, <1>2

-----------------------------------------------------------------------------
(* The notifications *)

Fields == Text \cup {"", "number"}

(* The configurations the API lets through. *)
Valid == {c \in Configs : c.type \in Types /\ validateTargetConfig(c)}

(* What the loop of recipients makes of a list is the list, when all of    *)
(* its entries are strings: the API has checked that of a mail's list.     *)
LEMMA AllRecipients ==
  ASSUME NEW c \in Valid, c.type = "email"
  PROVE  recipients(c) = c.to
  <1> DEFINE s == c.to
             Rec(f) == f = [i \in 0 .. Len(s) |-> IF i = 0 THEN <<>>
                              ELSE IF isString(s[i]) THEN Append(f[i - 1], s[i]) ELSE f[i - 1]]
             F == CHOOSE f : Rec(f)
             W == [i \in 0 .. Len(s) |-> SubSeq(s, 1, i)]
             P == {i \in Nat : i <= Len(s) => F[i] = SubSeq(s, 1, i)}
  <1>1. recipients(c) = F[Len(s)]
    BY DEF recipients
  <1>2. s \in Seq(Fields) /\ Len(s) \in Nat /\ \A i \in 1 .. Len(s) : isString(s[i])
    <2>1. s \in Seq(Fields)
      BY NotifyConfigs DEF Valid, Fields
    <2> QED BY <2>1 DEF Valid, validateTargetConfig
  <1> HIDE DEF s
  <1>3. SubSeq(s, 1, 0) = <<>> /\ SubSeq(s, 1, Len(s)) = s
        /\ \A i \in 1 .. Len(s) : SubSeq(s, 1, i) = Append(SubSeq(s, 1, i - 1), s[i])
    BY <1>2
  <1>4. Rec(W)
    <2>1. \A i \in 0 .. Len(s) :
             W[i] = IF i = 0 THEN <<>> ELSE IF isString(s[i]) THEN Append(W[i - 1], s[i]) ELSE W[i - 1]
      <3>1. 0 \in 0 .. Len(s) /\ W[0] = <<>>
        BY <1>2, <1>3
      <3>2. ASSUME NEW i \in 0 .. Len(s), i # 0
            PROVE  isString(s[i]) /\ W[i] = Append(W[i - 1], s[i])
        <4>1. i \in 1 .. Len(s) /\ i - 1 \in 0 .. Len(s)
          BY <1>2, <3>2
        <4>2. W[i] = SubSeq(s, 1, i) /\ W[i - 1] = SubSeq(s, 1, i - 1)
          BY <4>1
        <4> QED BY <1>2, <1>3, <4>1, <4>2
      <3> HIDE DEF W
      <3> QED BY <3>1, <3>2
    <2> QED BY <2>1
  <1>5. Rec(F)
    BY <1>4
  <1>6. \A i \in 0 .. Len(s) :
           F[i] = IF i = 0 THEN <<>> ELSE IF isString(s[i]) THEN Append(F[i - 1], s[i]) ELSE F[i - 1]
    BY <1>5
  <1> HIDE DEF F
  <1>7. 0 \in P
    <2>1. F[0] = <<>>
      BY <1>2, <1>6
    <2> QED BY <1>3, <2>1
  <1>8. ASSUME NEW n \in P PROVE n + 1 \in P
    <2> SUFFICES ASSUME n + 1 <= Len(s) PROVE F[n + 1] = SubSeq(s, 1, n + 1)
      OBVIOUS
    <2>1. n \in Nat /\ F[n] = SubSeq(s, 1, n) /\ n + 1 \in 1 .. Len(s) /\ (n + 1) - 1 = n /\ n + 1 \in 0 .. Len(s)
          /\ n + 1 # 0
      BY <1>2
    <2>2. F[n + 1] = Append(F[n], s[n + 1])
      BY <1>2, <1>6, <2>1
    <2>3. SubSeq(s, 1, n + 1) = Append(SubSeq(s, 1, n), s[n + 1])
      BY <1>3, <2>1
    <2> QED BY <2>1, <2>2, <2>3
  <1>9. P = Nat
    BY <1>7, <1>8, SetInduction
  <1>10. F[Len(s)] = s
    BY <1>2, <1>3, <1>9
  <1> HIDE DEF P
  <1> QED BY <1>1, <1>10 DEF s

Configured == Valid \cup {Missing}
JobStates == [pc : Types \cup {"none", "load", "posted", "running", "rcpt", "data", "done"},
              target : Configured, next : Nat, rcpt : Seq(Fields),
              err : {"", "not loaded", "unset", "deadline", "unreachable", "exec", "exit", "send", "no SMTP",
                     "session", "refused", "data", "quit"}]

(* How far a goroutine is, and what has been received by then.             *)
JobOK(g, r) ==
    /\ g.pc \in {"none", "load"} => g.target = Missing /\ r = <<>> /\ g.rcpt = <<>> /\ g.err = ""
    /\ g.pc \in Types => g.target \in Valid /\ g.target.type = g.pc /\ r = <<>> /\ g.rcpt = <<>> /\ g.err = ""
    /\ g.pc = "posted" => g.target \in Valid /\ g.target.type = "webhook" /\ r = <<g.target.to[1]>> /\ g.err = ""
    /\ g.pc = "running" => g.target \in Valid /\ g.target.type = "script" /\ r = <<g.target.to[1]>> /\ g.err = ""
    /\ g.pc \in {"rcpt", "data"} => g.target \in Valid /\ g.target.type = "email" /\ r = <<>> /\ g.err = ""
    /\ g.pc = "rcpt" => g.next \in 1 .. Len(g.target.to) /\ g.rcpt = SubSeq(g.target.to, 1, g.next - 1)
    /\ g.pc = "data" => g.rcpt = g.target.to
    /\ g.pc = "done" => g.target \in Valid \/ (g.target = Missing /\ r = <<>> /\ g.err = "not loaded")

(* What the property says of one goroutine.                                *)
Whole(g, r) ==
    /\ g.target.type = "email" => r \in {<<>>, g.target.to}
    /\ g.target.type # "email" => r = <<>> \/ r = <<g.target.to[1]>>
    /\ g.pc = "done" /\ g.err = "" /\ g.target.type # "snmp" => r # <<>>
    /\ g.err # "unset"

(* The lists the events were sent out with have an entry for each          *)
(* goroutine that was started.                                             *)
Listed ==
    /\ rule \in TargetLists /\ ids \in [1 .. MaxEvents -> TargetLists]
    /\ \A j \in Jobs : job[j].pc # "none" => j[2] \in DOMAIN ids[j[1]]

NotifyInv ==
    /\ Listed
    /\ targets \in [Targets -> Configured] /\ events \in Nat
    /\ job \in [Jobs -> JobStates] /\ received \in [Jobs -> Seq(Fields)]
    /\ \A j \in Jobs : JobOK(job[j], received[j]) /\ Whole(job[j], received[j])
    /\ \A j \in Jobs : j[1] > events => job[j] = NoJob /\ received[j] = <<>>

(* A configuration that was let through has the fields its type needs.     *)
LEMMA ValidHas ==
  ASSUME NEW c \in Valid
  PROVE  /\ c.to \in Seq(Fields) /\ c.to # <<>> /\ Len(c.to) \in Nat \ {0} /\ c.to[1] \in Fields
         /\ c.type \in Types /\ (c.type # "email" => ~ unset(c))
         /\ c # Missing
  <1>1. c.to \in Seq(Fields)
    BY NotifyConfigs DEF Valid, Fields
  <1>2. c.to # <<>> /\ c.type \in Types
    BY DEF Valid, validateTargetConfig
  <1>3. Len(c.to) \in Nat \ {0}
    BY <1>1, <1>2
  <1>4. c.to[1] \in Fields
    BY <1>1, <1>3
  <1>5. c.type # "email" => ~ unset(c)
    BY <1>2 DEF Valid, validateTargetConfig, unset
  <1>6. Missing.to = <<>>
    BY DEF Missing
  <1> QED BY <1>1, <1>2, <1>3, <1>4, <1>5, <1>6

(* The lists with at most one address. *)
LEMMA ShortLists == <<>> \in Seq(Fields) /\ \A x \in Fields : <<x>> \in Seq(Fields) /\ <<x>> # <<>>
  <1>1. \A x \in Fields : <<x>> \in Seq(Fields) /\ Len(<<x>>) = 1
    OBVIOUS
  <1>2. <<>> \in Seq(Fields) /\ Len(<<>>) = 0
    OBVIOUS
  <1> QED BY <1>1, <1>2

(* The fields of a goroutine before it starts, and when it has.            *)
LEMMA FreshJobs ==
  /\ NoJob \in JobStates /\ NoJob.pc = "none" /\ NoJob.target = Missing /\ NoJob.rcpt = <<>> /\ NoJob.err = ""
  /\ [NoJob EXCEPT !.pc = "load"] \in JobStates /\ [NoJob EXCEPT !.pc = "load"].pc = "load"
  /\ [NoJob EXCEPT !.pc = "load"].target = Missing /\ [NoJob EXCEPT !.pc = "load"].rcpt = <<>>
  /\ [NoJob EXCEPT !.pc = "load"].err = ""
  <1>1. /\ NoJob \in JobStates /\ NoJob.pc = "none" /\ NoJob.target = Missing /\ NoJob.rcpt = <<>>
        /\ NoJob.err = ""
    BY DEF NoJob, JobStates, Configured
  <1>2. /\ [NoJob EXCEPT !.pc = "load"] \in JobStates /\ [NoJob EXCEPT !.pc = "load"].pc = "load"
        /\ [NoJob EXCEPT !.pc = "load"].target = Missing /\ [NoJob EXCEPT !.pc = "load"].rcpt = <<>>
        /\ [NoJob EXCEPT !.pc = "load"].err = ""
    BY <1>1 DEF JobStates
  <1> QED BY <1>1, <1>2

(* A goroutine that has not loaded its target is whole.                    *)
LEMMA FreshWhole ==
  ASSUME NEW g \in JobStates, g.pc \in {"none", "load"}, g.target = Missing, g.rcpt = <<>>, g.err = ""
  PROVE  JobOK(g, <<>>) /\ Whole(g, <<>>)
  <1>1. Missing.type = ""
    BY DEF Missing
  <1>2. JobOK(g, <<>>)
    BY DEF JobOK, Types
  <1>3. Whole(g, <<>>)
    BY <1>1 DEF Whole
  <1> QED BY <1>2, <1>3

(* Nothing has been sent at the start. *)
LEMMA NotifyStarts == NotifyInit => NotifyInv
  <1> SUFFICES ASSUME NotifyInit PROVE NotifyInv
    OBVIOUS
  <1>1. \A j \in Jobs : job[j] = NoJob /\ received[j] = <<>>
    BY DEF NotifyInit
  <1>2. JobOK(NoJob, <<>>) /\ Whole(NoJob, <<>>)
    BY FreshJobs, FreshWhole
  <1>3. job \in [Jobs -> JobStates] /\ received \in [Jobs -> Seq(Fields)]
    <2>1. <<>> \in Seq(Fields)
      OBVIOUS
    <2> QED BY <2>1, FreshJobs DEF NotifyInit
  <1>4. targets \in [Targets -> Configured] /\ events \in Nat
    BY DEF NotifyInit, Configured
  <1>5. Listed
    <2>1. <<>> \in [1 .. 0 -> Targets] /\ 0 \in 0 .. MaxIds
      BY NotifyBounds
    <2>2. <<>> \in TargetLists
      BY <2>1 DEF TargetLists
    <2> QED BY <1>1, <2>2, FreshJobs DEF Listed, NotifyInit
  <1> QED BY <1>1, <1>2, <1>3, <1>4, <1>5 DEF NotifyInv

(* A step of one goroutine. *)
JobStep(j, g, r) ==
    /\ job' = [job EXCEPT ![j] = g] /\ received' = [received EXCEPT ![j] = r]
    /\ targets' = targets /\ events' = events /\ rule' = rule /\ ids' = ids
    /\ g \in JobStates /\ r \in Seq(Fields) /\ JobOK(g, r) /\ Whole(g, r)
    /\ job[j].pc # "none"

(* The new state of NotifyInv, in terms of the primed variables. *)
LEMMA NotifyNew ==
  ASSUME targets' \in [Targets -> Configured], events' \in Nat,
         job' \in [Jobs -> JobStates], received' \in [Jobs -> Seq(Fields)],
         rule' \in TargetLists, ids' \in [1 .. MaxEvents -> TargetLists],
         \A j \in Jobs : job'[j].pc # "none" => j[2] \in DOMAIN ids'[j[1]],
         \A j \in Jobs : JobOK(job'[j], received'[j]) /\ Whole(job'[j], received'[j]),
         \A j \in Jobs : j[1] > events' => job'[j] = NoJob /\ received'[j] = <<>>
  PROVE  NotifyInv'
  BY DEF NotifyInv, Listed, TargetLists, JobOK, Whole, Jobs, JobStates, Configured, Valid, Fields, NoJob, Missing, Types, Text,
         validateTargetConfig, isString

(* Such a step keeps the invariant of all. *)
LEMMA OneJobSteps ==
  ASSUME NotifyInv, NEW j \in Jobs, NEW g, NEW r, JobStep(j, g, r)
  PROVE  NotifyInv'
  <1>1. /\ targets' \in [Targets -> Configured] /\ events' \in Nat
        /\ job' \in [Jobs -> JobStates] /\ received' \in [Jobs -> Seq(Fields)]
    BY DEF NotifyInv, JobStep
  <1>2. \A i \in Jobs : /\ job'[i] = (IF i = j THEN g ELSE job[i])
                        /\ received'[i] = (IF i = j THEN r ELSE received[i])
    BY DEF NotifyInv, JobStep
  <1>3. \A i \in Jobs : JobOK(job'[i], received'[i]) /\ Whole(job'[i], received'[i])
    BY <1>2 DEF NotifyInv, JobStep
  <1>4. \A i \in Jobs : i[1] > events' => job'[i] = NoJob /\ received'[i] = <<>>
    BY <1>2, FreshJobs DEF NotifyInv, JobStep
  <1>5. rule' \in TargetLists /\ ids' \in [1 .. MaxEvents -> TargetLists]
    BY DEF NotifyInv, Listed, JobStep
  <1>6. \A i \in Jobs : job'[i].pc # "none" => i[2] \in DOMAIN ids'[i[1]]
    BY <1>2 DEF NotifyInv, Listed, JobStep
  <1> QED BY <1>1, <1>3, <1>4, <1>5, <1>6, NotifyNew

(* What the API does to the targets keeps them valid. *)
LEMMA TargetSteps ==
  ASSUME NotifyInv, NEW t \in Targets,
         \/ \E c \in Configs, admin \in BOOLEAN :
               handleCreateAlertTarget(t, c, admin) \/ handleUpdateAlertTarget(t, c, admin)
         \/ handleDeleteAlertTarget(t)
  PROVE  NotifyInv'
  <1>1. UNCHANGED <<rule, events, ids, job, received>> /\ targets \in [Targets -> Configured]
    BY DEF NotifyInv, handleCreateAlertTarget, handleUpdateAlertTarget, handleDeleteAlertTarget
  <1>2. \E c \in Configured : targets' = [targets EXCEPT ![t] = c]
    BY DEF handleCreateAlertTarget, handleUpdateAlertTarget, handleDeleteAlertTarget, Configured, Valid
  <1>3. targets' \in [Targets -> Configured]
    BY <1>1, <1>2
  <1> QED BY <1>1, <1>3, NotifyNew DEF NotifyInv, Listed

(* A rule is given another list. *)
LEMMA RuleStep ==
  ASSUME NotifyInv, NEW list \in TargetLists, handleUpdateAlertRule(list)
  PROVE  NotifyInv'
  <1>1. UNCHANGED <<targets, events, ids, job, received>> /\ rule' = list
    BY DEF handleUpdateAlertRule
  <1> QED BY <1>1, NotifyNew DEF NotifyInv, Listed

(* The alert fires or resolves. *)
LEMMA EventStep ==
  ASSUME NotifyInv, notifyTargets
  PROVE  NotifyInv'
  <1> DEFINE g == [NoJob EXCEPT !.pc = "load"]
  <1>1. /\ events \in Nat /\ events' = events + 1 /\ targets' = targets /\ received' = received
        /\ rule' = rule /\ ids' = [ids EXCEPT ![events + 1] = rule] /\ events + 1 \in 1 .. MaxEvents
        /\ job' = [j \in Jobs |-> IF j[1] = events + 1 /\ j[2] \in DOMAIN rule THEN g ELSE job[j]]
    BY NotifyBounds DEF notifyTargets, NotifyInv
  <1>2. g \in JobStates /\ JobOK(g, <<>>) /\ Whole(g, <<>>)
    BY FreshJobs, FreshWhole
  <1> HIDE DEF g
  <1>3. \A j \in Jobs : j[1] \in Nat /\ (j[1] = events + 1 => received[j] = <<>>)
    BY <1>1 DEF NotifyInv, Jobs
  <1>4. \A j \in Jobs : JobOK(job'[j], received'[j]) /\ Whole(job'[j], received'[j])
    BY <1>1, <1>2, <1>3 DEF NotifyInv
  <1>5. \A j \in Jobs : j[1] > events' => job'[j] = NoJob /\ received'[j] = <<>>
    BY <1>1, <1>3 DEF NotifyInv
  <1>6. job' \in [Jobs -> JobStates] /\ received' \in [Jobs -> Seq(Fields)]
        /\ targets' \in [Targets -> Configured] /\ events' \in Nat
    BY <1>1, <1>2 DEF NotifyInv
  <1>7. rule' \in TargetLists /\ ids' \in [1 .. MaxEvents -> TargetLists]
    BY <1>1 DEF NotifyInv, Listed
  <1>8. ASSUME NEW j \in Jobs, job'[j].pc # "none" PROVE j[2] \in DOMAIN ids'[j[1]]
    <2>1. CASE j[1] = events + 1
      <3>1. j[1] > events
        BY <1>1, <2>1
      <3>2. job[j] = NoJob
        BY <3>1 DEF NotifyInv
      <3>3. NoJob.pc = "none"
        BY DEF NoJob
      <3>4. ids'[events + 1] = rule
        BY <1>1 DEF NotifyInv, Listed
      <3>5. j[2] \in DOMAIN rule
        <4> SUFFICES ASSUME j[2] \notin DOMAIN rule PROVE FALSE
          OBVIOUS
        <4>1. job'[j] = job[j]
          BY <1>1
        <4> QED BY <1>8, <3>2, <3>3, <4>1
      <3> QED BY <2>1, <3>4, <3>5
    <2>2. CASE j[1] # events + 1
      BY <1>1, <1>8, <2>2 DEF NotifyInv, Listed, Jobs
    <2> QED BY <2>1, <2>2
  <1> QED BY <1>4, <1>5, <1>6, <1>7, <1>8, NotifyNew

(* The reasons a goroutine gives up with a target at hand. *)
Reasons == {"deadline", "unreachable", "exec", "exit", "send", "no SMTP", "session", "refused", "data", "quit"}

(* A goroutine ends, well or not, with what its receivers have got by      *)
(* then: nothing, or the whole.                                            *)
LEMMA JobEnds ==
  ASSUME NotifyInv, NEW j \in Jobs, NEW r, NEW why \in Reasons \cup {""},
         job[j].pc \notin {"none", "load", "done"}, stays,
         job' = [job EXCEPT ![j].pc = "done", ![j].err = why] \/ (why = "" /\ step(j, "done")),
         received' = [received EXCEPT ![j] = r],
         r = <<>> \/ r = (IF job[j].target.type = "email" THEN job[j].target.to ELSE <<job[j].target.to[1]>>),
         why = "" => job[j].target.type = "snmp" \/ r # <<>>
  PROVE  NotifyInv'
  <1> DEFINE g == job[j]
             g1 == job'[j]
  <1>1. /\ job \in [Jobs -> JobStates] /\ received \in [Jobs -> Seq(Fields)] /\ g \in JobStates
        /\ JobOK(g, received[j])
    BY DEF NotifyInv
  <1>2. g.target \in Valid /\ g.err = ""
    BY <1>1 DEF JobOK, JobStates
  <1>3. job' = [job EXCEPT ![j] = g1]
    BY <1>1 DEF step
  <1>4. g1 \in JobStates /\ g1.pc = "done" /\ g1.err = why /\ g1.target = g.target
    <2>1. CASE job' = [job EXCEPT ![j].pc = "done", ![j].err = why]
      <3> DEFINE h == [g EXCEPT !.pc = "done", !.err = why]
      <3>1. g1 = h
        BY <1>1, <2>1
      <3>2. h \in JobStates /\ h.pc = "done" /\ h.err = why /\ h.target = g.target
        BY <1>1 DEF JobStates, Reasons
      <3> QED BY <3>1, <3>2
    <2>2. CASE why = "" /\ step(j, "done")
      <3> DEFINE h == [g EXCEPT !.pc = "done"]
      <3>1. g1 = h
        BY <1>1, <2>2 DEF step
      <3>2. h \in JobStates /\ h.pc = "done" /\ h.err = g.err /\ h.target = g.target
        BY <1>1 DEF JobStates
      <3> QED BY <1>2, <2>2, <3>1, <3>2
    <2> QED BY <2>1, <2>2
  <1>5. r \in Seq(Fields)
    <2>1. g.target.to \in Seq(Fields) /\ g.target.to[1] \in Fields
      BY <1>2, ValidHas
    <2> QED BY <2>1, ShortLists
  <1> HIDE DEF g1
  <1>6. JobOK(g1, r)
    BY <1>2, <1>4 DEF JobOK, Types
  <1>7. Whole(g1, r)
    BY <1>4 DEF Whole, Reasons
  <1>8. JobStep(j, g1, r)
    BY <1>3, <1>4, <1>5, <1>6, <1>7 DEF JobStep, stays
  <1> QED BY <1>8, OneJobSteps

(* What a receiver gets is added to what it has, which is nothing. *)
LEMMA Gets ==
  ASSUME NotifyInv, NEW j \in Jobs, NEW who \in Seq(Fields), gets(j, who), received[j] = <<>>
  PROVE  received' = [received EXCEPT ![j] = who]
  <1>1. <<>> \o who = who
    OBVIOUS
  <1> QED BY <1>1 DEF gets

(* The target is loaded, or is gone. *)
LEMMA LoadStep ==
  ASSUME NotifyInv, NEW j \in Jobs, GetAlertTarget(j)
  PROVE  NotifyInv'
  <1> DEFINE g == job[j]
             c == targets[ids[j[1]][j[2]]]
  <1>1. /\ job \in [Jobs -> JobStates] /\ received \in [Jobs -> Seq(Fields)] /\ g \in JobStates
        /\ g.pc = "load" /\ JobOK(g, received[j]) /\ targets \in [Targets -> Configured]
        /\ targets' = targets /\ events' = events /\ received' = received /\ rule' = rule /\ ids' = ids
    BY DEF NotifyInv, GetAlertTarget, stays
  <1>a. ids[j[1]][j[2]] \in Targets
    <2>1. ids[j[1]] \in TargetLists /\ j[2] \in DOMAIN ids[j[1]]
      BY <1>1 DEF NotifyInv, Listed, Jobs
    <2>2. PICK n \in 0 .. MaxIds : ids[j[1]] \in [1 .. n -> Targets]
      BY <2>1 DEF TargetLists
    <2> QED BY <2>1, <2>2
  <1>2. g.target = Missing /\ received[j] = <<>> /\ g.rcpt = <<>> /\ g.err = ""
    BY <1>1 DEF JobOK
  <1>3. received' = [received EXCEPT ![j] = <<>>] /\ <<>> \in Seq(Fields)
    BY <1>1, <1>2
  <1>4. CASE fails(j, "not loaded")
    <2> DEFINE g1 == [g EXCEPT !.pc = "done", !.err = "not loaded"]
    <2>1. job' = [job EXCEPT ![j] = g1]
      BY <1>1, <1>4 DEF fails
    <2>2. g1 \in JobStates /\ g1.pc = "done" /\ g1.err = "not loaded" /\ g1.target = Missing
      BY <1>1, <1>2 DEF JobStates
    <2>3. Missing.type = ""
      BY DEF Missing
    <2> HIDE DEF g1
    <2>4. JobOK(g1, <<>>) /\ Whole(g1, <<>>)
      BY <2>2, <2>3 DEF JobOK, Whole, Types
    <2>5. JobStep(j, g1, <<>>)
      BY <1>1, <1>3, <2>1, <2>2, <2>4 DEF JobStep
    <2> QED BY <2>5, OneJobSteps
  <1>5. CASE c # Missing /\ job' = [job EXCEPT ![j].pc = c.type, ![j].target = c]
    <2> DEFINE g1 == [g EXCEPT !.pc = c.type, !.target = c]
    <2>1. c \in Valid /\ c \in Configured
      BY <1>1, <1>a, <1>5 DEF Configured
    <2>2. c.type \in Types
      BY <2>1, ValidHas
    <2>3. job' = [job EXCEPT ![j] = g1]
      BY <1>1, <1>5
    <2>4. g1 \in JobStates /\ g1.pc = c.type /\ g1.err = "" /\ g1.target = c /\ g1.rcpt = <<>>
      BY <1>1, <1>2, <2>1, <2>2 DEF JobStates
    <2> HIDE DEF g1, c
    <2>5. JobOK(g1, <<>>) /\ Whole(g1, <<>>)
      BY <2>1, <2>2, <2>4 DEF JobOK, Whole, Types
    <2>6. JobStep(j, g1, <<>>)
      BY <1>1, <1>3, <2>3, <2>4, <2>5 DEF JobStep
    <2> QED BY <2>6, OneJobSteps
  <1> QED BY <1>4, <1>5 DEF GetAlertTarget

(* A request is posted or a script started: the receiver has got it. *)
LEMMA SentStep ==
  ASSUME NotifyInv, NEW j \in Jobs, NEW p \in {"posted", "running"},
         job[j].pc = (IF p = "posted" THEN "webhook" ELSE "script"),
         step(j, p), gets(j, <<job[j].target.to[1]>>), stays
  PROVE  NotifyInv'
  <1> DEFINE g == job[j]
             g1 == [g EXCEPT !.pc = p]
             r == <<g.target.to[1]>>
  <1>1. /\ job \in [Jobs -> JobStates] /\ received \in [Jobs -> Seq(Fields)] /\ g \in JobStates
        /\ JobOK(g, received[j])
    BY DEF NotifyInv
  <1>2. g.target \in Valid /\ g.target.type = g.pc /\ received[j] = <<>> /\ g.err = ""
    BY <1>1 DEF JobOK, Types
  <1>3. r \in Seq(Fields) /\ r # <<>>
    BY <1>2, ShortLists, ValidHas
  <1>4. received' = [received EXCEPT ![j] = r]
    BY <1>2, <1>3, Gets
  <1>5. job' = [job EXCEPT ![j] = g1]
    BY <1>1 DEF step
  <1>6. g1 \in JobStates /\ g1.pc = p /\ g1.err = "" /\ g1.target = g.target
    BY <1>1, <1>2 DEF JobStates
  <1> HIDE DEF g1
  <1>7. JobOK(g1, r) /\ Whole(g1, r)
    BY <1>2, <1>6 DEF JobOK, Whole, Types
  <1>8. JobStep(j, g1, r)
    BY <1>3, <1>4, <1>5, <1>6, <1>7 DEF JobStep, stays
  <1> QED BY <1>8, OneJobSteps

(* The senders of single messages, and what ends them. *)
LEMMA SingleSteps ==
  ASSUME NotifyInv, NEW j \in Jobs,
         \/ Deadline(j) \/ notifyWebhook(j) \/ Response(j) \/ notifyScript(j) \/ ScriptEnds(j) \/ notifySNMP(j)
  PROVE  NotifyInv'
  <1> DEFINE g == job[j]
             r == received[j]
             one == <<g.target.to[1]>>
  <1>1. /\ job \in [Jobs -> JobStates] /\ received \in [Jobs -> Seq(Fields)] /\ g \in JobStates
        /\ JobOK(g, r) /\ stays
    BY DEF NotifyInv, Deadline, notifyWebhook, Response, notifyScript, ScriptEnds, notifySNMP
  <1>2. g.pc \in {"webhook", "posted", "script", "running", "snmp"}
    BY DEF Deadline, notifyWebhook, Response, notifyScript, ScriptEnds, notifySNMP
  <1>3. /\ g.target \in Valid /\ g.target.type # "email" /\ g.err = ""
        /\ (g.pc \in {"posted", "running"} => r = one /\ g.target.type # "snmp")
        /\ (g.pc \in {"webhook", "script", "snmp"} => r = <<>> /\ g.target.type = g.pc)
    BY <1>1, <1>2 DEF JobOK, Types
  <1>4. ~ unset(g.target) /\ one \in Seq(Fields) /\ one # <<>>
    BY <1>3, ShortLists, ValidHas
  <1>5. received' = received => received' = [received EXCEPT ![j] = r]
    BY <1>1
  <1>6. gets(j, one) /\ r = <<>> => received' = [received EXCEPT ![j] = one]
    BY <1>4, Gets
  <1>7. r = <<>> \/ r = one
    BY <1>2, <1>3
  <1> HIDE DEF one, r
  <1>8. ASSUME NEW why \in Reasons, fails(j, why), received' = received
        PROVE  NotifyInv'
    <2>1. job' = [job EXCEPT ![j].pc = "done", ![j].err = why] /\ why # ""
      BY <1>8 DEF fails, Reasons
    <2> QED BY <1>1, <1>2, <1>3, <1>5, <1>7, <1>8, <2>1, JobEnds DEF one
  <1>9. ASSUME done(j), received' = received, g.target.type = "snmp" \/ r # <<>>
        PROVE  NotifyInv'
    <2>1. step(j, "done")
      BY <1>9 DEF done
    <2> QED BY <1>1, <1>2, <1>3, <1>5, <1>7, <1>9, <2>1, JobEnds DEF one
  <1>10. CASE Deadline(j)
    BY <1>8, <1>10 DEF Deadline, Reasons
  <1>11. CASE notifyWebhook(j)
    <2>1. (fails(j, "unreachable") /\ received' = received) \/ (step(j, "posted") /\ gets(j, one))
      BY <1>4, <1>11 DEF notifyWebhook, one
    <2> QED BY <1>1, <1>8, <1>11, <2>1, SentStep DEF notifyWebhook, Reasons, one
  <1>12. CASE Response(j)
    BY <1>3, <1>4, <1>9, <1>12 DEF Response
  <1>13. CASE notifyScript(j)
    <2>1. (fails(j, "exec") /\ received' = received) \/ (step(j, "running") /\ gets(j, one))
      BY <1>4, <1>13 DEF notifyScript, one
    <2> QED BY <1>1, <1>8, <1>13, <2>1, SentStep DEF notifyScript, Reasons, one
  <1>14. CASE ScriptEnds(j)
    BY <1>3, <1>4, <1>8, <1>9, <1>14 DEF ScriptEnds, Reasons
  <1>15. CASE notifySNMP(j)
    <2>1. /\ g.pc = "snmp"
          /\ \/ fails(j, "send") /\ received' = received
             \/ done(j) /\ received' = received
             \/ done(j) /\ gets(j, one)
      BY <1>4, <1>15 DEF notifySNMP, one
    <2>2. CASE done(j) /\ gets(j, one)
      <3>1. received' = [received EXCEPT ![j] = one] /\ step(j, "done") /\ g.target.type = "snmp"
        BY <1>3, <1>6, <2>1, <2>2 DEF done
      <3> QED BY <1>1, <1>2, <1>3, <3>1, JobEnds DEF one
    <2> QED BY <1>3, <1>8, <1>9, <2>1, <2>2 DEF Reasons
  <1> QED BY <1>10, <1>11, <1>12, <1>13, <1>14, <1>15

(* A prefix grows by the next entry. *)
LEMMA NextEntry ==
  ASSUME NEW s \in Seq(Fields), NEW n \in 1 .. Len(s)
  PROVE  SubSeq(s, 1, n - 1) \o <<s[n]>> = SubSeq(s, 1, n) /\ SubSeq(s, 1, n) \in Seq(Fields)
  OBVIOUS

(* A mail: the session, its recipients one by one, and its text. *)
LEMMA MailSteps ==
  ASSUME NotifyInv, NEW j \in Jobs,
         Rcpt(j) \/ Data(j) \/ \E configured \in BOOLEAN : notifyEmail(j, configured)
  PROVE  NotifyInv'
  <1> DEFINE g == job[j]
             all == g.target.to
  <1>1. /\ job \in [Jobs -> JobStates] /\ received \in [Jobs -> Seq(Fields)] /\ g \in JobStates
        /\ JobOK(g, received[j]) /\ stays
    BY DEF NotifyInv, Rcpt, Data, notifyEmail
  <1>2. g.pc \in {"email", "rcpt", "data"}
    BY DEF Rcpt, Data, notifyEmail
  <1>3. g.target \in Valid /\ g.target.type = "email" /\ received[j] = <<>> /\ g.err = ""
    BY <1>1, <1>2 DEF JobOK, Types
  <1>4. all \in Seq(Fields) /\ all # <<>> /\ Len(all) \in Nat \ {0} /\ recipients(g.target) = all
    BY <1>3, ValidHas, AllRecipients
  <1>5. received' = received => received' = [received EXCEPT ![j] = <<>>]
    BY <1>1, <1>3
  <1> HIDE DEF all
  <1>6. ASSUME NEW why \in Reasons, fails(j, why), received' = received
        PROVE  NotifyInv'
    <2>1. job' = [job EXCEPT ![j].pc = "done", ![j].err = why] /\ why # ""
      BY <1>6 DEF fails, Reasons
    <2> QED BY <1>1, <1>2, <1>5, <1>6, <2>1, JobEnds
  <1>7. CASE \E configured \in BOOLEAN : notifyEmail(j, configured)
    <2> DEFINE g1 == [g EXCEPT !.pc = "rcpt", !.next = 1]
    <2>1. /\ received' = received /\ g.pc = "email"
          /\ \/ \E why \in Reasons : fails(j, why)
             \/ job' = [job EXCEPT ![j].pc = "rcpt", ![j].next = 1]
      BY <1>4, <1>7 DEF notifyEmail, Reasons
    <2>2. CASE job' = [job EXCEPT ![j].pc = "rcpt", ![j].next = 1]
      <3>1. job' = [job EXCEPT ![j] = g1]
        BY <1>1, <2>2
      <3>2. g1 \in JobStates /\ g1.pc = "rcpt" /\ g1.next = 1 /\ g1.rcpt = g.rcpt /\ g1.target = g.target
            /\ g1.err = g.err
        BY <1>1 DEF JobStates
      <3>3. g.rcpt = <<>>
        BY <1>1, <2>1 DEF JobOK, Types
      <3>4. SubSeq(all, 1, 1 - 1) = <<>> /\ 1 \in 1 .. Len(all)
        BY <1>4
      <3> HIDE DEF g1
      <3>5. JobOK(g1, <<>>)
        BY <1>3, <3>2, <3>3, <3>4 DEF JobOK, Types, all
      <3>6. Whole(g1, <<>>)
        BY <1>3, <3>2 DEF Whole
      <3>7. JobStep(j, g1, <<>>)
        BY <1>1, <1>2, <1>5, <2>1, <3>1, <3>2, <3>5, <3>6, ShortLists DEF JobStep, stays
      <3> QED BY <3>7, OneJobSteps
    <2> QED BY <1>6, <2>1, <2>2
  <1>8. CASE Rcpt(j)
    <2> DEFINE n == g.next
               s == g.rcpt \o <<all[n]>>
               p == IF n < Len(all) THEN "rcpt" ELSE "data"
               g1 == [g EXCEPT !.next = n + 1, !.rcpt = s, !.pc = p]
    <2>1. /\ received' = received /\ g.pc = "rcpt"
          /\ fails(j, "refused") \/ takes(j, <<all[n]>>)
      BY <1>4, <1>8 DEF Rcpt
    <2>2. CASE takes(j, <<all[n]>>)
      <3>1. n \in 1 .. Len(all) /\ g.rcpt = SubSeq(all, 1, n - 1)
        BY <1>1, <2>1 DEF JobOK, all
      <3>2. s = SubSeq(all, 1, n) /\ s \in Seq(Fields)
        <4>1. SubSeq(all, 1, n - 1) \o <<all[n]>> = SubSeq(all, 1, n) /\ SubSeq(all, 1, n) \in Seq(Fields)
          BY <1>4, <3>1, NextEntry
        <4> QED BY <3>1, <4>1
      <3>3. job' = [job EXCEPT ![j] = g1]
        BY <1>1, <1>4, <2>2 DEF takes
      <3>4. n \in Nat /\ n + 1 \in Nat /\ (n + 1) - 1 = n /\ p \in {"rcpt", "data"}
        <4>1. n \in Nat
          BY <1>1 DEF JobStates
        <4>2. \A i \in Nat : i + 1 \in Nat /\ (i + 1) - 1 = i
          OBVIOUS
        <4> QED BY <4>1, <4>2
      <3> HIDE DEF s, p, n
      <3>5. g1 \in JobStates /\ g1.pc = p /\ g1.next = n + 1 /\ g1.rcpt = s /\ g1.target = g.target
            /\ g1.err = g.err
        BY <1>1, <3>2, <3>4 DEF JobStates
      <3> HIDE DEF g1
      <3>6. p = "rcpt" => n + 1 \in 1 .. Len(all)
        BY <1>4, <3>1, <3>4 DEF p
      <3>7. p = "data" => s = all
        <4> SUFFICES ASSUME p = "data" PROVE s = all
          OBVIOUS
        <4>1. n = Len(all)
          BY <1>4, <3>1, <3>4 DEF p
        <4>2. SubSeq(all, 1, Len(all)) = all
          BY <1>4
        <4> QED BY <3>2, <4>1, <4>2
      <3>8. JobOK(g1, <<>>)
        BY <1>3, <3>2, <3>4, <3>5, <3>6, <3>7 DEF JobOK, Types, all
      <3>9. Whole(g1, <<>>)
        BY <1>3, <3>4, <3>5 DEF Whole
      <3>10. JobStep(j, g1, <<>>)
        BY <1>1, <1>2, <1>5, <2>1, <3>3, <3>5, <3>8, <3>9, ShortLists DEF JobStep, stays
      <3> QED BY <3>10, OneJobSteps
    <2> QED BY <1>6, <2>1, <2>2 DEF Reasons
  <1>9. CASE Data(j)
    <2>1. /\ g.rcpt = all /\ g.pc = "data"
          /\ \/ fails(j, "data") /\ received' = received
             \/ gets(j, all) /\ (done(j) \/ fails(j, "quit"))
      BY <1>1, <1>9 DEF Data, JobOK, all
    <2>2. CASE gets(j, all) /\ (done(j) \/ fails(j, "quit"))
      <3>1. received' = [received EXCEPT ![j] = all]
        BY <1>3, <1>4, <2>2, Gets
      <3>2. CASE done(j)
        BY <1>1, <1>2, <1>3, <1>4, <3>1, <3>2, JobEnds DEF done, all
      <3>3. CASE fails(j, "quit")
        <4>1. job' = [job EXCEPT ![j].pc = "done", ![j].err = "quit"] /\ "quit" \in Reasons
          BY <3>3 DEF fails, Reasons
        <4> QED BY <1>1, <1>2, <1>3, <3>1, <4>1, JobEnds DEF all
      <3> QED BY <2>2, <3>2, <3>3
    <2> QED BY <1>6, <2>1, <2>2 DEF Reasons
  <1> QED BY <1>7, <1>8, <1>9

(* Every step of the notifications keeps their invariant. *)
LEMMA NotifySteps ==
  ASSUME NotifyInv, NotifyNext
  PROVE  NotifyInv'
  <1>1. CASE \/ \E t \in Targets, c \in Configs, admin \in BOOLEAN :
                   handleCreateAlertTarget(t, c, admin) \/ handleUpdateAlertTarget(t, c, admin)
             \/ \E t \in Targets : handleDeleteAlertTarget(t)
    BY <1>1, TargetSteps
  <1>2. CASE notifyTargets \/ \E list \in TargetLists : handleUpdateAlertRule(list)
    BY <1>2, EventStep, RuleStep
  <1>3. ASSUME NEW j \in Jobs,
               \/ GetAlertTarget(j) \/ Deadline(j) \/ notifyWebhook(j) \/ Response(j) \/ notifyScript(j)
               \/ ScriptEnds(j) \/ notifySNMP(j) \/ Rcpt(j) \/ Data(j)
               \/ \E configured \in BOOLEAN : notifyEmail(j, configured)
        PROVE  NotifyInv'
    BY <1>3, LoadStep, SingleSteps, MailSteps
  <1> QED BY <1>1, <1>2, <1>3 DEF NotifyNext

(* A step of another part leaves the notifications alone. *)
LEMMA NotifyFrame ==
  ASSUME NotifyInv, UNCHANGED notifyVars
  PROVE  NotifyInv'
  BY NotifyNew DEF NotifyInv, Listed, notifyVars

-----------------------------------------------------------------------------
(* The traceroute *)

HopStates == {"", "echoed", "filtered", "unreachable", "open", "closed"}
HopRecords == [host : Nat, got : Nat, arrived : BOOLEAN, state : HopStates]

(* The node a probe of this TTL gets to, b being the barrier. *)
Distance(t, b) == IF t < b THEN t ELSE b

(* A hop of TTL t on a route of n nodes with its barrier at b.             *)
HopOK(h, t, b, n, proto) ==
    /\ h.host = NoNode => h.got = 0
    /\ h.host # NoNode => h.host \in 1 .. b /\ h.host <= t /\ (proto # "udp" => h.host = Distance(t, b))
    /\ h.arrived => t >= b /\ h.host # NoNode
    /\ ~ h.arrived => h.host < n
    /\ h.arrived /\ h.state \in {"open", "closed"} => proto = "tcp" /\ b = n
    /\ h.arrived /\ proto # "udp" /\ h.state = "echoed" => b = n

(* A reply under way answers a probe of this TTL or, at the port of the    *)
(* flow, of an earlier one.                                                *)
ReplyOK(r) ==
    \E t \in 1 .. ttl :
       /\ r.from = Distance(t, barrier) /\ r.what \in answer(t)
       /\ r.port \in {"own", "flow"}
       /\ r.port = "own" => t = ttl /\ tpc = "wait"
       /\ r.port = "flow" => protocol = "udp"

TraceTyped ==
    /\ route \in Routes /\ protocol \in {"udp", "tcp", "icmp"}
    /\ tpc \in {"ready", "probe", "wait", "done", "error"}
    /\ ttl \in 1 .. MaxHops
    /\ gathered \in HopRecords /\ hops \in Seq(HopRecords)

HopsOK ==
    /\ HopOK(gathered, ttl, barrier, Len(route), protocol)
    /\ \A i \in 1 .. Len(hops) : HopOK(hops[i], i, barrier, Len(route), protocol)
    /\ Len(hops) = (IF tpc = "done" THEN ttl ELSE ttl - 1)
    /\ verdict.status # "reached" => \A i \in 1 .. Len(hops) : ~ hops[i].arrived

(* The verdict says what the last hop, or the lack of one, makes of it.    *)
VerdictOK ==
    /\ tpc # "done" => verdict = NoVerdict
    /\ verdict.status = "reached" =>
          /\ gathered.arrived /\ verdict.state = gathered.state /\ verdict.target = gathered.host /\ tpc = "done"
    /\ verdict.status = "stalled" =>
          /\ ttl = MaxHops /\ tpc = "done"
          /\ verdict.failureHop = failureHop(hops)

TraceInv == TraceTyped /\ HopsOK /\ (\A r \in inflight : ReplyOK(r)) /\ VerdictOK

(* The barrier is there, since the target is one.                          *)
LEMMA BarrierThere ==
  ASSUME route \in Routes
  PROVE  /\ barrier \in 1 .. Len(route) /\ Len(route) \in Nat \ {0}
         /\ route[barrier] \in {"firewall", "dead", "hole"} \cup TargetKinds
         /\ \A j \in 1 .. barrier - 1 : route[j] \in {"router", "silent"}
         /\ route[barrier] \in TargetKinds => barrier = Len(route)
         /\ barrier = Len(route) => route[barrier] \in TargetKinds
  <1> DEFINE n == Len(route)
             Kinds == {"firewall", "dead", "hole"} \cup TargetKinds
             Blocks == {k \in 1 .. n : route[k] \in Kinds}
             Is(k) == route[k] \in Kinds /\ \A j \in 1 .. k - 1 : route[j] \in {"router", "silent"}
  <1>1. /\ route \in Seq(RouterKinds \cup TargetKinds) /\ route # <<>>
        /\ \A i \in DOMAIN route : (route[i] \in TargetKinds) = (i = Len(route))
    BY TraceRoutes
  <1>2. n \in Nat \ {0} /\ DOMAIN route = 1 .. n /\ n \in 1 .. n
    BY <1>1
  <1>3. n \in Blocks /\ Blocks \in SUBSET Nat
    BY <1>1, <1>2
  <1>4. PICK k \in Blocks : \A i \in Blocks : k <= i
    BY <1>3, LeastNumber
  <1>5. k \in DOMAIN route /\ Is(k)
    <2>1. ASSUME NEW j \in 1 .. k - 1 PROVE route[j] \in {"router", "silent"}
      <3>1. j \in 1 .. n /\ j \notin Blocks
        BY <1>2, <1>4
      <3>2. route[j] \in RouterKinds \cup TargetKinds
        BY <1>1, <1>2, <3>1
      <3> QED BY <3>1, <3>2 DEF RouterKinds
    <2> QED BY <1>2, <1>4, <2>1
  <1>6. barrier \in DOMAIN route /\ Is(barrier)
    BY <1>5 DEF barrier
  <1> QED BY <1>1, <1>2, <1>6

(* What an answer tells: that the probe has passed nodes before the target *)
(* only, or how it ended at the barrier.                                   *)
LEMMA AnswerTells ==
  ASSUME route \in Routes, protocol \in {"udp", "tcp", "icmp"}, NEW t \in Nat \ {0}, NEW w \in answer(t)
  PROVE  /\ destState(w) \in HopStates
         /\ destState(w) = "" => Distance(t, barrier) < Len(route)
         /\ destState(w) # "" => t >= barrier
         /\ destState(w) \in {"open", "closed"} => protocol = "tcp" /\ barrier = Len(route)
         /\ destState(w) = "echoed" /\ protocol # "udp" => barrier = Len(route)
  <1> DEFINE b == barrier
             n == Len(route)
             k == route[barrier]
  <1>1. /\ b \in 1 .. n /\ n \in Nat \ {0} /\ k \in {"firewall", "dead", "hole"} \cup {"open", "closed", "mute"}
        /\ (k \in {"open", "closed", "mute"} <=> b = n)
    BY BarrierThere DEF TargetKinds
  <1>2. CASE t < b \/ (t = b /\ b < n)
    <2>1. w = "timeExceed"
      BY <1>2 DEF answer
    <2>2. destState(w) = ""
      BY <2>1 DEF destState, classifyICMP
    <2>3. Distance(t, b) < n
      BY <1>1, <1>2 DEF Distance
    <2> QED BY <2>2, <2>3 DEF HopStates
  <1>3. CASE ~ (t < b \/ (t = b /\ b < n))
    <2>1. t >= b
      BY <1>1, <1>3
    <2>2. /\ k = "firewall" => w = "adminProhib"
          /\ k = "dead" => w = "hostUnreach"
          /\ k \notin {"hole", "mute"}
          /\ k \in {"open", "closed"} /\ protocol = "icmp" => w = "echoReply"
          /\ k \in {"open", "closed"} /\ protocol = "tcp" => w \in {"synAck", "rst"}
          /\ k \in {"open", "closed"} /\ protocol = "udp" => w = "portUnreach"
      BY <1>1, <1>3 DEF answer
    <2>3. /\ w = "adminProhib" => destState(w) = "filtered"
          /\ w = "hostUnreach" => destState(w) = "unreachable"
          /\ w = "echoReply" => destState(w) = "echoed"
          /\ w = "portUnreach" => destState(w) = "echoed"
          /\ w = "synAck" => destState(w) = "open"
          /\ w = "rst" => destState(w) = "closed"
      BY DEF destState, classifyICMP, handshake
    <2> QED BY <1>1, <2>1, <2>2, <2>3 DEF HopStates
  <1> QED BY <1>2, <1>3

(* The network is what it is during the run. *)
LEMMA SameNetwork ==
  ASSUME UNCHANGED netVars
  PROVE  /\ route' = route /\ protocol' = protocol /\ barrier' = barrier
         /\ \A t : answer(t)' = answer(t)
  <1>1. route' = route /\ protocol' = protocol
    BY DEF netVars
  <1>2. barrier' = barrier
    BY <1>1 DEF barrier
  <1>3. \A t : answer(t)' = answer(t)
    BY <1>1, <1>2 DEF answer
  <1> QED BY <1>1, <1>2, <1>3

(* The record of a TTL nobody has answered yet. *)
LEMMA EmptyHop ==
  /\ NoHop \in HopRecords
  /\ \A n \in Nat \ {0} : \A t, b, proto : HopOK(NoHop, t, b, n, proto)
  <1>1. NoHop \in HopRecords /\ NoHop.host = 0 /\ NoHop.got = 0 /\ ~ NoHop.arrived
    BY DEF NoHop, HopRecords, HopStates, NoNode
  <1>2. \A n \in Nat \ {0} : 0 < n
    OBVIOUS
  <1> QED BY <1>1, <1>2 DEF HopOK, NoNode

(* A run begins with an empty record. *)
LEMMA TraceStarts == TraceInit => TraceInv
  <1> SUFFICES ASSUME TraceInit PROVE TraceInv
    OBVIOUS
  <1>1. route \in Routes /\ Len(route) \in Nat \ {0}
    BY BarrierThere DEF TraceInit
  <1>2. ttl = 1 /\ 1 \in 1 .. MaxHops /\ hops = <<>> /\ <<>> \in Seq(HopRecords) /\ Len(<<>>) = 0
    <2>1. ttl = 1 /\ hops = <<>>
      BY DEF TraceInit
    <2>2. 1 \in 1 .. MaxHops
      BY TraceBounds
    <2>3. <<>> \in Seq(HopRecords) /\ Len(<<>>) = 0
      OBVIOUS
    <2> QED BY <2>1, <2>2, <2>3
  <1>3. TraceTyped
    BY <1>2, EmptyHop DEF TraceInit, TraceTyped
  <1>4. HopOK(NoHop, 1, barrier, Len(route), protocol)
    BY <1>1, EmptyHop
  <1>5. HopsOK
    <2>1. 1 .. Len(hops) = {} /\ Len(hops) = ttl - 1
      BY <1>2
    <2>2. gathered = NoHop /\ tpc = "ready"
      BY DEF TraceInit
    <2> QED BY <1>2, <1>4, <2>1, <2>2 DEF HopsOK
  <1>6. VerdictOK
    BY DEF TraceInit, VerdictOK, NoVerdict
  <1> QED BY <1>3, <1>5, <1>6 DEF TraceInv, TraceInit

(* A step that leaves hops and verdict alone, and does not end the run.    *)
LEMMA TraceFrame ==
  ASSUME TraceInv, UNCHANGED netVars, UNCHANGED <<ttl, hops, verdict>>,
         tpc # "done", tpc' \in {"ready", "probe", "wait", "error"},
         gathered' \in HopRecords, HopOK(gathered', ttl, barrier, Len(route), protocol),
         \A r \in inflight' : ReplyOK(r)'
  PROVE  TraceInv'
  <1>1. route' = route /\ protocol' = protocol /\ barrier' = barrier
    BY SameNetwork
  <1>2. TraceTyped'
    BY <1>1 DEF TraceInv, TraceTyped
  <1>3. HopOK(gathered', ttl', barrier', Len(route'), protocol')
        /\ \A i \in 1 .. Len(hops') : HopOK(hops'[i], i, barrier', Len(route'), protocol')
    BY <1>1 DEF TraceInv, HopsOK
  <1>4. HopsOK'
    BY <1>1, <1>3 DEF TraceInv, HopsOK, HopOK, Distance, NoNode
  <1>5. VerdictOK'
    BY DEF TraceInv, VerdictOK, NoVerdict
  <1> QED BY <1>2, <1>4, <1>5 DEF TraceInv

(* Replies stay what they are while the TTL does not change, and those at  *)
(* the port of the flow even while it grows.                               *)
LEMMA RepliesStay ==
  ASSUME TraceInv, UNCHANGED netVars, ttl' \in Nat, ttl <= ttl', NEW r \in inflight,
         r.port = "flow" \/ (ttl' = ttl /\ tpc' = tpc)
  PROVE  ReplyOK(r)'
  <1>1. protocol' = protocol /\ barrier' = barrier /\ \A t : answer(t)' = answer(t)
    BY SameNetwork
  <1>2. PICK t \in 1 .. ttl : /\ r.from = Distance(t, barrier) /\ r.what \in answer(t)
                              /\ r.port \in {"own", "flow"}
                              /\ r.port = "own" => t = ttl /\ tpc = "wait"
                              /\ r.port = "flow" => protocol = "udp"
    BY DEF TraceInv, ReplyOK
  <1>3. t \in 1 .. ttl'
    BY DEF TraceInv, TraceTyped
  <1>4. r.from = Distance(t, barrier') /\ r.what \in answer(t)'
    BY <1>1, <1>2
  <1> QED BY <1>1, <1>2, <1>3, <1>4 DEF ReplyOK, Distance

(* Outside of a wait only replies at the port of the flow are under way.   *)
LEMMA FlowOnly ==
  ASSUME TraceInv, tpc # "wait", NEW r \in inflight
  PROVE  r.port = "flow"
  BY DEF TraceInv, ReplyOK

(* The run begins, or its context ends. *)
LEMMA BeginStep ==
  ASSUME TraceInv, TraceCancel \/ \E resolved \in BOOLEAN : Traceroute(resolved)
  PROVE  TraceInv'
  <1>1. /\ UNCHANGED netVars /\ UNCHANGED <<ttl, hops, verdict>> /\ gathered' = gathered /\ inflight' = inflight
        /\ tpc # "done" /\ tpc' \in {"ready", "probe", "wait", "error"}
        /\ tpc' = tpc \/ tpc # "wait"
    BY DEF TraceInv, TraceTyped, TraceCancel, Traceroute
  <1>2. gathered' \in HopRecords /\ HopOK(gathered', ttl, barrier, Len(route), protocol)
    BY <1>1 DEF TraceInv, TraceTyped, HopsOK
  <1>3. ttl' \in Nat /\ ttl <= ttl' /\ ttl' = ttl
    BY <1>1 DEF TraceInv, TraceTyped
  <1>4. ASSUME NEW r \in inflight' PROVE ReplyOK(r)'
    BY <1>1, <1>3, RepliesStay, FlowOnly
  <1> QED BY <1>1, <1>2, <1>4, TraceFrame

(* A probe is sent. *)
LEMMA ProbeStep ==
  ASSUME TraceInv, probeTTL
  PROVE  TraceInv'
  <1>1. /\ UNCHANGED netVars /\ UNCHANGED <<ttl, hops, verdict>> /\ gathered' = gathered
        /\ tpc = "probe" /\ tpc' = "wait"
    BY DEF probeTTL
  <1>2. PICK p \in setupSocket : inflight' = inflight \cup replies(ttl, p)
    BY DEF probeTTL
  <1>3. p \in {"own", "flow"} /\ (p = "flow" => protocol = "udp")
    BY DEF setupSocket, bindsPort
  <1>4. gathered' \in HopRecords /\ HopOK(gathered', ttl, barrier, Len(route), protocol)
    BY <1>1 DEF TraceInv, TraceTyped, HopsOK
  <1>5. ttl' \in Nat /\ ttl <= ttl' /\ ttl' = ttl /\ ttl \in 1 .. ttl
    BY <1>1 DEF TraceInv, TraceTyped
  <1>6. ASSUME NEW r \in inflight' PROVE ReplyOK(r)'
    <2>1. CASE r \in inflight
      BY <1>1, <1>5, <2>1, RepliesStay, FlowOnly
    <2>2. CASE r \in replies(ttl, p)
      <3>1. PICK w \in answer(ttl) : r = [from |-> IF ttl < barrier THEN ttl ELSE barrier, what |-> w, port |-> p]
        BY <2>2 DEF replies
      <3>2. r.from = Distance(ttl, barrier) /\ r.what \in answer(ttl) /\ r.port = p
        BY <3>1 DEF Distance
      <3>3. protocol' = protocol /\ barrier' = barrier /\ \A t : answer(t)' = answer(t)
        BY <1>1, SameNetwork
      <3>4. r.from = Distance(ttl, barrier') /\ r.what \in answer(ttl)' /\ ttl \in 1 .. ttl'
        BY <1>5, <3>2, <3>3
      <3> QED BY <1>1, <1>3, <1>5, <3>2, <3>3, <3>4 DEF ReplyOK, Distance
    <2> QED BY <1>2, <2>1, <2>2
  <1>7. tpc # "done" /\ tpc' \in {"ready", "probe", "wait", "error"}
    BY <1>1
  <1> QED BY <1>1, <1>4, <1>6, <1>7, TraceFrame

(* A probe is given up. *)
LEMMA NoReplyStep ==
  ASSUME TraceInv, NoReply
  PROVE  TraceInv'
  <1>1. /\ UNCHANGED netVars /\ UNCHANGED <<ttl, hops, verdict>> /\ gathered' = gathered
        /\ tpc = "wait" /\ tpc' = "probe"
        /\ \A r \in inflight' : r \in inflight /\ r.port = "flow"
    BY DEF NoReply, closed
  <1>2. gathered' \in HopRecords /\ HopOK(gathered', ttl, barrier, Len(route), protocol)
    BY <1>1 DEF TraceInv, TraceTyped, HopsOK
  <1>3. ttl' \in Nat /\ ttl <= ttl'
    BY <1>1 DEF TraceInv, TraceTyped
  <1>4. ASSUME NEW r \in inflight' PROVE ReplyOK(r)'
    BY <1>1, <1>3, RepliesStay
  <1>5. tpc # "done" /\ tpc' \in {"ready", "probe", "wait", "error"}
    BY <1>1
  <1> QED BY <1>1, <1>2, <1>4, <1>5, TraceFrame

(* Where a probe gets to. *)
LEMMA Distances ==
  ASSUME NEW b \in Nat \ {0}, NEW m \in Nat, NEW t \in 1 .. m
  PROVE  Distance(t, b) \in 1 .. b /\ Distance(t, b) <= m
  BY DEF Distance

(* A reply is taken for the answer: what it adds to the hop holds of the   *)
(* TTL under way, though it may answer an earlier probe.                   *)
LEMMA ReplyStep ==
  ASSUME TraceInv, NEW r \in inflight, Reply(r)
  PROVE  TraceInv'
  <1> DEFINE h == gathered
             h1 == gathered'
             b == barrier
             n == Len(route)
             ds == destState(r.what)
  <1>1. /\ UNCHANGED netVars /\ UNCHANGED <<ttl, hops, verdict>>
        /\ tpc = "wait" /\ tpc' = "probe"
        /\ \A q \in inflight' : q \in inflight /\ q.port = "flow"
    BY DEF Reply, closed
  <1>2. /\ h \in HopRecords /\ HopOK(h, ttl, b, n, protocol) /\ route \in Routes /\ ttl \in Nat
        /\ protocol \in {"udp", "tcp", "icmp"} /\ ttl \in 1 .. MaxHops
    BY DEF TraceInv, TraceTyped, HopsOK
  <1>3. PICK t \in 1 .. ttl : /\ r.from = Distance(t, b) /\ r.what \in answer(t)
                              /\ r.port \in {"own", "flow"}
                              /\ r.port = "own" => t = ttl
                              /\ r.port = "flow" => protocol = "udp"
    BY DEF TraceInv, ReplyOK
  <1>4. /\ ds \in HopStates
        /\ ds = "" => Distance(t, b) < n
        /\ ds # "" => t >= b
        /\ ds \in {"open", "closed"} => protocol = "tcp" /\ b = n
        /\ ds = "echoed" /\ protocol # "udp" => b = n
    <2>1. t \in Nat \ {0}
      BY <1>2
    <2> QED BY <1>2, <1>3, <2>1, AnswerTells
  <1>5. b \in 1 .. n /\ n \in Nat \ {0} /\ b \in Nat \ {0}
    BY <1>2, BarrierThere
  <1>6. /\ r.from \in 1 .. b /\ r.from <= ttl /\ (protocol # "udp" => r.from = Distance(ttl, b))
        /\ (ds = "" => r.from < n) /\ (ds # "" => ttl >= b)
    <2>1. Distance(t, b) \in 1 .. b /\ Distance(t, b) <= ttl
      BY <1>2, <1>5, Distances
    <2>2. protocol # "udp" => t = ttl
      BY <1>3
    <2>3. ds # "" => ttl >= b
      <3>1. \A m, k \in Nat : \A i \in 1 .. m : i >= k => m >= k
        OBVIOUS
      <3> HIDE DEF ds, b, n
      <3>2. ttl \in Nat /\ b \in Nat
        BY <1>2, <1>5
      <3> QED BY <1>4, <3>1, <3>2
    <2> HIDE DEF ds, b, n
    <2> QED BY <1>3, <1>4, <2>1, <2>2, <2>3
  <1> HIDE DEF ds, b, n
  <1>7. /\ h1 \in HopRecords /\ h1.got = h.got + 1
        /\ h1.host = (IF h.host = NoNode THEN r.from ELSE h.host)
        /\ h1.arrived <=> h.arrived \/ ds # ""
        /\ h1.state = IF ds # "" THEN ds ELSE h.state
    <2> DEFINE ho == IF h.host = NoNode THEN r.from ELSE h.host
               ar == h.arrived \/ ds # ""
               st == IF ds # "" THEN ds ELSE h.state
               go == h.got + 1
    <2>1. h1 = [h EXCEPT !.got = go, !.host = ho, !.arrived = ar, !.state = st]
      BY DEF Reply, ds
    <2>2. h.host \in Nat /\ h.got \in Nat /\ h.state \in HopStates /\ h.arrived \in BOOLEAN
      BY <1>2 DEF HopRecords
    <2>3. ho \in Nat /\ go \in Nat /\ ar \in BOOLEAN /\ st \in HopStates
      <3>1. \A i \in Nat : i + 1 \in Nat
        OBVIOUS
      <3>2. r.from \in Nat
        <4>1. \A m \in Nat \ {0} : \A i \in 1 .. m : i \in Nat
          OBVIOUS
        <4> QED BY <1>5, <1>6, <4>1
      <3> QED BY <1>4, <2>2, <3>1, <3>2
    <2> HIDE DEF ho, ar, st, go, h1
    <2>4. h1 \in HopRecords /\ h1.got = go /\ h1.host = ho /\ h1.arrived = ar /\ h1.state = st
      BY <1>2, <2>1, <2>3 DEF HopRecords
    <2> QED BY <2>4 DEF ho, ar, st, go
  <1>8. h1.host # 0
    <2>1. r.from # 0
      <3>1. \A m \in Nat \ {0} : \A i \in 1 .. m : i # 0
        OBVIOUS
      <3> QED BY <1>5, <1>6, <3>1
    <2> HIDE DEF h1
    <2> QED BY <1>7, <2>1 DEF NoNode
  <1> HIDE DEF h1
  <1>9. HopOK(h1, ttl, b, n, protocol)
    <2>1. h1.host \in 1 .. b /\ h1.host <= ttl /\ (protocol # "udp" => h1.host = Distance(ttl, b))
      BY <1>2, <1>6, <1>7 DEF HopOK
    <2>2. h1.arrived => ttl >= b
      BY <1>2, <1>6, <1>7 DEF HopOK
    <2>3. ~ h1.arrived => h1.host < n
      BY <1>2, <1>6, <1>7 DEF HopOK
    <2>4. h1.arrived /\ h1.state \in {"open", "closed"} => protocol = "tcp" /\ b = n
      BY <1>2, <1>4, <1>7 DEF HopOK
    <2>5. h1.arrived /\ protocol # "udp" /\ h1.state = "echoed" => b = n
      BY <1>2, <1>4, <1>7 DEF HopOK
    <2> QED BY <1>8, <2>1, <2>2, <2>3, <2>4, <2>5 DEF HopOK, NoNode
  <1>10. ttl' \in Nat /\ ttl <= ttl'
    BY <1>1, <1>2
  <1>11. ASSUME NEW q \in inflight' PROVE ReplyOK(q)'
    BY <1>1, <1>10, RepliesStay
  <1>12. tpc # "done" /\ tpc' \in {"ready", "probe", "wait", "error"}
    BY <1>1
  <1> QED BY <1>1, <1>7, <1>9, <1>11, <1>12, TraceFrame DEF h1, b, n

(* A hop is put on record: what holds of the hops still does. *)
LEMMA HopRecorded ==
  ASSUME TraceInv, tpc = "probe", hops' = Append(hops, gathered)
  PROVE  /\ hops' \in Seq(HopRecords) /\ Len(hops') = ttl /\ ttl \in 1 .. MaxHops
         /\ hops'[ttl] = gathered
         /\ \A i \in 1 .. ttl : HopOK(hops'[i], i, barrier, Len(route), protocol)
         /\ \A i \in 1 .. ttl : i # ttl => ~ hops'[i].arrived
  <1>1. /\ hops \in Seq(HopRecords) /\ gathered \in HopRecords /\ ttl \in 1 .. MaxHops /\ MaxHops \in Nat
        /\ Len(hops) = ttl - 1
        /\ HopOK(gathered, ttl, barrier, Len(route), protocol)
        /\ \A i \in 1 .. Len(hops) : HopOK(hops[i], i, barrier, Len(route), protocol)
    BY TraceBounds DEF TraceInv, TraceTyped, HopsOK
  <1>2. \A i \in 1 .. Len(hops) : ~ hops[i].arrived
    <2>1. verdict = NoVerdict
      BY DEF TraceInv, VerdictOK
    <2>2. NoVerdict.status # "reached"
      BY DEF NoVerdict
    <2> QED BY <2>1, <2>2 DEF TraceInv, HopsOK
  <1>3. Len(Append(hops, gathered)) = Len(hops) + 1 /\ Append(hops, gathered) \in Seq(HopRecords)
    BY <1>1
  <1>4. \A i \in 1 .. Len(hops) + 1 :
           Append(hops, gathered)[i] = IF i = Len(hops) + 1 THEN gathered ELSE hops[i]
    BY <1>1
  <1>5. Len(hops) + 1 = ttl /\ \A i \in 1 .. ttl : i = ttl \/ i \in 1 .. Len(hops)
    BY <1>1
  <1>6. \A i \in 1 .. ttl : hops'[i] = IF i = ttl THEN gathered ELSE hops[i]
    BY <1>4, <1>5
  <1>7. ttl \in 1 .. ttl
    BY <1>1
  <1>8. \A i \in 1 .. ttl : HopOK(hops'[i], i, barrier, Len(route), protocol)
    BY <1>1, <1>5, <1>6
  <1>9. \A i \in 1 .. ttl : i # ttl => ~ hops'[i].arrived
    BY <1>2, <1>5, <1>6
  <1> QED BY <1>1, <1>3, <1>5, <1>6, <1>7, <1>8, <1>9

(* The invariant on the hops and on the types, from its primed parts. *)
LEMMA HopsNew ==
  ASSUME TraceInv, UNCHANGED netVars, tpc' \in {"ready", "probe", "wait", "done", "error"}, ttl' \in 1 .. MaxHops,
         gathered' \in HopRecords, hops' \in Seq(HopRecords),
         HopOK(gathered', ttl', barrier, Len(route), protocol),
         \A i \in 1 .. Len(hops') : HopOK(hops'[i], i, barrier, Len(route), protocol),
         Len(hops') = (IF tpc' = "done" THEN ttl' ELSE ttl' - 1),
         verdict'.status # "reached" => \A i \in 1 .. Len(hops') : ~ hops'[i].arrived
  PROVE  TraceTyped' /\ HopsOK'
  <1>1. route' = route /\ protocol' = protocol /\ barrier' = barrier
    BY SameNetwork
  <1>2. TraceTyped'
    BY <1>1 DEF TraceInv, TraceTyped
  <1>3. HopOK(gathered', ttl', barrier', Len(route'), protocol')
        /\ \A i \in 1 .. Len(hops') : HopOK(hops'[i], i, barrier', Len(route'), protocol')
    BY <1>1
  <1>4. HopsOK'
    BY <1>3 DEF HopsOK, HopOK, Distance, NoNode
  <1> QED BY <1>2, <1>4

(* The target has answered, or what speaks for it; or the path has run     *)
(* out.  The run is over.                                                  *)
LEMMA EndStep ==
  ASSUME TraceInv, HopArrived \/ Stalled
  PROVE  TraceInv'
  <1>1. /\ UNCHANGED netVars /\ ttl' = ttl /\ gathered' = gathered /\ inflight' = inflight
        /\ tpc = "probe" /\ tpc' = "done" /\ hops' = Append(hops, gathered)
    BY DEF HopArrived, Stalled
  <1>2. /\ hops' \in Seq(HopRecords) /\ Len(hops') = ttl /\ ttl \in 1 .. MaxHops
        /\ hops'[ttl] = gathered
        /\ \A i \in 1 .. ttl : HopOK(hops'[i], i, barrier, Len(route), protocol)
        /\ \A i \in 1 .. ttl : i # ttl => ~ hops'[i].arrived
    BY <1>1, HopRecorded
  <1>3. gathered \in HopRecords /\ HopOK(gathered, ttl, barrier, Len(route), protocol) /\ ttl \in Nat
    BY DEF TraceInv, TraceTyped, HopsOK
  <1>4. /\ verdict'.status # "reached" => ~ gathered.arrived
        /\ VerdictOK'
    <2>1. CASE HopArrived
      <3>1. verdict' = [status |-> "reached", state |-> gathered.state, target |-> gathered.host,
                        failureHop |-> NoNode]
            /\ gathered.arrived
        BY <2>1 DEF HopArrived
      <3> QED BY <1>1, <3>1 DEF VerdictOK
    <2>2. CASE Stalled
      <3>1. verdict' = [status |-> "stalled", state |-> "filtered", target |-> Len(route),
                        failureHop |-> failureHop(hops')]
            /\ ~ gathered.arrived /\ ttl = MaxHops
        BY <2>2 DEF Stalled
      <3>2. verdict'.status = "stalled" /\ verdict'.failureHop = failureHop(hops')
        BY <3>1
      <3>3. failureHop(hops') = failureHop(hops)'
        BY DEF failureHop, NoNode
      <3> QED BY <1>1, <3>1, <3>2, <3>3 DEF VerdictOK
    <2> QED BY <2>1, <2>2
  <1>5. TraceTyped' /\ HopsOK'
    <2>1. verdict'.status # "reached" => \A i \in 1 .. Len(hops') : ~ hops'[i].arrived
      BY <1>2, <1>4
    <2>2. Len(hops') = (IF tpc' = "done" THEN ttl' ELSE ttl' - 1)
      BY <1>1, <1>2
    <2> QED BY <1>1, <1>2, <1>3, <2>1, <2>2, HopsNew
  <1>6. ttl' \in Nat /\ ttl <= ttl'
    BY <1>1, <1>3
  <1>7. ASSUME NEW r \in inflight' PROVE ReplyOK(r)'
    BY <1>1, <1>6, RepliesStay, FlowOnly
  <1> QED BY <1>4, <1>5, <1>7 DEF TraceInv

(* The next TTL has its turn. *)
LEMMA NextHopStep ==
  ASSUME TraceInv, NextHop
  PROVE  TraceInv'
  <1>1. /\ UNCHANGED netVars /\ ttl' = ttl + 1 /\ gathered' = NoHop /\ inflight' = inflight /\ verdict' = verdict
        /\ tpc = "probe" /\ tpc' \in {"error", "probe"} /\ hops' = Append(hops, gathered)
        /\ ttl < MaxHops /\ ~ gathered.arrived
    BY DEF NextHop
  <1>2. /\ hops' \in Seq(HopRecords) /\ Len(hops') = ttl /\ ttl \in 1 .. MaxHops
        /\ hops'[ttl] = gathered
        /\ \A i \in 1 .. ttl : HopOK(hops'[i], i, barrier, Len(route), protocol)
        /\ \A i \in 1 .. ttl : i # ttl => ~ hops'[i].arrived
    BY <1>1, HopRecorded
  <1>3. Len(route) \in Nat \ {0}
    BY BarrierThere DEF TraceInv, TraceTyped
  <1>4. ttl + 1 \in 1 .. MaxHops /\ ttl + 1 \in Nat /\ ttl <= ttl + 1 /\ (ttl + 1) - 1 = ttl
    BY <1>1, <1>2, TraceBounds
  <1>5. TraceTyped' /\ HopsOK'
    <2>1. verdict'.status # "reached" => \A i \in 1 .. Len(hops') : ~ hops'[i].arrived
      BY <1>1, <1>2
    <2>2. Len(hops') = (IF tpc' = "done" THEN ttl' ELSE ttl' - 1)
      BY <1>1, <1>2, <1>4
    <2>3. NoHop \in HopRecords /\ HopOK(NoHop, ttl', barrier, Len(route), protocol)
      BY <1>3, EmptyHop
    <2>4. tpc' \in {"ready", "probe", "wait", "done", "error"} /\ ttl' \in 1 .. MaxHops
      BY <1>1, <1>4
    <2> QED BY <1>1, <1>2, <2>1, <2>2, <2>3, <2>4, HopsNew
  <1>6. VerdictOK'
    BY <1>1 DEF TraceInv, VerdictOK, NoVerdict
  <1>7. ASSUME NEW r \in inflight' PROVE ReplyOK(r)'
    BY <1>1, <1>4, RepliesStay, FlowOnly
  <1> QED BY <1>5, <1>6, <1>7 DEF TraceInv

(* Every step of a traceroute keeps its invariant. *)
LEMMA TraceSteps ==
  ASSUME TraceInv, TraceNext
  PROVE  TraceInv'
  BY BeginStep, ProbeStep, NoReplyStep, EndStep, NextHopStep, ReplyStep DEF TraceNext

(* A step of another part leaves the traceroute alone. *)
LEMMA TraceStays ==
  ASSUME TraceInv, UNCHANGED traceVars
  PROVE  TraceInv'
  <1>1. UNCHANGED netVars /\ UNCHANGED <<tpc, ttl, gathered, hops, verdict, inflight>>
    BY DEF traceVars
  <1>2. TraceTyped' /\ HopsOK'
    <2>1. /\ tpc' \in {"ready", "probe", "wait", "done", "error"} /\ ttl' \in 1 .. MaxHops
          /\ gathered' \in HopRecords /\ hops' \in Seq(HopRecords)
          /\ HopOK(gathered', ttl', barrier, Len(route), protocol)
          /\ \A i \in 1 .. Len(hops') : HopOK(hops'[i], i, barrier, Len(route), protocol)
          /\ Len(hops') = (IF tpc' = "done" THEN ttl' ELSE ttl' - 1)
          /\ verdict'.status # "reached" => \A i \in 1 .. Len(hops') : ~ hops'[i].arrived
      BY <1>1 DEF TraceInv, TraceTyped, HopsOK
    <2> QED BY <1>1, <2>1, HopsNew
  <1>3. VerdictOK'
    <2>1. failureHop(hops)' = failureHop(hops)
      BY <1>1 DEF failureHop, NoNode
    <2> QED BY <1>1, <2>1 DEF TraceInv, VerdictOK, NoVerdict
  <1>4. ttl' \in Nat /\ ttl <= ttl'
    BY <1>1 DEF TraceInv, TraceTyped
  <1>5. ASSUME NEW r \in inflight' PROVE ReplyOK(r)'
    BY <1>1, <1>4, RepliesStay
  <1> QED BY <1>2, <1>3, <1>5 DEF TraceInv

(* A bounded set of numbers that is not empty has a greatest one. *)
LEMMA GreatestNumber ==
  ASSUME NEW n \in Nat, NEW T \in SUBSET (1 .. n), T # {}
  PROVE  \E m \in T : \A k \in T : k <= m
  <1> DEFINE U == {n - k : k \in T}
  <1>1. U \in SUBSET Nat /\ U # {}
    <2>1. \A k \in T : n - k \in Nat
      OBVIOUS
    <2>2. \E k : k \in T
      OBVIOUS
    <2> QED BY <2>1, <2>2
  <1>2. PICK u \in U : \A v \in U : u <= v
    BY <1>1, LeastNumber
  <1>3. PICK m \in T : u = n - m
    BY <1>2
  <1>4. ASSUME NEW k \in T PROVE k <= m
    <2>1. n - m <= n - k
      BY <1>2, <1>3
    <2> QED BY <2>1
  <1> QED BY <1>4

(* The failure hop is the last that has answered. *)
LEMMA FailureHopIs ==
  ASSUME NEW n \in Nat, NEW hs \in Seq(HopRecords), Len(hs) = n
  PROVE  \/ failureHop(hs) = NoNode /\ \A i \in 1 .. n : hs[i].host = NoNode
         \/ /\ failureHop(hs) \in 1 .. n /\ hs[failureHop(hs)].host # NoNode
            /\ \A i \in failureHop(hs) + 1 .. n : hs[i].host = NoNode
  <1> DEFINE up == {i \in DOMAIN hs : hs[i].host # NoNode}
             m == CHOOSE i \in up : \A j \in up : j <= i
  <1>1. DOMAIN hs = 1 .. n /\ up \in SUBSET (1 .. n)
    OBVIOUS
  <1>2. CASE up = {}
    BY <1>1, <1>2 DEF failureHop
  <1>3. CASE up # {}
    <2>1. \E i \in up : \A j \in up : j <= i
      BY <1>1, <1>3, GreatestNumber
    <2>2. m \in up /\ \A j \in up : j <= m
      BY <2>1
    <2>3. failureHop(hs) = m
      BY <1>3 DEF failureHop
    <2> HIDE DEF m
    <2>4. m \in 1 .. n /\ hs[m].host # NoNode
      BY <1>1, <2>2
    <2>5. ASSUME NEW i \in m + 1 .. n PROVE hs[i].host = NoNode
      <3>1. i \in 1 .. n /\ ~ (i <= m)
        BY <2>4
      <3>2. i \notin up
        BY <2>2, <3>1
      <3> QED BY <1>1, <3>1, <3>2
    <2> QED BY <2>3, <2>4, <2>5
  <1> QED BY <1>2, <1>3

(* What the property says of the record and of the verdict follows. *)
LEMMA TraceRecord == TraceInv => PathOnRecord
  <1> SUFFICES ASSUME TraceInv PROVE PathOnRecord
    OBVIOUS
  <1> DEFINE b == barrier
             n == Len(route)
  <1>1. /\ TraceTyped /\ HopsOK /\ VerdictOK
        /\ hops \in Seq(HopRecords) /\ gathered \in HopRecords /\ ttl \in Nat /\ MaxHops \in Nat
        /\ route \in Routes
    BY TraceBounds DEF TraceInv, TraceTyped
  <1>2. b \in 1 .. n /\ n \in Nat \ {0}
    BY <1>1, BarrierThere
  <1>3. DOMAIN hops = 1 .. Len(hops) /\ Len(hops) \in Nat
    BY <1>1
  <1>4. \A i \in 1 .. Len(hops) : HopOK(hops[i], i, b, n, protocol)
    BY <1>1 DEF HopsOK
  <1>5. ASSUME NEW i \in DOMAIN hops, hops[i].host # NoNode
        PROVE  /\ hops[i].host <= i /\ hops[i].host <= b
               /\ protocol # "udp" => hops[i].host = IF i < b THEN i ELSE b
    <2>1. HopOK(hops[i], i, b, n, protocol)
      BY <1>3, <1>4
    <2>2. hops[i].host \in 1 .. b /\ hops[i].host <= i /\ (protocol # "udp" => hops[i].host = Distance(i, b))
      BY <1>5, <2>1 DEF HopOK
    <2> QED BY <1>2, <2>2 DEF Distance
  <1>6. ASSUME verdict.status = "reached"
        PROVE  /\ verdict.state \in {"open", "closed"} => verdict.target = n /\ b = n
               /\ protocol # "udp" /\ verdict.state = "echoed" => verdict.target = n
               /\ Len(hops) >= b
    <2>1. /\ gathered.arrived /\ verdict.state = gathered.state /\ verdict.target = gathered.host
          /\ Len(hops) = ttl /\ HopOK(gathered, ttl, b, n, protocol)
      BY <1>1, <1>6 DEF VerdictOK, HopsOK
    <2> HIDE DEF b, n
    <2>2. ttl >= b /\ gathered.host # NoNode
      BY <2>1 DEF HopOK
    <2>3. protocol # "udp" => gathered.host = Distance(ttl, b)
      BY <2>1, <2>2 DEF HopOK
    <2>4. Distance(ttl, b) = b
      BY <1>1, <1>2, <2>2 DEF Distance
    <2>5. verdict.state \in {"open", "closed"} => protocol = "tcp" /\ b = n
      BY <2>1 DEF HopOK
    <2>6. protocol # "udp" /\ verdict.state = "echoed" => b = n
      BY <2>1 DEF HopOK
    <2> QED BY <2>1, <2>2, <2>3, <2>4, <2>5, <2>6
  <1>7. ASSUME verdict.status = "stalled"
        PROVE  /\ Len(hops) = MaxHops
               /\ \A i \in verdict.failureHop + 1 .. MaxHops : hops[i].got = 0
               /\ verdict.failureHop # NoNode => hops[verdict.failureHop].host \in 1 .. n - 1
    <2> DEFINE f == failureHop(hops)
    <2>1. Len(hops) = MaxHops /\ verdict.failureHop = f
      BY <1>1, <1>7 DEF VerdictOK, HopsOK
    <2>2. \A i \in 1 .. MaxHops : ~ hops[i].arrived /\ HopOK(hops[i], i, b, n, protocol)
      BY <1>1, <1>4, <1>7, <2>1 DEF HopsOK
    <2> HIDE DEF f, b, n
    <2>3. \/ f = NoNode /\ \A i \in 1 .. MaxHops : hops[i].host = NoNode
          \/ /\ f \in 1 .. MaxHops /\ hops[f].host # NoNode
             /\ \A i \in f + 1 .. MaxHops : hops[i].host = NoNode
      BY <1>1, <2>1, FailureHopIs DEF f
    <2>4. ASSUME NEW i \in f + 1 .. MaxHops PROVE hops[i].got = 0
      <3>1. hops[i].host = NoNode /\ i \in 1 .. MaxHops
        BY <1>1, <2>3 DEF NoNode
      <3> QED BY <2>2, <3>1 DEF HopOK
    <2>5. ASSUME f # NoNode PROVE hops[f].host \in 1 .. n - 1
      <3>1. f \in 1 .. MaxHops /\ hops[f].host # NoNode
        BY <2>3, <2>5
      <3>2. hops[f].host \in 1 .. b /\ hops[f].host < n
        BY <2>2, <3>1 DEF HopOK
      <3>3. \A k \in 1 .. b : k < n => k \in 1 .. n - 1
        BY <1>2
      <3> QED BY <3>2, <3>3
    <2> QED BY <2>1, <2>4, <2>5
  <1> QED BY <1>5, <1>6, <1>7 DEF PathOnRecord

-----------------------------------------------------------------------------
(* The detection of changed routes *)

(* A least and a greatest number are what Min and Max choose.              *)
LEMMA MinIs ==
  ASSUME NEW T \in SUBSET Nat, T # {}
  PROVE  Min(T) \in T /\ \A n \in T : Min(T) <= n
  BY LeastNumber DEF Min

(* The maximum of a set of naturals that has one. *)
LEMMA MaxIs ==
  ASSUME NEW T \in SUBSET Nat, NEW m \in T, \A n \in T : n <= m
  PROVE  Max(T) \in T /\ \A n \in T : n <= Max(T)
  <1>1. \E x \in T : \A y \in T : x >= y
    OBVIOUS
  <1>2. Max(T) \in T /\ \A y \in T : Max(T) >= y
    BY <1>1 DEF Max
  <1> QED BY <1>2

(* Finitely many numbers, listed by a sequence's worth of indices, have a  *)
(* greatest one.                                                           *)
LEMMA ListedMax ==
  ASSUME NEW n \in Nat, NEW D \in SUBSET (1 .. n), NEW f \in [D -> Nat]
  PROVE  \E m \in {0} \cup {f[k] : k \in D} : \A i \in {0} \cup {f[k] : k \in D} : i <= m
  <1> DEFINE Upto(j) == {0} \cup {f[k] : k \in {l \in D : l <= j}}
             P == {j \in Nat : \E m \in Upto(j) : \A i \in Upto(j) : i <= m}
  <1>1. P \in SUBSET Nat
    OBVIOUS
  <1>2. 0 \in P
    <2>1. Upto(0) = {0}
      OBVIOUS
    <2> HIDE DEF Upto
    <2> QED BY <2>1
  <1>3. ASSUME NEW j \in P PROVE j + 1 \in P
    <2>1. PICK m \in Upto(j) : \A i \in Upto(j) : i <= m
      OBVIOUS
    <2>2. m \in Nat /\ j \in Nat
      OBVIOUS
    <2>3. CASE j + 1 \notin D
      <3>1. \A l \in D : l <= j + 1 <=> l <= j
        BY <2>2, <2>3
      <3>2. Upto(j + 1) = Upto(j)
        BY <3>1
      <3> HIDE DEF Upto
      <3> QED BY <2>1, <2>2, <3>2
    <2>4. CASE j + 1 \in D
      <3>1. \A l \in D : l <= j + 1 <=> (l <= j \/ l = j + 1)
        BY <2>2, <2>4
      <3>2. Upto(j + 1) = Upto(j) \cup {f[j + 1]}
        BY <2>4, <3>1
      <3>3. f[j + 1] \in Nat /\ Upto(j) \subseteq Nat
        BY <2>4
      <3> HIDE DEF Upto
      <3>4. CASE f[j + 1] <= m
        BY <2>1, <2>2, <3>2, <3>3, <3>4
      <3>5. CASE m <= f[j + 1]
        <4>1. \A i \in Upto(j + 1) : i <= f[j + 1]
          BY <2>1, <2>2, <3>2, <3>3, <3>5
        <4> QED BY <2>2, <3>2, <4>1
      <3> QED BY <2>2, <3>3, <3>4, <3>5
    <2> QED BY <2>3, <2>4
  <1> HIDE DEF P
  <1>4. n \in P
    BY <1>1, <1>2, <1>3, SetInduction
  <1>5. Upto(n) = {0} \cup {f[k] : k \in D}
    OBVIOUS
  <1> HIDE DEF Upto
  <1> QED BY <1>4, <1>5 DEF P

(* What detectPathChange goes by, for a table t, a run r and an event e:   *)
(* the stored runs with an answer at TTL i, whether the run's own answer   *)
(* there is new, whether it differs from the newest, that of row k, and    *)
(* whether some stored path is as long.                                    *)
Answers(t, i) ==
    {k \in DOMAIN t : i \in DOMAIN intermediate(t[k]) /\ intermediate(t[k])[i] # Silent}
NewTo(t, r, i) ==
    /\ i \in DOMAIN intermediate(r) /\ intermediate(r)[i] # Silent
    /\ \A k \in Answers(t, i) : intermediate(t[k])[i] # intermediate(r)[i]
Differs(t, r, i, k) ==
    /\ i \in DOMAIN intermediate(r) /\ intermediate(r)[i] # Silent
    /\ k \in Answers(t, i) /\ \A j \in Answers(t, i) : k <= j
    /\ intermediate(t[k])[i] # intermediate(r)[i]
LengthKnown(t, r) ==
    \E k \in DOMAIN t : t[k].hops # <<>> /\ Len(intermediate(t[k])) = Len(intermediate(r))

(* An event is news, and the first TTL that differs is reported if new.    *)
FoundIs(t, r, e) ==
    /\ e # Absent =>
          /\ intermediate(r) # <<>>
          /\ (\E i \in Nat : NewTo(t, r, i)) \/ ~ LengthKnown(t, r)
    /\ \A i, k \in Nat :
          Differs(t, r, i, k) /\ NewTo(t, r, i) /\ (\A j, l \in Nat : Differs(t, r, j, l) => i <= j)
          => /\ e # Absent /\ e.ttl = i
             /\ e.from = intermediate(t[k])[i] /\ e.to = intermediate(r)[i]

TableTyped == results \in Seq(Runs) /\ Len(results) <= BaselineRuns

(* The path of a run is a sequence of hops, and empty without hops.        *)
LEMMA PathTyped ==
  ASSUME NEW r \in Runs
  PROVE  intermediate(r) \in Seq(Hop) /\ (r.hops = <<>> => intermediate(r) = <<>>)
  <1>1. r.hops \in Seq(Hop)
    BY RunsAssumption DEF Run
  <1>2. CASE r.reached /\ r.hops # <<>>
    <2>1. Len(r.hops) \in Nat /\ Len(r.hops) # 0
      BY <1>1, <1>2
    <2>2. \A s \in Seq(Hop) : Len(s) # 0 => SubSeq(s, 1, Len(s) - 1) \in Seq(Hop)
      OBVIOUS
    <2> QED BY <1>1, <1>2, <2>1, <2>2 DEF intermediate, Front
  <1>3. CASE ~ (r.reached /\ r.hops # <<>>)
    BY <1>1, <1>3 DEF intermediate
  <1> QED BY <1>2, <1>3

(* The window is the stored runs that have hops. *)
LEMMA WindowIs ==
  ASSUME TableTyped
  PROVE  /\ window = {k \in DOMAIN results : results[k].hops # <<>>}
         /\ \A k \in DOMAIN results : results[k] \in Runs
         /\ paths \in [window -> Seq(Hop)]
         /\ \A k \in window : paths[k] = intermediate(results[k])
  <1>1. Len(results) \in Nat /\ DOMAIN results = 1 .. Len(results) /\ BaselineRuns \in Nat
    BY WindowAssumption DEF TableTyped
  <1>2. Min({Len(results), BaselineRuns}) = Len(results)
    <2> DEFINE T == {Len(results), BaselineRuns}
    <2>1. T \in SUBSET Nat /\ T # {}
      BY <1>1
    <2>2. Min(T) \in T /\ \A n \in T : Min(T) <= n
      BY <2>1, MinIs
    <2> QED BY <1>1, <2>2 DEF TableTyped
  <1>3. window = {k \in DOMAIN results : results[k].hops # <<>>}
    BY <1>1, <1>2 DEF window
  <1>4. \A k \in DOMAIN results : results[k] \in Runs
    BY <1>1 DEF TableTyped
  <1>5. \A k \in window : results[k] \in Runs
    BY <1>3, <1>4
  <1>6. \A k \in window : paths[k] = intermediate(results[k])
    BY DEF paths, tracerouteHosts
  <1>7. paths = [k \in window |-> intermediate(results[k])]
    BY DEF paths, tracerouteHosts
  <1>8. \A k \in window : intermediate(results[k]) \in Seq(Hop)
    BY <1>5, PathTyped
  <1>9. paths \in [window -> Seq(Hop)]
    BY <1>7, <1>8
  <1> QED BY <1>3, <1>4, <1>6, <1>9

(* The runs of the window that answer at a TTL. *)
LEMMA AnsweredIs ==
  ASSUME TableTyped, NEW i \in Nat \ {0}
  PROVE  answered(i) = Answers(results, i) /\ Answers(results, i) \in SUBSET Nat
  <1>1. \A k \in DOMAIN results : intermediate(results[k]) \in Seq(Hop)
                                  /\ (results[k].hops = <<>> => intermediate(results[k]) = <<>>)
    BY WindowIs, PathTyped
  <1>2. \A s \in Seq(Hop) : i \in DOMAIN s <=> i <= Len(s)
    OBVIOUS
  <1>3. \A k \in DOMAIN results : i \in DOMAIN intermediate(results[k]) =>
            /\ k \in window
    <2> SUFFICES ASSUME NEW k \in DOMAIN results, i \in DOMAIN intermediate(results[k]) PROVE k \in window
      OBVIOUS
    <2>1. intermediate(results[k]) # <<>>
      OBVIOUS
    <2> QED BY <1>1, <2>1, WindowIs
  <1>4. \A k \in window : k \in DOMAIN results /\ paths[k] = intermediate(results[k])
    BY WindowIs
  <1>5. DOMAIN paths = window
    BY DEF paths
  <1>6. answered(i) = Answers(results, i)
    BY <1>1, <1>2, <1>3, <1>4, <1>5 DEF answered, Answers
  <1>7. DOMAIN results \in SUBSET Nat
    BY DEF TableTyped
  <1> QED BY <1>6, <1>7 DEF Answers

(* The baseline: at every TTL the newest answer of the window, if any.     *)
LEMMA BaseIs ==
  ASSUME TableTyped
  PROVE  /\ baseHosts \in Seq(Hop)
         /\ \A i \in DOMAIN baseHosts : baseHosts[i] # Silent => Answers(results, i) # {}
         /\ \A i, k \in Nat :
               k \in Answers(results, i) /\ (\A j \in Answers(results, i) : k <= j) =>
                  /\ i \in DOMAIN baseHosts
                  /\ baseHosts[i] = intermediate(results[k])[i]
  <1> DEFINE f == [k \in window |-> Len(paths[k])]
             T == {0} \cup {f[k] : k \in window}
             M == Max({0} \cup Lengths)
  <1>1. /\ window \in SUBSET (1 .. Len(results)) /\ Len(results) \in Nat
        /\ paths \in [window -> Seq(Hop)] /\ \A k \in window : paths[k] = intermediate(results[k])
        /\ window \subseteq DOMAIN results
    BY WindowIs DEF TableTyped
  <1>2. f \in [window -> Nat] /\ T \in SUBSET Nat
    BY <1>1
  <1>3. T = {0} \cup Lengths
    BY <1>1 DEF Lengths
  <1>4. M \in T /\ \A n \in T : n <= M
    <2>1. \E m \in T : \A n \in T : n <= m
      BY <1>1, <1>2, ListedMax
    <2> HIDE DEF T
    <2> QED BY <1>2, <1>3, <2>1, MaxIs
  <1>5. M \in Nat /\ \A k \in window : Len(paths[k]) <= M
    BY <1>2, <1>4
  <1> HIDE DEF M, T, f
  <1>6. baseHosts = [i \in 1 .. M |->
                        IF answered(i) = {} THEN Silent ELSE paths[Min(answered(i))][i]]
    BY DEF baseHosts, M
  <1>7. ASSUME NEW i \in 1 .. M, answered(i) # {}
        PROVE  /\ Min(answered(i)) \in answered(i) /\ \A j \in answered(i) : Min(answered(i)) <= j
               /\ paths[Min(answered(i))][i] \in Hop
    <2>1. i \in Nat \ {0}
      BY <1>5
    <2>2. answered(i) \in SUBSET Nat
      BY <2>1, AnsweredIs
    <2>3. Min(answered(i)) \in answered(i) /\ \A j \in answered(i) : Min(answered(i)) <= j
      BY <1>7, <2>2, MinIs
    <2>4. \A k \in answered(i) : k \in window /\ i <= Len(paths[k])
      BY <1>1 DEF answered
    <2>5. \A s \in Seq(Hop) : i <= Len(s) => s[i] \in Hop
      BY <2>1
    <2> QED BY <1>1, <2>3, <2>4, <2>5
  <1>8. baseHosts \in Seq(Hop)
    <2>1. \A i \in 1 .. M : (IF answered(i) = {} THEN Silent ELSE paths[Min(answered(i))][i]) \in Hop
      BY <1>7 DEF Hop
    <2> DEFINE b(i) == IF answered(i) = {} THEN Silent ELSE paths[Min(answered(i))][i]
    <2>2. baseHosts = [i \in 1 .. M |-> b(i)] /\ \A i \in 1 .. M : b(i) \in Hop
      BY <1>6, <2>1
    <2> HIDE DEF b
    <2> QED BY <1>5, <2>2
  <1>9. DOMAIN baseHosts = 1 .. M
    BY <1>6
  <1>10. ASSUME NEW i \in DOMAIN baseHosts, baseHosts[i] # Silent
         PROVE  Answers(results, i) # {}
    <2>1. i \in Nat \ {0}
      BY <1>5, <1>9
    <2>2. answered(i) # {}
      BY <1>6, <1>9, <1>10
    <2> QED BY <2>1, <2>2, AnsweredIs
  <1>11. ASSUME NEW i \in Nat, NEW k \in Nat, k \in Answers(results, i),
                \A j \in Answers(results, i) : k <= j
         PROVE  i \in DOMAIN baseHosts /\ baseHosts[i] = intermediate(results[k])[i]
    <2>0. k \in DOMAIN results /\ i \in DOMAIN intermediate(results[k])
      BY <1>11 DEF Answers
    <2>1. i \in Nat \ {0}
      <3>1. intermediate(results[k]) \in Seq(Hop)
        BY <2>0, WindowIs, PathTyped
      <3> QED BY <2>0, <3>1
    <2>2. answered(i) = Answers(results, i)
      BY <2>1, AnsweredIs
    <2>3. k \in window /\ i <= Len(paths[k])
      BY <1>1, <1>11, <2>2 DEF answered
    <2>4. i \in 1 .. M
      <3>1. Len(paths[k]) <= M /\ Len(paths[k]) \in Nat
        BY <1>1, <1>5, <2>3
      <3> QED BY <1>5, <2>1, <2>3, <3>1
    <2>5. Min(answered(i)) = k
      <3>1. answered(i) # {} /\ answered(i) \in SUBSET Nat
        BY <1>11, <2>1, <2>2, AnsweredIs
      <3>2. Min(answered(i)) \in answered(i) /\ Min(answered(i)) <= k
        BY <1>11, <2>2, <3>1, MinIs
      <3>3. k <= Min(answered(i)) /\ Min(answered(i)) \in Nat
        BY <1>11, <2>2, <3>1, <3>2
      <3> QED BY <3>2, <3>3
    <2> QED BY <1>1, <1>6, <1>9, <1>11, <2>2, <2>3, <2>4, <2>5
  <1> QED BY <1>8, <1>10, <1>11

(* Where two paths part: the first TTL where both name a host and not the  *)
(* same one, or failing that the end of the shorter one.                   *)
LEMMA DiffIs ==
  ASSUME NEW p \in Seq(Hop), NEW q \in Seq(Hop)
  PROVE  LET d == diff(p, q) IN
         \/ /\ contradictions(p, q) # {}
            /\ d.ttl \in contradictions(p, q) /\ \A i \in contradictions(p, q) : d.ttl <= i
            /\ d # Absent /\ d.from = p[d.ttl] /\ d.to = q[d.ttl]
            /\ d.ttl \in Nat /\ d.from \in Hop /\ d.to \in Hop
         \/ /\ contradictions(p, q) = {}
            /\ d = Absent \/ d.from = Absent \/ d.to = Absent
  <1> DEFINE C == contradictions(p, q)
             hop(s, i) == IF i \in DOMAIN s THEN s[i] ELSE Absent
             at(i) == [ttl |-> i, from |-> hop(p, i), to |-> hop(q, i)]
  <1>1. C \in SUBSET Nat
    BY DEF contradictions
  <1>2. \A i \in C : i \in DOMAIN p /\ i \in DOMAIN q
    BY DEF contradictions
  <1>3. CASE C # {}
    <2>1. Min(C) \in C /\ \A i \in C : Min(C) <= i
      BY <1>1, <1>3, MinIs
    <2>2. diff(p, q) = at(Min(C))
      BY <1>3 DEF diff
    <2>3. hop(p, Min(C)) = p[Min(C)] /\ hop(q, Min(C)) = q[Min(C)]
      BY <1>2, <2>1
    <2>4. p[Min(C)] \in Hop /\ q[Min(C)] \in Hop /\ Min(C) \in Nat
      BY <1>1, <1>2, <2>1
    <2>5. at(Min(C)) \in [ttl : Nat, from : Hop \cup {Absent}, to : Hop \cup {Absent}]
      BY <2>3, <2>4
    <2>6. at(Min(C)) # Absent
      BY <2>5, AbsentAssumption
    <2>7. /\ at(Min(C)).ttl = Min(C) /\ at(Min(C)).from = p[Min(C)]
          /\ at(Min(C)).to = q[Min(C)]
      BY <2>3
    <2> HIDE DEF at, C
    <2> QED BY <1>3, <2>1, <2>2, <2>4, <2>6, <2>7 DEF C
  <1>4. CASE C = {}
    <2> DEFINE e == 1 + Min({Len(p), Len(q)})
    <2>1. Min({Len(p), Len(q)}) \in {Len(p), Len(q)}
      <3> DEFINE T == {Len(p), Len(q)}
      <3>1. T \in SUBSET Nat /\ T # {}
        OBVIOUS
      <3> QED BY <3>1, MinIs
    <2>2. hop(p, e) = Absent \/ hop(q, e) = Absent
      BY <2>1
    <2>3. diff(p, q) = IF Len(p) # Len(q) THEN at(e) ELSE Absent
      BY <1>4 DEF diff
    <2>4. at(e).from = hop(p, e) /\ at(e).to = hop(q, e)
      OBVIOUS
    <2> HIDE DEF at, hop, C, e
    <2> QED BY <1>4, <2>2, <2>3, <2>4 DEF C
  <1> QED BY <1>3, <1>4

(* What the runs and the baseline contradict each other in is what the     *)
(* run's answers and the newest stored ones do.                            *)
LEMMA ContradictionsAre ==
  ASSUME TableTyped, NEW r \in Runs, NEW i \in Nat
  PROVE  i \in contradictions(baseHosts, intermediate(r)) <=> \E k \in Nat : Differs(results, r, i, k)
  <1>1. intermediate(r) \in Seq(Hop)
    BY PathTyped
  <1>2. ASSUME i \in contradictions(baseHosts, intermediate(r))
        PROVE  \E k \in Nat : Differs(results, r, i, k)
    <2>1. /\ i \in DOMAIN baseHosts /\ i \in DOMAIN intermediate(r)
          /\ baseHosts[i] # Silent /\ intermediate(r)[i] # Silent /\ baseHosts[i] # intermediate(r)[i]
      BY <1>2 DEF contradictions
    <2>2. Answers(results, i) # {} /\ i \in Nat \ {0}
      BY <1>1, <2>1, BaseIs
    <2>3. Answers(results, i) \in SUBSET Nat
      BY <2>2, AnsweredIs
    <2>4. PICK k \in Answers(results, i) : \A j \in Answers(results, i) : k <= j
      BY <2>2, <2>3, LeastNumber
    <2>5. baseHosts[i] = intermediate(results[k])[i]
      BY <2>3, <2>4, BaseIs
    <2>6. k \in Nat
      BY <2>3
    <2> QED BY <2>1, <2>4, <2>5, <2>6 DEF Differs
  <1>3. ASSUME NEW k \in Nat, Differs(results, r, i, k)
        PROVE  i \in contradictions(baseHosts, intermediate(r))
    <2>1. /\ i \in DOMAIN baseHosts /\ baseHosts[i] = intermediate(results[k])[i]
      BY <1>3, BaseIs DEF Differs
    <2>2. intermediate(results[k])[i] # Silent
      BY <1>3 DEF Differs, Answers
    <2> QED BY <1>3, <2>1, <2>2 DEF Differs, contradictions
  <1> QED BY <1>2, <1>3

(* What the window has seen at a TTL is what the stored runs answered. *)
LEMMA SeenIs ==
  ASSUME TableTyped, NEW i \in Nat \ {0}
  PROVE  Seen(i) = {intermediate(results[k])[i] : k \in Answers(results, i)}
  <1>1. answered(i) = Answers(results, i)
    BY AnsweredIs
  <1>2. \A k \in answered(i) : k \in window
    BY DEF answered, paths
  <1>3. \A k \in answered(i) : paths[k] = intermediate(results[k])
    BY <1>2, WindowIs
  <1> QED BY <1>1, <1>3 DEF Seen

(* The lengths of the window are those of the stored runs with hops. *)
LEMMA LengthsAre ==
  ASSUME TableTyped, NEW r \in Runs
  PROVE  Len(intermediate(r)) \in Lengths <=> LengthKnown(results, r)
  <1>1. DOMAIN paths = window /\ \A k \in window : paths[k] = intermediate(results[k])
    BY WindowIs
  <1>2. \A k : k \in window <=> k \in DOMAIN results /\ results[k].hops # <<>>
    BY WindowIs
  <1> QED BY <1>1, <1>2 DEF Lengths, LengthKnown

(* The decision of detectPathChange is as the properties say. *)
LEMMA DetectJudges ==
  ASSUME TableTyped, NEW r \in Runs
  PROVE  FoundIs(results, r, detect(r))
  <1> DEFINE c == intermediate(r)
             d == diff(baseHosts, c)
             quiet == r.hops = <<>> \/ baseHosts = <<>> \/ c = <<>> \/ d = Absent \/ alternates(d, c)
             event == [ttl |-> d.ttl, from |-> d.from, to |-> d.to, scope |-> classifyChange(d.from, d.to)]
             C == contradictions(baseHosts, c)
  <1>1. c \in Seq(Hop) /\ (r.hops = <<>> => c = <<>>) /\ baseHosts \in Seq(Hop)
    BY PathTyped, BaseIs
  <1>2. detect(r) = IF quiet THEN Absent ELSE event
    BY DEF detect, pathSignature
  <1>3. \/ /\ C # {} /\ d.ttl \in C /\ \A i \in C : d.ttl <= i
           /\ d # Absent /\ d.from = baseHosts[d.ttl] /\ d.to = c[d.ttl]
           /\ d.ttl \in Nat /\ d.from \in Hop /\ d.to \in Hop
        \/ C = {} /\ (d = Absent \/ d.from = Absent \/ d.to = Absent)
    BY <1>1, DiffIs
  <1>4. alternates(d, c) <=> \/ d.to # Absent /\ d.to \in Seen(d.ttl)
                             \/ (d.to = Absent \/ d.from = Absent) /\ Len(c) \in Lengths
    BY DEF alternates
  <1>5. event.ttl = d.ttl /\ event.from = d.from /\ event.to = d.to
    OBVIOUS
  <1>6. \A i \in C : i \in DOMAIN c /\ i \in DOMAIN baseHosts /\ c[i] # Silent /\ i \in Nat \ {0}
    BY <1>1 DEF contradictions
  <1>7. \A i \in Nat : i \in C <=> \E k \in Nat : Differs(results, r, i, k)
    BY ContradictionsAre
  <1>8. \A i \in C : NewTo(results, r, i) <=> c[i] \notin Seen(i)
    BY <1>6, SeenIs DEF NewTo
  <1>9. Absent \notin Hop
    BY HopAssumption DEF Hop
  <1>10. Len(c) \in Lengths <=> LengthKnown(results, r)
    BY LengthsAre
  <1> HIDE DEF c, d, C, event
  <1>11. ASSUME ~ quiet
         PROVE  c # <<>> /\ ((\E i \in Nat : NewTo(results, r, i)) \/ ~ LengthKnown(results, r))
    <2>1. CASE C # {}
      BY <1>3, <1>4, <1>8, <1>9, <1>11, <2>1
    <2>2. CASE C = {}
      BY <1>3, <1>4, <1>10, <1>11, <2>2
    <2> QED BY <1>11, <2>1, <2>2
  <1>12. ASSUME NEW i \in Nat, NEW k \in Nat, Differs(results, r, i, k), NewTo(results, r, i),
                \A j, l \in Nat : Differs(results, r, j, l) => i <= j
         PROVE  /\ ~ quiet /\ d.ttl = i
                /\ d.from = intermediate(results[k])[i] /\ d.to = c[i] /\ d.from \in Hop /\ d.to \in Hop
    <2>1. i \in C /\ C # {}
      BY <1>7, <1>12
    <2>2. d.ttl = i
      <3>1. d.ttl \in C /\ d.ttl \in Nat /\ d.ttl <= i
        BY <1>3, <2>1
      <3>2. i <= d.ttl
        BY <1>7, <1>12, <3>1
      <3> QED BY <3>1, <3>2
    <2>3. baseHosts[i] = intermediate(results[k])[i]
      BY <1>12, BaseIs DEF Differs
    <2>4. d.from = baseHosts[i] /\ d.to = c[i] /\ d.from \in Hop /\ d.to \in Hop /\ d # Absent
      BY <1>3, <2>1, <2>2
    <2>5. ~ alternates(d, c)
      BY <1>4, <1>8, <1>9, <1>12, <2>1, <2>2, <2>4
    <2>6. baseHosts # <<>> /\ c # <<>>
      BY <1>6, <2>1
    <2> QED BY <1>1, <2>2, <2>3, <2>4, <2>5, <2>6
  <1>13. ASSUME d.from \in Hop, d.to \in Hop, d.ttl \in Nat
         PROVE  event # Absent
    <2>1. classifyChange(d.from, d.to) \in {"unknown", "intra-as", "inter-as"}
      BY DEF classifyChange
    <2>2. event \in Event
      BY <1>13, <2>1 DEF event, Event
    <2> QED BY <2>2, AbsentAssumption
  <1> HIDE DEF quiet
  <1>14. detect(r) # Absent => c # <<>> /\ ((\E i \in Nat : NewTo(results, r, i)) \/ ~ LengthKnown(results, r))
    BY <1>2, <1>11
  <1>15. ASSUME NEW i \in Nat, NEW k \in Nat, Differs(results, r, i, k), NewTo(results, r, i),
                \A j, l \in Nat : Differs(results, r, j, l) => i <= j
         PROVE  /\ detect(r) # Absent /\ detect(r).ttl = i
                /\ detect(r).from = intermediate(results[k])[i] /\ detect(r).to = c[i]
    <2>1. /\ ~ quiet /\ d.ttl = i
          /\ d.from = intermediate(results[k])[i] /\ d.to = c[i] /\ d.from \in Hop /\ d.to \in Hop
      BY <1>12, <1>15
    <2>2. detect(r) = event
      BY <1>2, <2>1
    <2>3. event # Absent
      BY <1>13, <2>1
    <2> QED BY <1>5, <2>1, <2>2, <2>3
  <1> QED BY <1>14, <1>15 DEF FoundIs, c

PathInv ==
    /\ TableTyped
    /\ hpc \in [Handlers -> {"idle", "unread", "record", "store"}]
    /\ run \in [Handlers -> Runs \cup {Absent}]
    /\ DOMAIN found = Handlers
    /\ \A h \in Handlers : hpc[h] # "idle" => run[h] \in Runs
    /\ \A h \in Handlers : hpc[h] \in {"record", "store"} => FoundIs(results, run[h], found[h])

(* The invariant of the next state, from what is known of its values. *)
LEMMA PathNew ==
  ASSUME results' \in Seq(Runs), Len(results') <= BaselineRuns,
         hpc' \in [Handlers -> {"idle", "unread", "record", "store"}],
         run' \in [Handlers -> Runs \cup {Absent}], DOMAIN found' = Handlers,
         \A h \in Handlers : hpc'[h] # "idle" => run'[h] \in Runs,
         \A h \in Handlers : hpc'[h] \in {"record", "store"} => FoundIs(results', run'[h], found'[h])
  PROVE  PathInv'
  BY DEF PathInv, TableTyped, FoundIs, NewTo, Differs, Answers, LengthKnown, intermediate, Front

(* The detection starts without a stored run. *)
LEMMA PathStarts == PathInit => PathInv
  <1> SUFFICES ASSUME PathInit PROVE PathInv
    OBVIOUS
  <1>1. <<>> \in Seq(Runs) /\ Len(<<>>) = 0
    OBVIOUS
  <1> QED BY <1>1, WindowAssumption DEF PathInit, PathInv, TableTyped

(* A step of another part leaves the detection alone. *)
LEMMA PathFrame ==
  ASSUME PathInv, UNCHANGED pathVars
  PROVE  PathInv'
  BY PathNew DEF PathInv, TableTyped, pathVars

(* Every step of the one handler there is keeps the invariant. *)
LEMMA PathSteps ==
  ASSUME \A h, g \in Handlers : h = g, PathInv, PathNext
  PROVE  PathInv'
  <1>0. /\ results \in Seq(Runs) /\ Len(results) <= BaselineRuns /\ Len(results) \in Nat
        /\ hpc \in [Handlers -> {"idle", "unread", "record", "store"}]
        /\ run \in [Handlers -> Runs \cup {Absent}] /\ DOMAIN found = Handlers
        /\ \A h \in Handlers : hpc[h] # "idle" => run[h] \in Runs
        /\ \A h \in Handlers : hpc[h] \in {"record", "store"} => FoundIs(results, run[h], found[h])
    BY DEF PathInv, TableTyped
  <1>1. PICK h \in Handlers :
           \/ \E r \in Runs : Detect(h, r) \/ BaselineFails(h, r)
           \/ AddPathChange(h) \/ AddResult(h)
    BY DEF PathNext
  <1>2. \A g \in Handlers : g = h
    OBVIOUS
  <1>3. ASSUME NEW r \in Runs, Detect(h, r) PROVE PathInv'
    <2>1. FoundIs(results, r, detect(r))
      BY DetectJudges DEF PathInv
    <2>2. /\ run' = [run EXCEPT ![h] = r] /\ found' = [found EXCEPT ![h] = detect(r)]
          /\ hpc' = [hpc EXCEPT ![h] = IF detect(r) = Absent THEN "store" ELSE "record"]
          /\ results' = results
      BY <1>3 DEF Detect
    <2>3. run'[h] = r /\ found'[h] = detect(r)
      BY <1>0, <2>2
    <2>4. \A g \in Handlers : run'[g] \in Runs /\ FoundIs(results', run'[g], found'[g])
      BY <1>2, <2>1, <2>2, <2>3
    <2>5. /\ hpc' \in [Handlers -> {"idle", "unread", "record", "store"}]
          /\ run' \in [Handlers -> Runs \cup {Absent}] /\ DOMAIN found' = Handlers
      BY <1>0, <2>2
    <2> QED BY <1>0, <2>2, <2>4, <2>5, PathNew
  <1>4. ASSUME NEW r \in Runs, BaselineFails(h, r) PROVE PathInv'
    <2>2. /\ run' = [run EXCEPT ![h] = r] /\ found' = found /\ results' = results
          /\ hpc' = [hpc EXCEPT ![h] = "unread"]
      BY <1>4 DEF BaselineFails
    <2>3. \A g \in Handlers : run'[g] \in Runs /\ hpc'[g] = "unread"
      BY <1>0, <1>2, <2>2
    <2>5. /\ hpc' \in [Handlers -> {"idle", "unread", "record", "store"}]
          /\ run' \in [Handlers -> Runs \cup {Absent}] /\ DOMAIN found' = Handlers
      BY <1>0, <2>2
    <2> QED BY <1>0, <2>2, <2>3, <2>5, PathNew
  <1>5. ASSUME AddPathChange(h) PROVE PathInv'
    <2>1. /\ hpc[h] = "record" /\ hpc' = [hpc EXCEPT ![h] = "store"]
          /\ results' = results /\ run' = run /\ found' = found
      BY <1>5 DEF AddPathChange
    <2>2. \A g \in Handlers : run'[g] \in Runs /\ FoundIs(results', run'[g], found'[g])
      BY <1>0, <1>2, <2>1
    <2>3. hpc' \in [Handlers -> {"idle", "unread", "record", "store"}]
      BY <1>0, <2>1
    <2> QED BY <1>0, <2>1, <2>2, <2>3, PathNew
  <1>6. ASSUME AddResult(h) PROVE PathInv'
    <2> DEFINE n == Min({BaselineRuns, Len(results) + 1})
               t == <<run[h]>> \o results
    <2>1. /\ hpc[h] \in {"store", "unread"} /\ results' \in {SubSeq(t, 1, n), results}
          /\ hpc' = [hpc EXCEPT ![h] = "idle"] /\ run' = [run EXCEPT ![h] = Absent]
          /\ found' = [found EXCEPT ![h] = Absent]
      BY <1>6 DEF AddResult
    <2>2. \A g \in Handlers : hpc'[g] = "idle"
      BY <1>0, <1>2, <2>1
    <2>3. /\ hpc' \in [Handlers -> {"idle", "unread", "record", "store"}]
          /\ run' \in [Handlers -> Runs \cup {Absent}] /\ DOMAIN found' = Handlers
      BY <1>0, <2>1
    <2>4. n \in Nat /\ n <= BaselineRuns /\ n <= Len(results) + 1
      <3> DEFINE T == {BaselineRuns, Len(results) + 1}
      <3>1. T \in SUBSET Nat /\ T # {}
        BY <1>0, WindowAssumption
      <3> HIDE DEF T
      <3>2. Min(T) \in T /\ \A m \in T : Min(T) <= m
        BY <3>1, MinIs
      <3> QED BY <3>1, <3>2 DEF T
    <2>5. t \in Seq(Runs) /\ Len(t) = Len(results) + 1
      <3>1. run[h] \in Runs
        BY <1>0, <2>1
      <3>2. <<run[h]>> \in Seq(Runs) /\ Len(<<run[h]>>) = 1
        BY <3>1
      <3> QED BY <1>0, <3>2
    <2> HIDE DEF n, t
    <2>6. SubSeq(t, 1, n) \in Seq(Runs) /\ Len(SubSeq(t, 1, n)) = n
      <3>1. \A s \in Seq(Runs), m \in Nat : m <= Len(s) =>
               SubSeq(s, 1, m) \in Seq(Runs) /\ Len(SubSeq(s, 1, m)) = m
        OBVIOUS
      <3> QED BY <2>4, <2>5, <3>1
    <2>7. results' \in Seq(Runs) /\ Len(results') <= BaselineRuns
      BY <1>0, <2>1, <2>4, <2>6
    <2> QED BY <2>2, <2>3, <2>7, PathNew
  <1> QED BY <1>1, <1>3, <1>4, <1>5, <1>6

(* No event but for news. *)
LEMMA EventIsNews == PathInv => NoFalseAlarm
  <1> SUFFICES ASSUME PathInv, NEW h \in Handlers, Reported(h),
                      newAt(h) = {}, Len(path(h)) \in lengthsSeen
               PROVE  FALSE
    BY DEF NoFalseAlarm
  <1>1. FoundIs(results, run[h], found[h]) /\ found[h] # Absent /\ run[h] \in Runs
    BY DEF PathInv, Reported, Compared
  <1>2. path(h) = intermediate(run[h])
    BY DEF path, pathSignature
  <1>3. LengthKnown(results, run[h])
    BY <1>2 DEF lengthsSeen, pastPath, pathSignature, LengthKnown
  <1>4. PICK i \in Nat : NewTo(results, run[h], i)
    BY <1>1, <1>3 DEF FoundIs
  <1>5. seenAt(i) = {intermediate(results[k])[i] : k \in Answers(results, i)}
    BY DEF seenAt, answersAt, pastPath, pathSignature, Answers
  <1>6. i \in newAt(h)
    BY <1>2, <1>4, <1>5 DEF newAt, NewTo
  <1> QED BY <1>6

(* A run on the path of the last stored one has no news. *)
LEMMA RepeatHasNoNews == PathInv => RepeatIsQuiet
  <1> SUFFICES ASSUME PathInv, NEW h \in Handlers, Reported(h), results # <<>>,
                      Len(pastPath(1)) = Len(path(h)),
                      \A i \in DOMAIN path(h) : path(h)[i] \in {pastPath(1)[i], Silent}
               PROVE  FALSE
    BY DEF RepeatIsQuiet
  <1> DEFINE p == intermediate(run[h])
             q == intermediate(results[1])
  <1>1. FoundIs(results, run[h], found[h]) /\ found[h] # Absent /\ run[h] \in Runs
    BY DEF PathInv, Reported, Compared
  <1>2. path(h) = p /\ pastPath(1) = q
    BY DEF path, pastPath, pathSignature
  <1>3. 1 \in DOMAIN results /\ results[1] \in Runs
    BY DEF PathInv, TableTyped
  <1>4. p \in Seq(Hop) /\ q \in Seq(Hop) /\ (results[1].hops = <<>> => q = <<>>)
    BY <1>1, <1>3, PathTyped
  <1>5. p # <<>> /\ ((\E i \in Nat : NewTo(results, run[h], i)) \/ ~ LengthKnown(results, run[h]))
    BY <1>1 DEF FoundIs
  <1>6. Len(q) = Len(p) /\ \A i \in DOMAIN p : p[i] \in {q[i], Silent}
    BY <1>2
  <1>7. q # <<>>
    BY <1>4, <1>5, <1>6
  <1>8. LengthKnown(results, run[h])
    BY <1>3, <1>4, <1>6, <1>7 DEF LengthKnown
  <1>9. PICK i \in Nat : NewTo(results, run[h], i)
    BY <1>5, <1>8
  <1>10. i \in DOMAIN p /\ p[i] # Silent /\ p[i] = q[i] /\ i \in DOMAIN q
    BY <1>4, <1>6, <1>9 DEF NewTo
  <1>11. 1 \in Answers(results, i)
    BY <1>3, <1>10 DEF Answers
  <1> QED BY <1>9, <1>10, <1>11 DEF NewTo

(* The first hop that differs from the newest answers, if new, is reported. *)
LEMMA FirstIsReported == PathInv => FirstNewHopReported
  <1> SUFFICES ASSUME PathInv, NEW h \in Handlers, Compared(h), differsAt(h) # {},
                      Min(differsAt(h)) \in newAt(h)
               PROVE  LET i == Min(differsAt(h)) IN
                      /\ Reported(h)
                      /\ found[h].ttl = i
                      /\ found[h].from = newestAnswer(i) /\ found[h].to = path(h)[i]
    BY DEF FirstNewHopReported
  <1> DEFINE i == Min(differsAt(h))
             p == intermediate(run[h])
             k == Min(answersAt(i))
  <1>1. FoundIs(results, run[h], found[h]) /\ run[h] \in Runs /\ TableTyped
    BY DEF PathInv, Compared
  <1>2. path(h) = p /\ \A m : pastPath(m) = intermediate(results[m])
    BY DEF path, pastPath, pathSignature
  <1>3. p \in Seq(Hop)
    BY <1>1, PathTyped
  <1>4. \A j : answersAt(j) = Answers(results, j)
    BY DEF answersAt, pastPath, pathSignature, Answers
  <1>5. differsAt(h) \in SUBSET (Nat \ {0})
    BY <1>2, <1>3 DEF differsAt
  <1>6. i \in differsAt(h) /\ \A j \in differsAt(h) : i <= j
    <2>1. differsAt(h) \in SUBSET Nat
      BY <1>5
    <2> QED BY <2>1, MinIs
  <1>7. \A j \in Nat \ {0} : Answers(results, j) \in SUBSET Nat
    BY <1>1, AnsweredIs
  <1>8. \A j \in Nat \ {0} : Answers(results, j) # {} =>
           /\ Min(Answers(results, j)) \in Answers(results, j)
           /\ \A m \in Answers(results, j) : Min(Answers(results, j)) <= m
    BY <1>7, MinIs
  <1>9. i \in Nat \ {0} /\ k \in Nat /\ Differs(results, run[h], i, k)
    <2>1. i \in Nat \ {0}
      BY <1>5, <1>6
    <2>2. i \in DOMAIN p /\ answersAt(i) # {} /\ p[i] \notin {newestAnswer(i), Silent}
      BY <1>2, <1>6 DEF differsAt
    <2>3. k \in Answers(results, i) /\ \A m \in Answers(results, i) : k <= m
      BY <1>4, <1>8, <2>1, <2>2
    <2>4. newestAnswer(i) = intermediate(results[k])[i]
      BY <1>2 DEF newestAnswer
    <2>5. k \in Nat
      BY <1>7, <2>1, <2>3
    <2> QED BY <2>1, <2>2, <2>3, <2>4, <2>5 DEF Differs
  <1>10. NewTo(results, run[h], i)
    <2>1. i \in DOMAIN p /\ p[i] \notin seenAt(i) \cup {Silent}
      BY <1>2 DEF newAt
    <2>2. \A m \in Answers(results, i) : intermediate(results[m])[i] \in seenAt(i)
      BY <1>2, <1>4 DEF seenAt
    <2> QED BY <2>1, <2>2 DEF NewTo
  <1>11. ASSUME NEW j \in Nat, NEW l \in Nat, Differs(results, run[h], j, l) PROVE i <= j
    <2>1. /\ j \in DOMAIN p /\ p[j] # Silent /\ l \in Answers(results, j)
          /\ \A m \in Answers(results, j) : l <= m
          /\ intermediate(results[l])[j] # p[j]
      BY <1>11 DEF Differs
    <2>2. j \in Nat \ {0}
      BY <1>3, <2>1
    <2>3. Min(answersAt(j)) = l
      <3>1. Min(answersAt(j)) \in Answers(results, j) /\ Min(answersAt(j)) <= l
        BY <1>4, <1>8, <2>1, <2>2
      <3>2. l <= Min(answersAt(j)) /\ Min(answersAt(j)) \in Nat
        BY <1>7, <2>1, <2>2, <3>1
      <3> QED BY <3>1, <3>2
    <2>4. newestAnswer(j) = intermediate(results[l])[j]
      BY <1>2, <2>3 DEF newestAnswer
    <2>5. j \in differsAt(h)
      BY <1>2, <1>4, <2>1, <2>4 DEF differsAt
    <2> QED BY <1>6, <2>5
  <1> HIDE DEF i, k
  <1>12. /\ found[h] # Absent /\ found[h].ttl = i
         /\ found[h].from = intermediate(results[k])[i] /\ found[h].to = p[i]
    BY <1>1, <1>9, <1>10, <1>11 DEF FoundIs
  <1> QED BY <1>2, <1>12 DEF Reported, newestAnswer, i, k

-----------------------------------------------------------------------------
(* What an agent reports *)

Sources == {"agent", "server"}
Line == [src : Sources, n : Nat, bad : BOOLEAN, time : Nat, via : 0 .. MaxStreams]
Stat == [load : Loads, time : Nat]
Item == Line \cup Stat
RowT == [src : Sources, n : Nat, bad : BOOLEAN, time : Nat, via : 0 .. MaxStreams, pos : Nat]

(* The numbers of the lines of a list, in the order of the list.           *)
Nums(s) == {s[i].n : i \in {k \in DOMAIN s : s[k] \in Line}}
Rising(s) == \A i, j \in DOMAIN s : i < j /\ s[i] \in Line /\ s[j] \in Line => s[i].n < s[j].n
Below(A, B) == \A a \in A, b \in B : a < b

(* What the lines of a list are of.                                        *)
AllOf(s, src, via) == \A i \in DOMAIN s : s[i] \in Line => s[i].src = src /\ s[i].via = via

RowNums(src, via) == {r.n : r \in {x \in logs : x.src = src /\ x.via = via}}

(* The lines that have left the agent by a stream.                         *)
Passed(g) == Nums(wire[g]) \cup RowNums("agent", g)

(* The bounds. *)
BudgetT == [streams : 0 .. MaxStreams, logs : Nat, stats : Nat, rows : Nat, refreshes : Nat,
            faults : Nat, verdicts : Nat, time : Nat, loads : SUBSET Loads]

RepTyped ==
    /\ now \in Nat /\ logged \in Nat /\ served \in Nat /\ cur \in 0 .. MaxStreams
    /\ buf \in Seq(Line) /\ batch \in Seq(Line) /\ sink \in Seq(Line)
    /\ wire \in [Links -> Seq(Item)]
    /\ budget \in BudgetT /\ cur + budget.streams <= MaxStreams
    /\ cur = 0 => apc = "down"

(* Lines move on in the order they were logged: what is in the table is    *)
(* older than what is on the stream, that than what is being sent, and     *)
(* that than what is in the buffer; and one stream's lines are older than  *)
(* the next one's.                                                         *)
AgentOrder ==
    /\ Rising(buf) /\ Rising(batch) /\ AllOf(buf, "agent", 0) /\ AllOf(batch, "agent", 0)
    /\ Nums(buf) \subseteq 1 .. logged /\ Nums(batch) \subseteq 1 .. logged
    /\ Below(Nums(batch), Nums(buf))
    /\ cur = 0 => batch = <<>>
    /\ \A g \in Links : /\ Rising(wire[g]) /\ AllOf(wire[g], "agent", g)
                        /\ Passed(g) \subseteq 1 .. logged
                        /\ Below(Passed(g), Nums(batch)) /\ Below(Passed(g), Nums(buf))
                        /\ Below(RowNums("agent", g), Nums(wire[g]))
                        /\ g > cur => Passed(g) = {}
    /\ \A g, h \in Links : g < h => Below(Passed(g), Passed(h))

ServerOrder ==
    /\ Rising(sink) /\ AllOf(sink, "server", 0)
    /\ Nums(sink) \subseteq 1 .. served /\ RowNums("server", 0) \subseteq 1 .. served
    /\ Below(RowNums("server", 0), Nums(sink))

(* The rows of one stream come in the order they were logged, and a        *)
(* position of a source is one row's.                                      *)
RowOrder ==
    /\ logs \in SUBSET RowT /\ IsFiniteSet(logs)
    /\ \A r \in logs : r.src = "agent" <=> r.via # 0
    /\ \A r, s \in logs : r.pos < s.pos /\ r.src = s.src /\ r.via = s.via => r.n < s.n
    /\ \A r, s \in logs : r.src = s.src /\ r.pos = s.pos => r = s

(* The table holds the newest rows of each source, as many as are kept and *)
(* no more than failed prunings have left.                                 *)
Kept(src, gone) ==
    /\ positions(src) = gone + 1 .. inserted[src]
    /\ gone > 0 => inserted[src] - gone >= History
    /\ inserted[src] - gone <= History + unpruned[src]
RowCount ==
    /\ inserted \in [Sources -> Nat] /\ unpruned \in [Sources -> Nat]
    /\ \A src \in Sources : \E gone \in 0 .. inserted[src] : Kept(src, gone)

ShipInv == RepTyped /\ AgentOrder /\ ServerOrder /\ RowOrder /\ RowCount

(* Statistics on record were received; the newest good ones are noted.     *)
Received(s) == s \in Stat \cup {NoStats} /\ (s # NoStats /\ s.load = "fine" => s.time <= fineAt)

StatsKnown ==
    /\ fineAt \in Nat \cup {Never} /\ reread \in SUBSET Links
    /\ Received(record)
    /\ mem \in [Links -> Stat \cup {NoStats}] /\ heard \in [Links -> Stat \cup {NoStats}]
    /\ \A g \in Links : Received(mem[g])
    /\ fresh = NoStats \/ (fresh \in [stats : Stat \cup {NoStats}, of : Links] /\ Received(fresh.stats))
    /\ \A g \in Links : heard[g] # NoStats /\ g \notin reread => mem[g] = heard[g]

(* What a handler has stored and not yet copied is at the head of its      *)
(* stream.                                                                 *)
StoringKnown ==
    \A g \in Links : handler[g] = "storing" => wire[g] # <<>> /\ Head(wire[g]) \in Stat /\ Received(Head(wire[g]))

(* Statistics have come from a stream that was entered.                    *)
SomeJoined == \E g \in Links : joined[g] # Never
HandlersKnown ==
    /\ handler \in [Links -> {"none", "registered", "entered", "open", "storing", "done"}]
    /\ joined \in [Links -> Nat \cup {Never}]
    /\ conn \in 0 .. MaxStreams
    /\ \A g \in Links : /\ joined[g] <= now
                        /\ handler[g] \in {"none", "registered", "entered"} <=> joined[g] = Never
                        /\ handler[g] = "none" => heard[g] = NoStats
                        /\ mem[g] # NoStats => SomeJoined
    /\ record # NoStats => SomeJoined
    /\ fresh # NoStats /\ fresh.stats # NoStats => SomeJoined

(* The reconnections on record are those of the window of the last one.    *)
JoinedAfter(c) == {g \in Links : joined[g] # Never /\ joined[g] > c}
TimesAfter(c) == {i \in DOMAIN times : times[i] > c}
FlapsKnown ==
    /\ times \in Seq(Nat) /\ count = Len(times)
    /\ \A i \in DOMAIN times : times[i] <= now
    /\ \A i, j \in DOMAIN times : i < j => times[i] <= times[j]
    /\ \A g \in Links, i \in DOMAIN times : joined[g] # Never => joined[g] - Window < times[i]
    /\ \A c \in Int : (\A g \in Links : joined[g] # Never => c >= joined[g] - Window)
                         => Cardinality(TimesAfter(c)) = Cardinality(JoinedAfter(c))

(* What a verdict that is being put together has found so far.             *)
Levels == {"healthy", "degraded", "unhealthy"}
EvalT == [pc : {"idle", "age", "flaps", "errors", "done"}, stats : Stat \cup {NoStats}, level : Levels \cup {"unknown"},
          heard : Stat \cup {NoStats}, given : BOOLEAN, age : Int, late : BOOLEAN, flaps : Nat, flapped : Nat,
          errors : Nat]
Grounds(e) ==
    \/ e.stats.load # "fine" \/ e.heard = NoStats \/ e.given \/ e.late
    \/ e.flapped >= FlapsFor[1] \/ e.errors >= ErrorsFor[1]
EvalOK(e) ==
    /\ e.stats \in Stat /\ e.level \in Levels
    /\ e.heard # NoStats /\ ~ e.given => e.heard = e.stats
    /\ e.level = "healthy" => /\ e.stats.load = "fine" /\ e.age <= StaleAfter[1]
                              /\ e.pc \in {"errors", "done"} => e.flaps < FlapsFor[1]
    /\ e.level # "healthy" => Grounds(e)
    /\ e.pc = "age" => ~ e.late
    /\ e.pc \in {"age", "flaps"} => e.flapped = 0
    /\ e.pc # "done" => e.errors = 0
EvalKnown ==
    /\ eval \in EvalT
    /\ eval.pc # "idle" => EvalOK(eval) /\ Received(eval.stats) /\ SomeJoined

HealthInv == now \in Nat /\ StatsKnown /\ StoringKnown /\ HandlersKnown /\ FlapsKnown /\ EvalKnown

-----------------------------------------------------------------------------
(* A message on a stream is a line or statistics, told apart by a field.   *)
LEMMA Kinds ==
  /\ \A x \in Line : "src" \in DOMAIN x /\ "n" \in DOMAIN x /\ "load" \notin DOMAIN x
  /\ \A x \in Stat : "src" \notin DOMAIN x /\ "n" \notin DOMAIN x /\ "load" \in DOMAIN x
  /\ Line \cap Stat = {}
  /\ Line \subseteq Item
  <1>1. \A x \in Line : DOMAIN x = {"src", "n", "bad", "time", "via"}
    BY DEF Line
  <1>2. \A x \in Stat : DOMAIN x = {"load", "time"}
    BY DEF Stat
  <1> QED BY <1>1, <1>2 DEF Item

(* A list of lines is a list of messages. *)
LEMMA LinesAreItems == \A s \in Seq(Line) : s \in Seq(Item)
  BY Kinds

(* An empty list *)
LEMMA NoLines ==
  Nums(<<>>) = {} /\ Rising(<<>>) /\ \A src, via : AllOf(<<>>, src, via)
  BY DEF Nums, Rising, AllOf

(* A list that grows by one message. *)
LEMMA OneMore ==
  ASSUME NEW s \in Seq(Item), NEW e \in Item
  PROVE  /\ Nums(Append(s, e)) \subseteq Nums(s) \cup (IF e \in Line THEN {e.n} ELSE {})
         /\ Rising(s) /\ (e \in Line => \A m \in Nums(s) : m < e.n) => Rising(Append(s, e))
         /\ \A src, via : AllOf(s, src, via) /\ (e \in Line => e.src = src /\ e.via = via)
                             => AllOf(Append(s, e), src, via)
  <1> DEFINE t == Append(s, e)
  <1>1. /\ Len(t) = Len(s) + 1 /\ Len(s) \in Nat /\ DOMAIN t = 1 .. Len(t) /\ DOMAIN s = 1 .. Len(s)
        /\ \A i \in DOMAIN s : t[i] = s[i]
        /\ t[Len(s) + 1] = e
    OBVIOUS
  <1>2. \A i \in DOMAIN t : i \in DOMAIN s \/ i = Len(s) + 1
    BY <1>1
  <1> HIDE DEF t
  <1>3. Nums(t) \subseteq Nums(s) \cup (IF e \in Line THEN {e.n} ELSE {})
    BY <1>1, <1>2 DEF Nums
  <1>4. ASSUME Rising(s), e \in Line => \A m \in Nums(s) : m < e.n
        PROVE  Rising(t)
    <2> SUFFICES ASSUME NEW i \in DOMAIN t, NEW j \in DOMAIN t, i < j, t[i] \in Line, t[j] \in Line
                 PROVE  t[i].n < t[j].n
      BY DEF Rising
    <2>1. i \in DOMAIN s
      BY <1>1, <1>2
    <2>2. CASE j \in DOMAIN s
      BY <1>1, <1>4, <2>1, <2>2 DEF Rising
    <2>3. CASE j = Len(s) + 1
      BY <1>1, <1>4, <2>1, <2>3 DEF Nums
    <2> QED BY <1>2, <2>2, <2>3
  <1>5. \A src, via : AllOf(s, src, via) /\ (e \in Line => e.src = src /\ e.via = via) => AllOf(t, src, via)
    BY <1>1, <1>2 DEF AllOf
  <1> QED BY <1>3, <1>4, <1>5 DEF t

(* A list whose first message is taken. *)
LEMMA OneLess ==
  ASSUME NEW s \in Seq(Item), s # <<>>
  PROVE  /\ Head(s) \in Item /\ Tail(s) \in Seq(Item)
         /\ Nums(Tail(s)) \subseteq Nums(s)
         /\ Rising(s) => Rising(Tail(s))
         /\ \A src, via : AllOf(s, src, via) =>
                AllOf(Tail(s), src, via) /\ (Head(s) \in Line => Head(s).src = src /\ Head(s).via = via)
         /\ Head(s) \in Line => Head(s).n \in Nums(s)
         /\ Head(s) \in Line /\ Rising(s) => \A m \in Nums(Tail(s)) : Head(s).n < m
  <1> DEFINE t == Tail(s)
             h == Head(s)
  <1>1. /\ Len(t) = Len(s) - 1 /\ Len(s) \in Nat \ {0} /\ DOMAIN t = 1 .. Len(t) /\ DOMAIN s = 1 .. Len(s)
        /\ \A i \in DOMAIN t : i + 1 \in DOMAIN s /\ t[i] = s[i + 1] /\ 1 < i + 1
        /\ h = s[1] /\ 1 \in DOMAIN s /\ h \in Item /\ t \in Seq(Item)
    OBVIOUS
  <1> HIDE DEF t, h
  <1>2. Nums(t) \subseteq Nums(s)
    BY <1>1 DEF Nums
  <1>3. Rising(s) => Rising(t)
    BY <1>1 DEF Rising
  <1>4. \A src, via : AllOf(s, src, via) => AllOf(t, src, via) /\ (h \in Line => h.src = src /\ h.via = via)
    BY <1>1 DEF AllOf
  <1>5. h \in Line => h.n \in Nums(s)
    BY <1>1 DEF Nums
  <1>6. h \in Line /\ Rising(s) => \A m \in Nums(t) : h.n < m
    BY <1>1 DEF Nums, Rising
  <1> QED BY <1>1, <1>2, <1>3, <1>4, <1>5, <1>6 DEF t, h

(* A row has its entry's fields. *)
LEMMA RowIs ==
  ASSUME NEW e \in Line, NEW p \in Nat
  PROVE  /\ Row(e, p) \in RowT /\ Row(e, p).pos = p
         /\ Row(e, p).src = e.src /\ Row(e, p).via = e.via /\ Row(e, p).n = e.n
  BY DEF Row, RowT, Line

Newer(all, src, r) == Cardinality({s \in all : s.src = src /\ s.pos > r.pos})

(* The positions of a source's rows run from lo + 1 to hi.                 *)
Running(all, src, lo, hi) ==
    /\ \A x \in all : x.src = src => x.pos \in lo + 1 .. hi
    /\ \A p \in lo + 1 .. hi : \E x \in all : x.src = src /\ x.pos = p
    /\ \A x, y \in all : x.src = src /\ y.src = src /\ x.pos = y.pos => x = y

(* How many rows of a source are newer than one of them.                   *)
LEMMA NewerRows ==
  ASSUME NEW all, NEW src, NEW lo \in Nat, NEW hi \in Nat, Running(all, src, lo, hi),
         NEW r \in all, r.src = src
  PROVE  Newer(all, src, r) = hi - r.pos
  <1> DEFINE B == {s \in all : s.src = src /\ s.pos > r.pos}
             A == r.pos + 1 .. hi
             At(p, s) == s.src = src /\ s.pos = p
             g == [p \in A |-> CHOOSE s \in all : At(p, s)]
  <1> USE DEF Running
  <1>1. r.pos \in lo + 1 .. hi
    OBVIOUS
  <1>2. \A p \in A : p \in lo + 1 .. hi /\ p > r.pos
    BY <1>1
  <1>3. \A p \in A : g[p] \in all /\ At(p, g[p])
    BY <1>2
  <1>4. \A p \in A : g[p] \in B
    BY <1>2, <1>3
  <1>5. \A p, q \in A : p # q => g[p] # g[q]
    BY <1>3
  <1>6. \A s \in B : \E p \in A : g[p] = s
    <2> TAKE s \in B
    <2>1. s \in all /\ s.src = src /\ s.pos > r.pos /\ s.pos \in lo + 1 .. hi
      OBVIOUS
    <2>2. s.pos \in A
      BY <1>1, <2>1
    <2>3. g[s.pos] \in all /\ At(s.pos, g[s.pos])
      BY <1>3, <2>2
    <2>4. g[s.pos] = s
      BY <2>1, <2>3
    <2> QED BY <2>2, <2>4
  <1>7. g \in [A -> B]
    BY <1>4
  <1> HIDE DEF A, B, g
  <1>8. g \in Bijection(A, B)
    BY <1>5, <1>6, <1>7 DEF Bijection, Injection, Surjection, IsInjective
  <1>9. IsFiniteSet(A) /\ Cardinality(A) = hi - r.pos
    <2> DEFINE a == r.pos + 1
    <2>1. a \in Int /\ hi \in Int /\ a <= hi + 1
      BY <1>1
    <2> HIDE DEF a
    <2>2. IsFiniteSet(a .. hi) /\ Cardinality(a .. hi) = IF a > hi THEN 0 ELSE hi - a + 1
      BY <2>1, FS_Interval
    <2>3. Cardinality(a .. hi) = hi + 1 - a
      BY <2>1, <2>2
    <2> QED BY <1>1, <2>2, <2>3 DEF A, a
  <1>10. Cardinality(B) = Cardinality(A)
    BY <1>8, <1>9, FS_Bijection DEF ExistsBijection
  <1> QED BY <1>9, <1>10 DEF B, Newer

(* InsertLog, whether or not it fails: the entry is the only new row, the  *)
(* order is kept, and what goes is of its source and the oldest there.     *)
LEMMA Insertion ==
  ASSUME NEW e \in Line, InsertLog(e) \/ InsertLogFails(e), RowOrder, RowCount,
         e.src = "agent" <=> e.via # 0, \A m \in RowNums(e.src, e.via) : m < e.n
  PROVE  /\ RowOrder' /\ RowCount'
         /\ \A src, via : RowNums(src, via)' \subseteq
                RowNums(src, via) \cup (IF src = e.src /\ via = e.via THEN {e.n} ELSE {})
  <1> DEFINE top == inserted[e.src] + 1
             row == Row(e, top)
             all == logs \cup {row}
  <1>1. /\ e.src \in Sources /\ inserted \in [Sources -> Nat] /\ unpruned \in [Sources -> Nat]
        /\ inserted[e.src] \in Nat /\ top \in Nat /\ History \in Nat \ {0}
    BY ReportsCaps DEF Line, RowCount
  <1>2. row \in RowT /\ row.pos = top /\ row.src = e.src /\ row.via = e.via /\ row.n = e.n
    BY <1>1, RowIs
  <1>3. PICK low \in [Sources -> Nat] : \A src \in Sources : low[src] \in 0 .. inserted[src] /\ Kept(src, low[src])
    <2> DEFINE OK(src, gone) == gone \in 0 .. inserted[src] /\ Kept(src, gone)
               low == [src \in Sources |-> CHOOSE gone \in 0 .. inserted[src] : OK(src, gone)]
    <2>1. \A src \in Sources : \E gone \in 0 .. inserted[src] : OK(src, gone)
      BY DEF RowCount
    <2>2. \A src \in Sources : low[src] \in 0 .. inserted[src] /\ OK(src, low[src])
      BY <2>1
    <2>3. low \in [Sources -> Nat]
      BY <1>1, <2>2
    <2> QED BY <2>2, <2>3
  <1>4. \A r \in logs : r \in RowT /\ r.src \in Sources /\ r.pos \in low[r.src] + 1 .. inserted[r.src]
    <2> TAKE r \in logs
    <2>1. r \in RowT /\ r.src \in Sources
      BY DEF RowOrder, RowT
    <2>2. r.pos \in positions(r.src)
      BY DEF positions
    <2> QED BY <1>3, <2>1, <2>2 DEF Kept
  <1>5. \A src \in Sources : \A p \in low[src] + 1 .. inserted[src] : \E x \in logs : x.src = src /\ x.pos = p
    BY <1>3 DEF Kept, positions
  <1> DEFINE gone == low[e.src]
  <1>6. gone \in Nat /\ gone <= inserted[e.src] /\ (gone > 0 => inserted[e.src] - gone >= History)
        /\ inserted[e.src] - gone <= History + unpruned[e.src]
    BY <1>1, <1>3 DEF Kept
  <1> HIDE DEF row, top
  <1>7. /\ \A r \in all : r \in RowT
        /\ \A r \in all : r.src = "agent" <=> r.via # 0
        /\ \A r, s \in all : r.src = s.src /\ r.pos = s.pos => r = s
    <2>1. \A r \in logs : r.src = e.src => r.pos # top
      BY <1>1, <1>4 DEF top
    <2> QED BY <1>2, <2>1 DEF RowOrder
  <1>8. ASSUME NEW r \in all, NEW s \in all, r.pos < s.pos, r.src = s.src, r.via = s.via PROVE r.n < s.n
    <2>1. CASE s \in logs
      <3>1. r \in logs
        <4> SUFFICES ASSUME r = row PROVE FALSE
          OBVIOUS
        <4>1. s.pos <= inserted[e.src] /\ s.pos \in Nat
          BY <1>1, <1>2, <1>3, <1>4, <1>8, <2>1
        <4> QED BY <1>1, <1>2, <1>8, <4>1 DEF top
      <3> QED BY <1>8, <2>1, <3>1 DEF RowOrder
    <2>2. CASE s = row
      <3>1. r \in logs
        BY <1>1, <1>2, <1>8, <2>2
      <3>2. r.n \in RowNums(e.src, e.via)
        BY <1>2, <1>8, <2>2, <3>1 DEF RowNums
      <3> QED BY <1>2, <2>2, <3>2
    <2> QED BY <2>1, <2>2
  <1>9. IsFiniteSet(all)
    BY FS_AddElement DEF RowOrder
  <1>10. logs' \in SUBSET all
    BY DEF InsertLog, InsertLogFails, pruned, row, top
  <1>11. RowOrder'
    <2>1. IsFiniteSet(logs')
      BY <1>9, <1>10, FS_Subset
    <2> QED BY <1>7, <1>8, <1>10, <2>1 DEF RowOrder
  <1>12. \A src, via : RowNums(src, via)' \subseteq
             RowNums(src, via) \cup (IF src = e.src /\ via = e.via THEN {e.n} ELSE {})
    BY <1>2, <1>10 DEF RowNums
  <1>13. CASE UNCHANGED <<logs, inserted, unpruned>>
    <2>1. RowCount'
      BY <1>13 DEF RowCount, Kept, positions
    <2> QED BY <1>11, <1>12, <2>1
  <1>14. ASSUME inserted' = [inserted EXCEPT ![e.src] = @ + 1], unpruned' \in [Sources -> Nat],
                \A src \in Sources \ {e.src} : unpruned'[src] = unpruned[src],
                \A r \in all : r.src # e.src => r \in logs',
                NEW cut \in Nat, cut <= top,
                \A r \in all : r.src = e.src => (r \in logs' <=> r.pos > cut), gone <= cut,
                cut > 0 => top - cut >= History, top - cut <= History + unpruned'[e.src]
         PROVE  RowCount'
    <2>1. inserted' \in [Sources -> Nat] /\ inserted'[e.src] = top
          /\ \A src \in Sources \ {e.src} : inserted'[src] = inserted[src]
      BY <1>1, <1>14 DEF top
    <2>2. ASSUME NEW src \in Sources, src # e.src PROVE \E k \in 0 .. inserted'[src] : Kept(src, k)'
      <3>1. \A r : r \in logs' /\ r.src = src <=> r \in logs /\ r.src = src
        BY <1>2, <1>10, <1>14, <2>2
      <3>2. positions(src)' = positions(src)
        BY <3>1 DEF positions
      <3>3. Kept(src, low[src])' /\ low[src] \in 0 .. inserted'[src]
        BY <1>3, <1>14, <2>1, <2>2, <3>2 DEF Kept
      <3> QED BY <3>3
    <2>3. positions(e.src)' = cut + 1 .. top
      <3>1. ASSUME NEW r \in logs', r.src = e.src PROVE r.pos \in cut + 1 .. top
        <4>1. r \in all /\ r.pos > cut
          BY <1>10, <1>14, <3>1
        <4>2. r.pos \in Nat /\ r.pos <= top
          BY <1>1, <1>2, <1>4, <3>1, <4>1 DEF top, RowT
        <4> QED BY <1>1, <4>1, <4>2
      <3>2. ASSUME NEW p \in cut + 1 .. top PROVE \E r \in logs' : r.src = e.src /\ r.pos = p
        <4>1. \E r \in all : r.src = e.src /\ r.pos = p
          <5>1. CASE p = top
            BY <1>2, <5>1
          <5>2. CASE p # top
            <6>1. p \in gone + 1 .. inserted[e.src]
              BY <1>1, <1>6, <1>14, <5>2 DEF top
            <6> QED BY <1>1, <1>5, <6>1
          <5> QED BY <5>1, <5>2
        <4> QED BY <1>1, <1>14, <4>1
      <3> QED BY <3>1, <3>2 DEF positions
    <2>4. Kept(e.src, cut)' /\ cut \in 0 .. inserted'[e.src]
      BY <1>1, <1>14, <2>1, <2>3 DEF Kept
    <2>5. \A src \in Sources : \E k \in 0 .. inserted'[src] : Kept(src, k)'
      BY <2>2, <2>4
    <2> QED BY <1>14, <2>1, <2>5 DEF RowCount
  <1>15. CASE InsertLog(e)
    <2>1. /\ logs' = pruned(all, e.src) /\ inserted' = [inserted EXCEPT ![e.src] = @ + 1]
          /\ unpruned' = [unpruned EXCEPT ![e.src] = 0]
      BY <1>15 DEF InsertLog, row, top
    <2>2. ASSUME NEW r \in all, r.src = e.src
          PROVE  Newer(all, e.src, r) = top - r.pos
      <3>1. \A x \in all : x.src = e.src => x.pos \in gone + 1 .. top
        BY <1>1, <1>2, <1>4, <1>6 DEF top
      <3>2. \A p \in gone + 1 .. top : \E x \in all : x.src = e.src /\ x.pos = p
        <4> TAKE p \in gone + 1 .. top
        <4>1. CASE p = top
          BY <1>2, <4>1
        <4>2. CASE p # top
          <5>1. p \in gone + 1 .. inserted[e.src]
            BY <1>1, <1>6, <4>2 DEF top
          <5> QED BY <1>1, <1>5, <5>1
        <4> QED BY <4>1, <4>2
      <3>3. \A x, y \in all : x.src = e.src /\ y.src = e.src /\ x.pos = y.pos => x = y
        BY <1>7
      <3> DEFINE src == e.src
      <3>4. gone \in Nat /\ top \in Nat /\ r.src = src /\ Running(all, src, gone, top)
        BY <1>1, <1>6, <2>2, <3>1, <3>2, <3>3 DEF Running
      <3> HIDE DEF all, gone, src
      <3>5. Newer(all, src, r) = top - r.pos
        BY <3>4, NewerRows, Zenon
      <3> QED BY <3>5 DEF src
    <2> DEFINE cut == IF top > gone + History THEN top - History ELSE gone
    <2>3. cut \in Nat /\ cut <= top /\ gone <= cut /\ (cut > 0 => top - cut >= History) /\ top - cut <= History
      BY <1>1, <1>6 DEF top
    <2>4. ASSUME NEW r \in all, r.src = e.src PROVE r \in logs' <=> r.pos > cut
      <3>1. r.pos \in Nat /\ r.pos > gone
        BY <1>1, <1>2, <1>4, <1>6, <2>4 DEF top
      <3>2. r \in logs' <=> top - r.pos < History
        BY <2>1, <2>2, <2>4 DEF pruned, Newer
      <3> QED BY <1>1, <1>6, <3>1, <3>2
    <2>5. \A r \in all : r.src # e.src => r \in logs'
      BY <2>1 DEF pruned
    <2>6. unpruned' \in [Sources -> Nat] /\ unpruned'[e.src] = 0
          /\ \A src \in Sources \ {e.src} : unpruned'[src] = unpruned[src]
      BY <1>1, <2>1
    <2> HIDE DEF cut, gone, all
    <2>7. top - cut <= History + unpruned'[e.src]
      BY <1>1, <2>3, <2>6
    <2>8. RowCount'
      BY <1>14, <2>1, <2>3, <2>4, <2>5, <2>6, <2>7
    <2> QED BY <1>11, <1>12, <2>8
  <1>16. CASE /\ logs' = all /\ inserted' = [inserted EXCEPT ![e.src] = @ + 1]
              /\ unpruned' = [unpruned EXCEPT ![e.src] = @ + 1]
    <2>1. unpruned' \in [Sources -> Nat] /\ unpruned'[e.src] = unpruned[e.src] + 1
          /\ \A src \in Sources \ {e.src} : unpruned'[src] = unpruned[src]
      BY <1>1, <1>16
    <2>2. \A r \in all : r.src = e.src => r.pos \in Nat /\ r.pos > gone
      BY <1>1, <1>2, <1>4, <1>6 DEF top
    <2>3. gone <= top /\ (gone > 0 => top - gone >= History) /\ top - gone <= History + unpruned'[e.src]
      BY <1>1, <1>6, <2>1 DEF top
    <2> HIDE DEF gone, all
    <2>4. RowCount'
      BY <1>6, <1>14, <1>16, <2>1, <2>2, <2>3
    <2> QED BY <1>11, <1>12, <2>4
  <1> QED BY <1>13, <1>15, <1>16 DEF InsertLogFails, row, top

(* While the table stays, its numbers do. *)
LEMMA RowsStay == logs' = logs => \A src, via : RowNums(src, via)' = RowNums(src, via)
  BY DEF RowNums

(* Messages leave the wire, or lines of it enter the table.                *)
LEMMA MessagesMove ==
  ASSUME AgentOrder, UNCHANGED <<buf, batch, logged, cur>>,
         \A g \in Links : /\ Rising(wire'[g]) /\ AllOf(wire'[g], "agent", g)
                          /\ Nums(wire'[g]) \cup RowNums("agent", g)' \subseteq Passed(g)
                          /\ Below(RowNums("agent", g)', Nums(wire'[g]))
  PROVE  AgentOrder'
  <1>1. \A g \in Links : Passed(g)' \subseteq Passed(g)
    BY DEF Passed
  <1>2. ASSUME NEW g \in Links
        PROVE  /\ Passed(g)' \subseteq 1 .. logged
               /\ Below(Passed(g)', Nums(batch)) /\ Below(Passed(g)', Nums(buf))
               /\ g > cur => Passed(g)' = {}
    BY <1>1 DEF AgentOrder, Below
  <1>3. \A g, h \in Links : g < h => Below(Passed(g)', Passed(h)')
    BY <1>1 DEF AgentOrder, Below
  <1> QED BY <1>2, <1>3 DEF AgentOrder

(* What the buffer is with one line more.                                  *)
LEMMA PushIs ==
  ASSUME RepTyped, AgentOrder, NEW bad \in BOOLEAN
  PROVE  LET b == Push(buf, Entry("agent", logged + 1, bad)) IN
         /\ b \in Seq(Line) /\ Rising(b) /\ AllOf(b, "agent", 0)
         /\ Nums(b) \subseteq Nums(buf) \cup {logged + 1}
  <1> DEFINE e == Entry("agent", logged + 1, bad)
             c == IF Len(buf) >= BufCap THEN Tail(buf) ELSE buf
  <1>1. e \in Line /\ e.n = logged + 1 /\ e.src = "agent" /\ e.via = 0
    BY ReportsBounds DEF RepTyped, Entry, Line, Sources
  <1>2. Push(buf, e) = Append(c, e)
    BY DEF Push
  <1>3. buf \in Seq(Line) /\ buf \in Seq(Item) /\ BufCap \in Nat \ {0} /\ logged \in Nat
    BY ReportsCaps, Kinds DEF RepTyped, Item
  <1> HIDE DEF e
  <1>4. c \in Seq(Line) /\ Rising(c) /\ AllOf(c, "agent", 0) /\ Nums(c) \subseteq Nums(buf)
    <2>1. CASE Len(buf) >= BufCap
      <3>1. buf # <<>> /\ Tail(buf) \in Seq(Line)
        BY <1>3, <2>1
      <3> QED BY <1>3, <2>1, <3>1, OneLess DEF AgentOrder
    <2>2. CASE ~ (Len(buf) >= BufCap)
      BY <1>3, <2>2 DEF AgentOrder
    <2> QED BY <2>1, <2>2
  <1> HIDE DEF c
  <1>5. c \in Seq(Item) /\ e \in Item
    BY <1>1, <1>4 DEF Item
  <1>6. \A m \in Nums(c) : m < e.n
    BY <1>1, <1>3, <1>4 DEF AgentOrder
  <1>7. Append(c, e) \in Seq(Line)
    BY <1>1, <1>4
  <1>8. Rising(Append(c, e)) /\ AllOf(Append(c, e), "agent", 0) /\ Nums(Append(c, e)) \subseteq Nums(c) \cup {e.n}
    BY <1>1, <1>4, <1>5, <1>6, OneMore
  <1> QED BY <1>1, <1>2, <1>4, <1>7, <1>8 DEF e

(* The agent logs a line; the batch stays or is lost.                      *)
LEMMA LineLogged ==
  ASSUME RepTyped, AgentOrder, NEW bad \in BOOLEAN, logLine(bad), batch' = batch \/ batch' = <<>>,
         UNCHANGED <<wire, logs, cur>>
  PROVE  AgentOrder' /\ buf' \in Seq(Line) /\ logged' \in Nat
  <1>1. /\ buf' \in Seq(Line) /\ Rising(buf') /\ AllOf(buf', "agent", 0)
        /\ Nums(buf') \subseteq Nums(buf) \cup {logged + 1} /\ logged' = logged + 1
    BY PushIs DEF logLine
  <1>2. \A g \in Links : Passed(g)' = Passed(g) /\ RowNums("agent", g)' = RowNums("agent", g)
    BY RowsStay DEF Passed
  <1>3. /\ Rising(batch') /\ AllOf(batch', "agent", 0) /\ Nums(batch') \subseteq Nums(batch)
        /\ (cur' = 0 => batch' = <<>>)
    BY NoLines DEF AgentOrder
  <1>4. logged \in Nat /\ logged' \in Nat /\ 1 .. logged \subseteq 1 .. logged'
    BY <1>1 DEF RepTyped
  <1>5. \A m \in 1 .. logged : m < logged + 1
    BY <1>4
  <1>6. Nums(buf') \subseteq 1 .. logged' /\ Nums(batch') \subseteq 1 .. logged' /\ Below(Nums(batch'), Nums(buf'))
    <2>1. logged + 1 \in 1 .. logged'
      BY <1>1, <1>4
    <2> QED BY <1>1, <1>3, <1>4, <1>5, <2>1 DEF AgentOrder, Below
  <1>7. ASSUME NEW g \in Links
        PROVE  /\ Passed(g) \subseteq 1 .. logged'
               /\ Below(Passed(g), Nums(batch')) /\ Below(Passed(g), Nums(buf'))
    BY <1>1, <1>3, <1>4, <1>5 DEF AgentOrder, Below
  <1>8. \A g \in Links : Below(RowNums("agent", g)', Nums(wire'[g]))
    BY <1>2 DEF AgentOrder
  <1>9. \A g, h \in Links : g < h => Below(Passed(g)', Passed(h)')
    BY <1>2 DEF AgentOrder
  <1> QED BY <1>1, <1>2, <1>3, <1>4, <1>6, <1>7, <1>8, <1>9 DEF AgentOrder

(* The buffer, with a line more or not, is drained into the batch.         *)
LEMMA Drained ==
  ASSUME RepTyped, AgentOrder, NEW b \in Seq(Line), Drain(b), UNCHANGED <<wire, logs>>,
         logged' \in Nat, logged' >= logged, cur' \in 1 .. MaxStreams, cur' >= cur,
         Rising(b), AllOf(b, "agent", 0), Nums(b) \subseteq Nums(buf) \cup {logged + 1},
         Nums(b) \subseteq 1 .. logged'
  PROVE  AgentOrder'
  <1>1. batch' = b /\ buf' = <<>> /\ Nums(buf') = {} /\ Rising(buf') /\ AllOf(buf', "agent", 0)
    BY NoLines DEF Drain
  <1>2. \A g \in Links : Passed(g)' = Passed(g) /\ RowNums("agent", g)' = RowNums("agent", g)
    BY RowsStay DEF Passed
  <1>3. logged \in Nat /\ 1 .. logged \subseteq 1 .. logged' /\ cur \in Nat /\ cur' # 0 /\ cur' \in Nat
    BY ReportsBounds DEF RepTyped
  <1>4. \A m \in 1 .. logged : m < logged + 1
    BY <1>3
  <1>5. ASSUME NEW g \in Links
        PROVE  Passed(g) \subseteq 1 .. logged' /\ Below(Passed(g), Nums(b)) /\ Below(Passed(g), {})
    BY <1>3, <1>4 DEF AgentOrder, Below
  <1>6. \A g \in Links : g > cur' => g > cur
    BY <1>3, ReportsBounds DEF Links
  <1>7. \A g \in Links : Below(RowNums("agent", g)', Nums(wire'[g]))
    BY <1>2 DEF AgentOrder
  <1>8. \A g, h \in Links : g < h => Below(Passed(g)', Passed(h)')
    BY <1>2 DEF AgentOrder
  <1>9. Below(Nums(b), {})
    BY DEF Below
  <1> QED BY <1>1, <1>2, <1>3, <1>5, <1>6, <1>7, <1>8, <1>9 DEF AgentOrder

(* The oldest line of the batch is sent on the newest stream.              *)
LEMMA SendStep ==
  ASSUME RepTyped, AgentOrder, SendLine
  PROVE  AgentOrder' /\ wire' \in [Links -> Seq(Item)] /\ batch' \in Seq(Line)
  <1> DEFINE h == Head(batch)
             e == [h EXCEPT !.via = cur]
  <1>1. /\ batch # <<>> /\ wire' = [wire EXCEPT ![cur] = Append(@, e)] /\ batch' = Tail(batch)
        /\ UNCHANGED <<buf, logged, cur, logs>>
    BY DEF SendLine, tableVars
  <1>2. batch \in Seq(Line) /\ batch \in Seq(Item) /\ h \in Line /\ batch' \in Seq(Line) /\ cur \in Links
    <2>1. batch \in Seq(Line)
      BY DEF RepTyped
    <2>2. h \in Line /\ batch' \in Seq(Line)
      BY <1>1, <2>1
    <2>3. cur \in Links
      BY <1>1, ReportsBounds DEF RepTyped, AgentOrder, Links
    <2> QED BY <2>1, <2>2, <2>3, LinesAreItems
  <1>3. e \in Line /\ e.n = h.n /\ e.src = h.src /\ e.via = cur
    <2>1. cur \in 0 .. MaxStreams
      BY DEF RepTyped
    <2> HIDE DEF h
    <2> QED BY <1>2, <2>1 DEF Line
  <1> HIDE DEF h, e
  <1>4. /\ Nums(batch') \subseteq Nums(batch) /\ Rising(batch') /\ AllOf(batch', "agent", 0)
        /\ h.n \in Nums(batch) /\ h.src = "agent" /\ \A m \in Nums(batch') : h.n < m
    BY <1>1, <1>2, OneLess DEF AgentOrder, h
  <1>5. e \in Item /\ wire \in [Links -> Seq(Item)] /\ cur \in Nat
    BY <1>3, ReportsBounds DEF Item, RepTyped
  <1>6. wire' \in [Links -> Seq(Item)] /\ wire'[cur] = Append(wire[cur], e)
        /\ \A g \in Links \ {cur} : wire'[g] = wire[g]
    BY <1>1, <1>2, <1>5
  <1>7. \A m \in Nums(wire[cur]) : m < e.n
    BY <1>2, <1>3, <1>4 DEF AgentOrder, Below, Passed
  <1>8. /\ Nums(wire'[cur]) \subseteq Nums(wire[cur]) \cup {h.n} /\ Rising(wire'[cur])
        /\ AllOf(wire'[cur], "agent", cur)
    BY <1>2, <1>3, <1>4, <1>5, <1>6, <1>7, OneMore DEF AgentOrder
  <1>9. \A g \in Links : Rising(wire'[g]) /\ AllOf(wire'[g], "agent", g)
    BY <1>6, <1>8 DEF AgentOrder
  <1>10. /\ \A g \in Links : RowNums("agent", g)' = RowNums("agent", g)
         /\ \A g \in Links \ {cur} : Passed(g)' = Passed(g)
         /\ \A g \in Links : g = cur => Passed(g)' \subseteq Passed(g) \cup {h.n}
    BY <1>1, <1>6, <1>8, RowsStay DEF Passed
  <1>11. ASSUME NEW g \in Links
         PROVE  /\ Passed(g)' \subseteq 1 .. logged
                /\ Below(Passed(g)', Nums(batch')) /\ Below(Passed(g)', Nums(buf))
                /\ g > cur => Passed(g)' = {}
    <2>1. h.n \in 1 .. logged /\ \A m \in Nums(buf) : h.n < m
      BY <1>4 DEF AgentOrder, Below
    <2>2. Passed(g)' \subseteq Passed(g) \cup {h.n}
      <3>1. CASE g = cur
        BY <1>10, <3>1
      <3>2. CASE g # cur
        BY <1>10, <3>2
      <3> QED BY <3>1, <3>2
    <2>3. g > cur => g # cur
      BY <1>5
    <2> QED BY <1>4, <1>10, <2>1, <2>2, <2>3 DEF AgentOrder, Below
  <1>12. \A g \in Links : Below(RowNums("agent", g)', Nums(wire'[g]))
    <2>1. \A m \in RowNums("agent", cur) : m < h.n
      BY <1>2, <1>4 DEF AgentOrder, Below, Passed
    <2>2. Below(RowNums("agent", cur), Nums(wire'[cur]))
      BY <1>2, <1>8, <2>1 DEF AgentOrder, Below
    <2>3. \A g \in Links \ {cur} : Below(RowNums("agent", g), Nums(wire'[g]))
      BY <1>6 DEF AgentOrder
    <2> QED BY <1>10, <2>2, <2>3
  <1>13. ASSUME NEW g \in Links, NEW k \in Links, g < k PROVE Below(Passed(g)', Passed(k)')
    <2>1. CASE k = cur
      <3>1. g # cur /\ \A m \in Passed(g) : m < h.n
        BY <1>4, <1>5, <1>13, <2>1 DEF AgentOrder, Below
      <3>2. Passed(g)' = Passed(g) /\ Passed(k)' \subseteq Passed(k) \cup {h.n}
        BY <1>10, <2>1, <3>1
      <3>3. Below(Passed(g), Passed(k))
        BY <1>13 DEF AgentOrder
      <3> QED BY <3>1, <3>2, <3>3 DEF Below
    <2>2. CASE k > cur
      <3>1. Passed(k)' = {}
        BY <1>11, <2>2
      <3> QED BY <3>1 DEF Below
    <2>3. CASE k < cur
      <3>1. g # cur /\ k # cur
        BY <1>5, <1>13, <2>3, ReportsBounds DEF Links
      <3> QED BY <1>10, <1>13, <3>1 DEF AgentOrder
    <2> QED BY <1>5, <2>1, <2>2, <2>3, ReportsBounds DEF Links
  <1>14. Nums(batch') \subseteq 1 .. logged /\ Below(Nums(batch'), Nums(buf))
    BY <1>4 DEF AgentOrder, Below
  <1>15. cur # 0
    BY <1>2, ReportsBounds DEF Links
  <1> QED BY <1>1, <1>2, <1>4, <1>6, <1>9, <1>11, <1>12, <1>13, <1>14, <1>15 DEF AgentOrder

(* The first message of a stream is taken by the server.                   *)
LEMMA TakenFrom ==
  ASSUME RepTyped, AgentOrder, NEW g \in Links, wire[g] # <<>>, wire' = [wire EXCEPT ![g] = Tail(@)]
  PROVE  /\ wire' \in [Links -> Seq(Item)] /\ Head(wire[g]) \in Item
         /\ \A k \in Links : /\ Rising(wire'[k]) /\ AllOf(wire'[k], "agent", k)
                             /\ Nums(wire'[k]) \subseteq Nums(wire[k])
  <1>1. wire \in [Links -> Seq(Item)] /\ wire[g] \in Seq(Item)
    BY DEF RepTyped
  <1>2. wire'[g] = Tail(wire[g]) /\ \A k \in Links \ {g} : wire'[k] = wire[k]
    BY <1>1
  <1>3. /\ Head(wire[g]) \in Item /\ Tail(wire[g]) \in Seq(Item) /\ Nums(Tail(wire[g])) \subseteq Nums(wire[g])
        /\ Rising(Tail(wire[g])) /\ AllOf(Tail(wire[g]), "agent", g)
    BY <1>1, OneLess DEF AgentOrder
  <1> QED BY <1>1, <1>2, <1>3 DEF AgentOrder

(* The server logs a line of its own. *)
LEMMA ServedLine ==
  ASSUME RepTyped, ServerOrder, serverLog, RowNums("server", 0)' \subseteq RowNums("server", 0)
  PROVE  ServerOrder' /\ sink' \in Seq(Line) /\ served' \in Nat
  <1> DEFINE e == Entry("server", served + 1, FALSE)
  <1>1. e \in Line /\ e.n = served + 1 /\ e.src = "server" /\ e.via = 0
    BY ReportsBounds DEF RepTyped, Entry, Line, Sources
  <1>2. served' = served + 1 /\ sink' = IF Len(sink) < SinkCap THEN Append(sink, e) ELSE sink
    BY DEF serverLog
  <1> HIDE DEF e
  <1>3. sink \in Seq(Line) /\ sink \in Seq(Item) /\ e \in Item /\ served \in Nat
    <2>1. sink \in Seq(Line) /\ served \in Nat
      BY DEF RepTyped
    <2> QED BY <1>1, <2>1, LinesAreItems, Kinds
  <1>5. \A m \in 1 .. served : m < served + 1 /\ m \in 1 .. served'
    BY <1>2, <1>3
  <1>6. CASE Len(sink) < SinkCap
    <2>1. sink' = Append(sink, e) /\ sink' \in Seq(Line)
      BY <1>1, <1>2, <1>3, <1>6
    <2>2. \A m \in Nums(sink) : m < e.n
      BY <1>1, <1>5 DEF ServerOrder
    <2>3. Rising(sink') /\ AllOf(sink', "server", 0) /\ Nums(sink') \subseteq Nums(sink) \cup {served + 1}
      BY <1>1, <1>3, <2>1, <2>2, OneMore DEF ServerOrder
    <2>4. served + 1 \in 1 .. served'
      BY <1>2, <1>3
    <2>5. Nums(sink') \subseteq 1 .. served' /\ RowNums("server", 0) \subseteq 1 .. served'
      BY <1>5, <2>3, <2>4 DEF ServerOrder
    <2>6. Below(RowNums("server", 0), Nums(sink'))
      BY <1>5, <2>3 DEF ServerOrder, Below
    <2> QED BY <1>2, <1>3, <2>1, <2>3, <2>5, <2>6 DEF ServerOrder, Below
  <1>7. CASE ~ (Len(sink) < SinkCap)
    BY <1>2, <1>3, <1>5, <1>7 DEF ServerOrder, Below
  <1> QED BY <1>6, <1>7

(* A line of the agent is stored, or not, which the server logs. *)
LEMMA StoreStep ==
  ASSUME ShipInv, NEW g \in Links, handleAgentLog(g)
  PROVE  /\ AgentOrder' /\ ServerOrder' /\ RowOrder' /\ RowCount'
         /\ wire' \in [Links -> Seq(Item)] /\ sink' \in Seq(Line) /\ served' \in Nat
  <1> DEFINE h == Head(wire[g])
  <1>1. /\ RepTyped /\ AgentOrder /\ ServerOrder /\ RowOrder /\ RowCount /\ wire[g] \in Seq(Item)
    BY DEF ShipInv, RepTyped
  <1>2. /\ wire[g] # <<>> /\ "src" \in DOMAIN h /\ (InsertLog(h) \/ InsertLogFails(h))
        /\ wire' = [wire EXCEPT ![g] = Tail(@)]
        /\ UNCHANGED <<buf, batch, logged, cur>> /\ (serverLog \/ UNCHANGED <<sink, served>>)
    BY DEF handleAgentLog, agentVars
  <1>3. /\ wire' \in [Links -> Seq(Item)] /\ h \in Item
        /\ \A k \in Links : /\ Rising(wire'[k]) /\ AllOf(wire'[k], "agent", k)
                            /\ Nums(wire'[k]) \subseteq Nums(wire[k])
    BY <1>1, <1>2, TakenFrom
  <1>4. h \in Line
    BY <1>2, <1>3, Kinds DEF Item
  <1>5. /\ h.src = "agent" /\ h.via = g /\ h.n \in Nums(wire[g])
        /\ \A m \in Nums(Tail(wire[g])) : h.n < m
    BY <1>1, <1>2, <1>4, OneLess DEF AgentOrder
  <1>6. g # 0 /\ 0 \notin Links /\ \A m \in RowNums("agent", g) : m < h.n
    BY <1>1, <1>5, ReportsBounds DEF Links, AgentOrder, Below
  <1> HIDE DEF h
  <1>7. /\ RowOrder' /\ RowCount'
        /\ \A src, via : RowNums(src, via)' \subseteq
               RowNums(src, via) \cup (IF src = h.src /\ via = h.via THEN {h.n} ELSE {})
    BY <1>1, <1>2, <1>4, <1>5, <1>6, Insertion
  <1>8. wire'[g] = Tail(wire[g])
    BY <1>1, <1>2 DEF RepTyped
  <1>9. \A k \in Links \ {g} : RowNums("agent", k)' \subseteq RowNums("agent", k)
    BY <1>5, <1>7
  <1>10. RowNums("agent", g)' \subseteq RowNums("agent", g) \cup {h.n}
    BY <1>5, <1>7
  <1>11. \A k \in Links : /\ Nums(wire'[k]) \cup RowNums("agent", k)' \subseteq Passed(k)
                          /\ Below(RowNums("agent", k)', Nums(wire'[k]))
    <2>1. ASSUME NEW k \in Links, k # g
          PROVE  /\ Nums(wire'[k]) \cup RowNums("agent", k)' \subseteq Passed(k)
                 /\ Below(RowNums("agent", k)', Nums(wire'[k]))
      BY <1>1, <1>3, <1>9, <2>1 DEF Passed, Below, AgentOrder
    <2>2. /\ Nums(wire'[g]) \cup RowNums("agent", g)' \subseteq Passed(g)
          /\ Below(RowNums("agent", g)', Nums(wire'[g]))
      <3>1. Nums(wire'[g]) \subseteq Passed(g) /\ RowNums("agent", g)' \subseteq Passed(g)
        BY <1>3, <1>5, <1>10 DEF Passed
      <3>2. Below(RowNums("agent", g), Nums(wire[g]))
        BY <1>1 DEF AgentOrder
      <3>3. Below(RowNums("agent", g)', Nums(wire'[g]))
        BY <1>3, <1>5, <1>8, <1>10, <3>2 DEF Below
      <3> QED BY <3>1, <3>3
    <2> QED BY <2>1, <2>2
  <1>12. AgentOrder'
    BY <1>1, <1>2, <1>3, <1>11, MessagesMove
  <1>13. RowNums("server", 0)' \subseteq RowNums("server", 0)
    BY <1>5, <1>7
  <1>14. ServerOrder' /\ sink' \in Seq(Line) /\ served' \in Nat
    <2>1. CASE UNCHANGED <<sink, served>>
      BY <1>1, <1>13, <2>1 DEF ServerOrder, Below, RepTyped
    <2>2. CASE serverLog
      BY <1>1, <1>13, <2>2, ServedLine
    <2> QED BY <1>2, <2>1, <2>2
  <1> QED BY <1>3, <1>7, <1>12, <1>14

(* The server's writer stores a line of its own. *)
LEMMA SinkStep ==
  ASSUME ShipInv, SinkWrites
  PROVE  /\ AgentOrder' /\ ServerOrder' /\ RowOrder' /\ RowCount'
         /\ sink' \in Seq(Line)
  <1> DEFINE h == Head(sink)
  <1>1. /\ RepTyped /\ AgentOrder /\ ServerOrder /\ RowOrder /\ RowCount
        /\ sink \in Seq(Line) /\ sink \in Seq(Item)
    BY Kinds DEF ShipInv, RepTyped, Item
  <1>2. /\ sink # <<>> /\ (InsertLog(h) \/ InsertLogFails(h)) /\ sink' = Tail(sink)
        /\ UNCHANGED <<buf, batch, logged, cur, wire, served>>
    BY DEF SinkWrites, agentVars
  <1>3. h \in Line /\ sink' \in Seq(Line)
    BY <1>1, <1>2
  <1>4. /\ h.src = "server" /\ h.via = 0 /\ h.n \in Nums(sink)
        /\ Nums(sink') \subseteq Nums(sink) /\ Rising(sink') /\ AllOf(sink', "server", 0)
        /\ \A m \in Nums(sink') : h.n < m
    BY <1>1, <1>2, <1>3, OneLess DEF ServerOrder
  <1>5. \A m \in RowNums("server", 0) : m < h.n
    BY <1>1, <1>4 DEF ServerOrder, Below
  <1> HIDE DEF h
  <1>6. /\ RowOrder' /\ RowCount'
        /\ \A src, via : RowNums(src, via)' \subseteq
               RowNums(src, via) \cup (IF src = h.src /\ via = h.via THEN {h.n} ELSE {})
    BY <1>1, <1>2, <1>3, <1>4, <1>5, Insertion
  <1>7. \A k \in Links : RowNums("agent", k)' \subseteq RowNums("agent", k)
    BY <1>4, <1>6
  <1>8. RowNums("server", 0)' \subseteq RowNums("server", 0) \cup {h.n}
    BY <1>4, <1>6
  <1>9. \A k \in Links : /\ Rising(wire'[k]) /\ AllOf(wire'[k], "agent", k)
                         /\ Nums(wire'[k]) \cup RowNums("agent", k)' \subseteq Passed(k)
                         /\ Below(RowNums("agent", k)', Nums(wire'[k]))
    BY <1>1, <1>2, <1>7 DEF Passed, Below, AgentOrder
  <1>10. AgentOrder'
    BY <1>1, <1>2, <1>9, MessagesMove
  <1>11. ServerOrder'
    <2>1. RowNums("server", 0)' \subseteq 1 .. served /\ Nums(sink') \subseteq 1 .. served
      BY <1>1, <1>4, <1>8 DEF ServerOrder
    <2>2. Below(RowNums("server", 0)', Nums(sink'))
      BY <1>1, <1>4, <1>8 DEF ServerOrder, Below
    <2> QED BY <1>2, <1>4, <2>1, <2>2 DEF ServerOrder
  <1> QED BY <1>3, <1>6, <1>10, <1>11

(* They are spent one at a time. *)
LEMMA BudgetSteps ==
  ASSUME RepTyped, ReportsNext
  PROVE  /\ now' \in Nat /\ cur' \in 0 .. MaxStreams /\ budget' \in BudgetT
         /\ cur' + budget'.streams <= MaxStreams
         /\ cur' = 0 => apc' = "down"
  <1>1. now \in Nat /\ cur \in 0 .. MaxStreams /\ budget \in BudgetT /\ cur + budget.streams <= MaxStreams
        /\ (cur = 0 => apc = "down")
    BY DEF RepTyped
  <1>2. MaxStreams \in Nat
    BY ReportsBounds
  <1>3. ASSUME budget.logs > 0, budget' = [budget EXCEPT !.logs = @ - 1]
        PROVE  budget' \in BudgetT /\ budget'.streams = budget.streams
    BY <1>1, <1>3 DEF BudgetT
  <1>4. ASSUME budget.stats > 0, budget' = [budget EXCEPT !.stats = @ - 1]
        PROVE  budget' \in BudgetT /\ budget'.streams = budget.streams
    BY <1>1, <1>4 DEF BudgetT
  <1>5. ASSUME budget.rows > 0, budget' = [budget EXCEPT !.rows = @ - 1]
        PROVE  budget' \in BudgetT /\ budget'.streams = budget.streams
    BY <1>1, <1>5 DEF BudgetT
  <1>6. ASSUME budget.refreshes > 0, budget' = [budget EXCEPT !.refreshes = @ - 1]
        PROVE  budget' \in BudgetT /\ budget'.streams = budget.streams
    BY <1>1, <1>6 DEF BudgetT
  <1>7. ASSUME budget.time > 0, budget' = [budget EXCEPT !.time = @ - 1]
        PROVE  budget' \in BudgetT /\ budget'.streams = budget.streams
    BY <1>1, <1>7 DEF BudgetT
  <1>8. ASSUME budget.streams > 0, budget' = [budget EXCEPT !.streams = @ - 1]
        PROVE  budget' \in BudgetT /\ budget'.streams = budget.streams - 1
    BY <1>1, <1>2, <1>8 DEF BudgetT
  <1>13. ASSUME budget.faults > 0, budget' = [budget EXCEPT !.faults = @ - 1]
         PROVE  budget' \in BudgetT /\ budget'.streams = budget.streams
    BY <1>1, <1>13 DEF BudgetT
  <1>14. ASSUME budget.verdicts > 0, budget' = [budget EXCEPT !.verdicts = @ - 1]
         PROVE  budget' \in BudgetT /\ budget'.streams = budget.streams
    BY <1>1, <1>14 DEF BudgetT
  <1>9. budget.streams \in Nat
    BY <1>1, <1>2 DEF BudgetT
  <1>10. CASE Connect
    <2>1. budget.streams > 0 /\ budget' = [budget EXCEPT !.streams = @ - 1] /\ cur' = cur + 1 /\ now' = now
      BY <1>10 DEF Connect
    <2> QED BY <1>1, <1>2, <1>8, <1>9, <2>1
  <1>11. CASE Tick
    <2>1. /\ budget.time > 0 /\ budget' = [budget EXCEPT !.time = @ - 1] /\ cur' = cur /\ now' = now + 1 /\ apc' = apc
      BY <1>11 DEF Tick, agentVars
    <2> QED BY <1>1, <1>7, <2>1
  <1>12. CASE ~ Connect /\ ~ Tick
    <2>1. /\ now' = now /\ cur' = cur /\ (apc' # apc => apc' = "down" \/ apc \in {"first", "loop"})
          /\ \/ budget' = budget
             \/ budget.logs > 0 /\ budget' = [budget EXCEPT !.logs = @ - 1]
             \/ budget.stats > 0 /\ budget' = [budget EXCEPT !.stats = @ - 1]
             \/ budget.rows > 0 /\ budget' = [budget EXCEPT !.rows = @ - 1]
             \/ budget.refreshes > 0 /\ budget' = [budget EXCEPT !.refreshes = @ - 1]
             \/ budget.faults > 0 /\ budget' = [budget EXCEPT !.faults = @ - 1]
             \/ budget.verdicts > 0 /\ budget' = [budget EXCEPT !.verdicts = @ - 1]
      BY <1>12 DEF ReportsNext, Handle, SendLine, SendLineFails, ShipTick, noStats, StreamLost, sendStats,
                   SinkWrites, RefreshReads, RefreshSets, registerAgent, EnterConnected, Reconnected,
                   handleAgentLog, SetAgentStats, SetAgentStatsFails, handleAgentStats, HandlerEnds, fault,
                   EvaluateAgentHealth, ReadStats, ReadAge, ReadFlaps, ReadErrors, Judged, reads, agentVars
    <2> QED BY <1>1, <1>3, <1>4, <1>5, <1>6, <1>13, <1>14, <2>1
  <1> QED BY <1>10, <1>11, <1>12

(* A step that leaves the table and the server's lines alone.              *)
LEMMA TableStays ==
  ASSUME ShipInv, UNCHANGED tableVars
  PROVE  ServerOrder' /\ RowOrder' /\ RowCount' /\ sink' \in Seq(Line) /\ served' \in Nat
  <1>1. UNCHANGED <<sink, served, logs, inserted, unpruned>>
    BY DEF tableVars
  <1>2. ServerOrder /\ RowOrder /\ RowCount /\ sink \in Seq(Line) /\ served \in Nat
    BY DEF ShipInv, RepTyped
  <1>3. ServerOrder'
    BY <1>1, <1>2, RowsStay DEF ServerOrder
  <1> QED BY <1>1, <1>2, <1>3 DEF RowOrder, RowCount, Kept, positions

(* What the agent does: lines are logged, drained and sent.                *)
AgentStep ==
    \/ \E bad \in BOOLEAN : Handle(bad)
    \/ Connect \/ SendLine \/ SendLineFails \/ ShipTick \/ noStats \/ StreamLost \/ Tick
    \/ \E load \in budget.loads : sendStats(load)
    \/ EvaluateAgentHealth

(* A line that is logged is newer than all, and one that is sent newer     *)
(* than all that were sent.                                                *)
LEMMA AgentShips ==
  ASSUME ShipInv, AgentStep
  PROVE  /\ AgentOrder' /\ UNCHANGED tableVars /\ logged' \in Nat
         /\ buf' \in Seq(Line) /\ batch' \in Seq(Line) /\ wire' \in [Links -> Seq(Item)]
  <1> DEFINE Goal == /\ AgentOrder' /\ logged' \in Nat /\ buf' \in Seq(Line) /\ batch' \in Seq(Line)
                     /\ wire' \in [Links -> Seq(Item)]
  <1>1. /\ RepTyped /\ AgentOrder
        /\ buf \in Seq(Line) /\ batch \in Seq(Line) /\ logged \in Nat /\ wire \in [Links -> Seq(Item)]
        /\ budget.loads \subseteq Loads /\ now \in Nat /\ cur \in 0 .. MaxStreams
        /\ budget.streams \in Nat /\ cur + budget.streams <= MaxStreams /\ MaxStreams \in Nat
    BY ReportsBounds DEF ShipInv, RepTyped, BudgetT
  <1>2. <<>> \in Seq(Line)
    OBVIOUS
  <1>3. UNCHANGED tableVars
    BY DEF AgentStep, Handle, Connect, SendLine, SendLineFails, ShipTick, noStats, StreamLost, Tick, sendStats,
           EvaluateAgentHealth, ReadStats, ReadAge, ReadFlaps, ReadErrors, Judged, reads
  <1>4. logs' = logs
    BY <1>3 DEF tableVars
  <1>5. ASSUME NEW bad \in BOOLEAN, Handle(bad)
        PROVE  Goal
    <2>1. logLine(bad) /\ batch' = batch /\ UNCHANGED <<wire, cur>>
      BY <1>5 DEF Handle
    <2> QED BY <1>1, <1>4, <2>1, LineLogged
  <1>6. ASSUME StreamLost PROVE Goal
    <2>1. logLine(TRUE) /\ batch' = batch /\ UNCHANGED <<wire, cur>>
      BY <1>6 DEF StreamLost
    <2> QED BY <1>1, <1>4, <2>1, LineLogged
  <1>7. ASSUME SendLineFails PROVE Goal
    <2>1. batch' = <<>> /\ UNCHANGED <<wire, cur>> /\ (logLine(TRUE) \/ UNCHANGED <<logged, buf>>)
      BY <1>7 DEF SendLineFails
    <2>2. CASE logLine(TRUE)
      BY <1>1, <1>2, <1>4, <2>1, <2>2, LineLogged
    <2>3. CASE UNCHANGED <<logged, buf>>
      <3>1. /\ Rising(batch') /\ AllOf(batch', "agent", 0) /\ Nums(batch') = {}
            /\ \A g \in Links : Passed(g)' = Passed(g) /\ RowNums("agent", g)' = RowNums("agent", g)
        BY <1>4, <2>1, NoLines, RowsStay DEF Passed
      <3>2. AgentOrder'
        BY <1>1, <2>1, <2>3, <3>1 DEF AgentOrder, Below
      <3> QED BY <1>1, <1>2, <2>1, <2>3, <3>2
    <2> QED BY <2>1, <2>2, <2>3
  <1>8. ASSUME Connect PROVE Goal
    <2> DEFINE b == Push(buf, Entry("agent", logged + 1, FALSE))
    <2>1. Drain(b) /\ logged' = logged + 1 /\ cur' = cur + 1 /\ wire' = wire /\ budget.streams > 0
      BY <1>8 DEF Connect
    <2>2. b \in Seq(Line) /\ Rising(b) /\ AllOf(b, "agent", 0) /\ Nums(b) \subseteq Nums(buf) \cup {logged + 1}
      BY <1>1, PushIs
    <2> HIDE DEF b
    <2>3. /\ logged' \in Nat /\ logged' >= logged /\ cur' \in 1 .. MaxStreams /\ cur' >= cur
          /\ 1 .. logged \subseteq 1 .. logged' /\ logged + 1 \in 1 .. logged'
      BY <1>1, <2>1
    <2>4. Nums(b) \subseteq 1 .. logged'
      BY <1>1, <2>2, <2>3 DEF AgentOrder
    <2>5. AgentOrder'
      BY <1>1, <1>4, <2>1, <2>2, <2>3, <2>4, Drained
    <2> QED BY <1>1, <1>2, <2>1, <2>2, <2>3, <2>5 DEF Drain
  <1>9. ASSUME ShipTick PROVE Goal
    <2>1. Drain(buf) /\ UNCHANGED <<logged, cur, wire>> /\ buf # <<>>
      BY <1>9 DEF ShipTick
    <2>2. CASE cur # 0
      <3>1. /\ cur' \in 1 .. MaxStreams /\ cur' >= cur /\ logged' >= logged /\ logged' \in Nat
            /\ Rising(buf) /\ AllOf(buf, "agent", 0)
            /\ Nums(buf) \subseteq Nums(buf) \cup {logged + 1} /\ Nums(buf) \subseteq 1 .. logged'
        BY <1>1, <2>1, <2>2 DEF AgentOrder
      <3>2. AgentOrder'
        BY <1>1, <1>4, <2>1, <3>1, Drained
      <3> QED BY <1>1, <1>2, <2>1, <3>2 DEF Drain
    <2>3. CASE cur = 0
      BY <1>1, <1>9, <2>3 DEF ShipTick, RepTyped
    <2> QED BY <2>2, <2>3
  <1>10. ASSUME SendLine PROVE Goal
    <2>1. UNCHANGED <<logged, buf>>
      BY <1>10 DEF SendLine
    <2> QED BY <1>1, <1>10, <2>1, SendStep
  <1>11. ASSUME noStats \/ Tick \/ EvaluateAgentHealth PROVE Goal
    <2>1. UNCHANGED <<buf, batch, logged, cur, wire>>
      BY <1>11 DEF noStats, Tick, EvaluateAgentHealth, ReadStats, ReadAge, ReadFlaps, ReadErrors, Judged, reads,
                   agentVars
    <2>2. \A g \in Links : /\ Rising(wire'[g]) /\ AllOf(wire'[g], "agent", g)
                           /\ Nums(wire'[g]) \cup RowNums("agent", g)' \subseteq Passed(g)
                           /\ Below(RowNums("agent", g)', Nums(wire'[g]))
      BY <1>1, <1>4, <2>1, RowsStay DEF Passed, AgentOrder
    <2> QED BY <1>1, <2>1, <2>2, MessagesMove
  <1>12. ASSUME NEW load \in budget.loads, sendStats(load)
         PROVE  Goal
    <2> DEFINE e == [load |-> load, time |-> now]
    <2>1. UNCHANGED <<buf, batch, logged, cur>> /\ wire' = [wire EXCEPT ![cur] = Append(@, e)]
      BY <1>12 DEF sendStats
    <2>2. e \in Stat
      BY <1>1 DEF Stat
    <2> HIDE DEF e
    <2>3. e \in Item /\ e \notin Line
      BY <2>2, Kinds DEF Item
    <2>4. wire' \in [Links -> Seq(Item)] /\ \A g \in Links : wire'[g] = wire[g] \/ wire'[g] = Append(wire[g], e)
      <3>1. cur \in Links
        BY <1>1, <1>12 DEF sendStats, RepTyped, Links
      <3>2. wire[cur] \in Seq(Item) /\ Append(wire[cur], e) \in Seq(Item)
        BY <1>1, <2>3, <3>1
      <3> QED BY <1>1, <2>1, <3>1, <3>2
    <2>5. \A g \in Links : /\ Rising(wire'[g]) /\ AllOf(wire'[g], "agent", g)
                           /\ Nums(wire'[g]) \subseteq Nums(wire[g])
      <3> TAKE g \in Links
      <3>1. wire[g] \in Seq(Item) /\ Rising(wire[g]) /\ AllOf(wire[g], "agent", g)
        BY <1>1 DEF AgentOrder
      <3>2. /\ Rising(Append(wire[g], e)) /\ AllOf(Append(wire[g], e), "agent", g)
            /\ Nums(Append(wire[g], e)) \subseteq Nums(wire[g])
        BY <2>3, <3>1, OneMore
      <3> QED BY <2>4, <3>1, <3>2
    <2>6. \A g \in Links : /\ Nums(wire'[g]) \cup RowNums("agent", g)' \subseteq Passed(g)
                           /\ Below(RowNums("agent", g)', Nums(wire'[g]))
      BY <1>1, <1>4, <2>5, RowsStay DEF Passed, AgentOrder, Below
    <2> QED BY <1>1, <2>1, <2>4, <2>5, <2>6, MessagesMove
  <1> QED BY <1>3, <1>5, <1>6, <1>7, <1>8, <1>9, <1>10, <1>11, <1>12 DEF AgentStep

(* What the server does: messages are taken and lines stored.              *)
ServerStep ==
    \/ SinkWrites \/ RefreshReads \/ RefreshSets
    \/ \E g \in Links : \/ registerAgent(g) \/ EnterConnected(g) \/ Reconnected(g)
                        \/ handleAgentLog(g) \/ SetAgentStats(g) \/ SetAgentStatsFails(g)
                        \/ handleAgentStats(g) \/ HandlerEnds(g)

(* The server takes messages in their order. *)
LEMMA ServerShips ==
  ASSUME ShipInv, ServerStep, StoringKnown
  PROVE  /\ AgentOrder' /\ ServerOrder' /\ RowOrder' /\ RowCount'
         /\ UNCHANGED <<logged, buf, batch>> /\ served' \in Nat
         /\ sink' \in Seq(Line) /\ wire' \in [Links -> Seq(Item)]
  <1> DEFINE Table == /\ ServerOrder' /\ RowOrder' /\ RowCount'
                      /\ served' \in Nat /\ sink' \in Seq(Line)
             Goal == AgentOrder' /\ Table /\ wire' \in [Links -> Seq(Item)]
  <1>1. /\ RepTyped /\ AgentOrder /\ ServerOrder /\ RowOrder /\ RowCount
        /\ wire \in [Links -> Seq(Item)] /\ sink \in Seq(Line) /\ served \in Nat
    BY DEF ShipInv, RepTyped
  <1>2. UNCHANGED <<logged, buf, batch, cur>>
    BY DEF ServerStep, SinkWrites, RefreshReads, RefreshSets, registerAgent, EnterConnected, Reconnected,
           handleAgentLog, SetAgentStats, SetAgentStatsFails, handleAgentStats, HandlerEnds, agentVars
  <1>3. ASSUME wire' = wire, logs' = logs PROVE AgentOrder' /\ wire' \in [Links -> Seq(Item)]
    <2>1. \A g \in Links : /\ Rising(wire'[g]) /\ AllOf(wire'[g], "agent", g)
                           /\ Nums(wire'[g]) \cup RowNums("agent", g)' \subseteq Passed(g)
                           /\ Below(RowNums("agent", g)', Nums(wire'[g]))
      BY <1>1, <1>3, RowsStay DEF Passed, AgentOrder
    <2> QED BY <1>1, <1>2, <1>3, <2>1, MessagesMove
  <1>4. ASSUME \/ RefreshReads \/ RefreshSets
               \/ \E g \in Links : registerAgent(g) \/ EnterConnected(g) \/ SetAgentStats(g)
        PROVE  Goal
    <2>1. UNCHANGED tableVars /\ wire' = wire
      BY <1>4 DEF RefreshReads, RefreshSets, registerAgent, EnterConnected, SetAgentStats
    <2>2. logs' = logs
      BY <2>1 DEF tableVars
    <2> QED BY <1>3, <2>1, <2>2, TableStays
  <1>5. ASSUME SinkWrites PROVE Goal
    <2>1. wire' = wire /\ served' = served
      BY <1>5 DEF SinkWrites
    <2> QED BY <1>1, <1>5, <2>1, SinkStep
  <1>6. ASSUME serverLog, UNCHANGED <<logs, inserted, unpruned>> PROVE Table
    <2>1. ServerOrder' /\ sink' \in Seq(Line) /\ served' \in Nat
      BY <1>1, <1>6, ServedLine, RowsStay
    <2> QED BY <1>1, <1>6, <2>1 DEF RowOrder, RowCount, Kept, positions
  <1>7. ASSUME NEW g \in Links, Reconnected(g) PROVE Goal
    <2>1. serverLog /\ UNCHANGED <<wire, logs, inserted, unpruned>>
      BY <1>7 DEF Reconnected
    <2> QED BY <1>3, <1>6, <2>1
  <1>8. ASSUME NEW g \in Links, handleAgentLog(g) PROVE Goal
    BY <1>1, <1>8, StoreStep
  <1>9. ASSUME NEW g \in Links, handleAgentStats(g) \/ SetAgentStatsFails(g) PROVE Goal
    <2>1. /\ wire[g] # <<>> /\ wire' = [wire EXCEPT ![g] = Tail(@)]
          /\ UNCHANGED tableVars \/ (serverLog /\ UNCHANGED <<logs, inserted, unpruned>>)
      BY <1>9 DEF handleAgentStats, SetAgentStatsFails, StoringKnown
    <2>2. /\ wire' \in [Links -> Seq(Item)]
          /\ \A k \in Links : /\ Rising(wire'[k]) /\ AllOf(wire'[k], "agent", k)
                              /\ Nums(wire'[k]) \subseteq Nums(wire[k])
      BY <1>1, <2>1, TakenFrom
    <2>3. logs' = logs /\ \A k \in Links : RowNums("agent", k)' = RowNums("agent", k)
      BY <2>1, RowsStay DEF tableVars
    <2>4. \A k \in Links : /\ Nums(wire'[k]) \cup RowNums("agent", k)' \subseteq Passed(k)
                           /\ Below(RowNums("agent", k)', Nums(wire'[k]))
      BY <1>1, <2>2, <2>3 DEF Passed, AgentOrder, Below
    <2>5. AgentOrder'
      BY <1>1, <1>2, <2>2, <2>4, MessagesMove
    <2> QED BY <1>6, <2>1, <2>2, <2>5, TableStays
  <1>10. ASSUME NEW g \in Links, HandlerEnds(g) PROVE Goal
    <2>1. serverLog /\ UNCHANGED <<logs, inserted, unpruned>> /\ wire' = [wire EXCEPT ![g] = <<>>]
      BY <1>10 DEF HandlerEnds
    <2>2. <<>> \in Seq(Item)
      OBVIOUS
    <2>3. wire' \in [Links -> Seq(Item)] /\ \A k \in Links : wire'[k] = wire[k] \/ wire'[k] = <<>>
      BY <1>1, <2>1, <2>2
    <2>4. \A k \in Links : RowNums("agent", k)' = RowNums("agent", k)
      BY <2>1, RowsStay
    <2>5. \A k \in Links : /\ Rising(wire'[k]) /\ AllOf(wire'[k], "agent", k)
                           /\ Nums(wire'[k]) \subseteq Nums(wire[k])
      BY <1>1, <2>3, NoLines DEF AgentOrder
    <2>6. \A k \in Links : /\ Nums(wire'[k]) \cup RowNums("agent", k)' \subseteq Passed(k)
                           /\ Below(RowNums("agent", k)', Nums(wire'[k]))
      BY <1>1, <2>4, <2>5 DEF Passed, AgentOrder, Below
    <2>7. AgentOrder'
      BY <1>1, <1>2, <2>5, <2>6, MessagesMove
    <2> QED BY <1>6, <2>1, <2>3, <2>7
  <1> QED BY <1>2, <1>4, <1>5, <1>7, <1>8, <1>9, <1>10 DEF ServerStep

(* No step brings the lines out of order. *)
LEMMA ShipSteps == ASSUME ShipInv, StoringKnown, ReportsNext PROVE ShipInv'
  <1>1. AgentStep \/ ServerStep
    BY DEF ReportsNext, AgentStep, ServerStep
  <1>2. RepTyped /\ buf \in Seq(Line) /\ batch \in Seq(Line) /\ logged \in Nat
    BY DEF ShipInv, RepTyped
  <1>3. /\ now' \in Nat /\ cur' \in 0 .. MaxStreams /\ budget' \in BudgetT
        /\ cur' + budget'.streams <= MaxStreams /\ (cur' = 0 => apc' = "down")
    BY <1>2, BudgetSteps
  <1>4. /\ AgentOrder' /\ ServerOrder' /\ RowOrder' /\ RowCount'
        /\ logged' \in Nat /\ buf' \in Seq(Line) /\ batch' \in Seq(Line) /\ served' \in Nat
        /\ sink' \in Seq(Line) /\ wire' \in [Links -> Seq(Item)]
    <2>1. CASE AgentStep
      BY <2>1, AgentShips, TableStays
    <2>2. CASE ServerStep
      BY <1>2, <2>2, ServerShips
    <2> QED BY <1>1, <2>1, <2>2
  <1>5. RepTyped'
    BY <1>3, <1>4 DEF RepTyped
  <1> QED BY <1>4, <1>5 DEF ShipInv

(* The other parts' steps leave all of it alone. *)
LEMMA ShipFrame == ASSUME ShipInv, UNCHANGED repVars PROVE ShipInv'
  <1>1. /\ UNCHANGED <<now, logged, buf, batch, cur, apc, wire, budget>> /\ UNCHANGED tableVars
    BY DEF repVars, agentVars
  <1>2. ServerOrder' /\ RowOrder' /\ RowCount' /\ sink' \in Seq(Line) /\ served' \in Nat
    BY <1>1, TableStays
  <1>3. logs' = logs
    BY <1>1 DEF tableVars
  <1>4. \A g \in Links : Passed(g)' = Passed(g) /\ RowNums("agent", g)' = RowNums("agent", g)
    BY <1>1, <1>3, RowsStay DEF Passed
  <1>5. AgentOrder'
    BY <1>1, <1>4 DEF ShipInv, AgentOrder
  <1>6. RepTyped'
    BY <1>1, <1>2 DEF ShipInv, RepTyped
  <1> QED BY <1>2, <1>5, <1>6 DEF ShipInv

(* No lines at first. *)
LEMMA ShipStarts == ReportsInit => ShipInv
  <1> SUFFICES ASSUME ReportsInit PROVE ShipInv
    OBVIOUS
  <1>1. /\ logs = {} /\ buf = <<>> /\ batch = <<>> /\ sink = <<>> /\ wire = [g \in Links |-> <<>>]
        /\ cur = 0 /\ now = 0 /\ logged = 0 /\ served = 0 /\ apc = "down"
        /\ inserted = [src \in Sources |-> 0] /\ unpruned = [src \in Sources |-> 0] /\ budget \in Budgets
    BY DEF ReportsInit, Sources
  <1>3. \A src, via : RowNums(src, via) = {}
    BY <1>1 DEF RowNums
  <1>4. \A g \in Links : wire[g] = <<>> /\ Passed(g) = {}
    BY <1>1, <1>3, NoLines DEF Passed
  <1>5. MaxStreams \in Nat /\ budget \in BudgetT
    BY <1>1, ReportsBounds DEF BudgetT
  <1>6. RepTyped
    <2>1. /\ <<>> \in Seq(Line) /\ <<>> \in Seq(Item) /\ budget.streams \in 0 .. MaxStreams
      BY <1>5 DEF BudgetT
    <2> QED BY <1>1, <1>5, <2>1 DEF RepTyped
  <1>7. AgentOrder
    BY <1>1, <1>3, <1>4, NoLines DEF AgentOrder, Below
  <1>8. ServerOrder
    BY <1>1, <1>3, NoLines DEF ServerOrder, Below
  <1>9. RowOrder
    BY <1>1, FS_EmptySet DEF RowOrder
  <1>10. RowCount
    <2>1. \A src \in Sources : positions(src) = {}
      BY <1>1 DEF positions
    <2>2. /\ inserted \in [Sources -> Nat] /\ unpruned \in [Sources -> Nat]
          /\ \A src \in Sources : inserted[src] = 0 /\ unpruned[src] = 0
      BY <1>1
    <2>3. 0 + 1 .. 0 = {} /\ ~ (0 > 0) /\ 0 - 0 <= History + 0 /\ 0 \in 0 .. 0
      BY ReportsCaps
    <2>4. \A src \in Sources : Kept(src, 0) /\ 0 \in 0 .. inserted[src]
      BY <2>1, <2>2, <2>3 DEF Kept
    <2> QED BY <2>2, <2>4 DEF RowCount
  <1> QED BY <1>6, <1>7, <1>8, <1>9, <1>10 DEF ShipInv

(* One list after another. *)
LEMMA Joined ==
  ASSUME NEW S, NEW s \in Seq(S), NEW t \in Seq(S)
  PROVE  /\ s \o t \in Seq(S) /\ Len(s \o t) = Len(s) + Len(t)
         /\ \A k \in 1 .. Len(s) : (s \o t)[k] = s[k]
         /\ \A k \in 1 .. Len(t) : (s \o t)[k + Len(s)] = t[k]
  <1>1. Len(s) \in Nat /\ Len(t) \in Nat
    OBVIOUS
  <1>2. \A k \in 1 .. Len(s) + Len(t) : (s \o t)[k] = IF k <= Len(s) THEN s[k] ELSE t[k - Len(s)]
    OBVIOUS
  <1>3. \A k \in 1 .. Len(s) : k \in 1 .. Len(s) + Len(t) /\ k <= Len(s)
    BY <1>1
  <1>4. \A k \in 1 .. Len(t) : /\ k + Len(s) \in 1 .. Len(s) + Len(t) /\ ~ (k + Len(s) <= Len(s))
                               /\ (k + Len(s)) - Len(s) = k
    BY <1>1
  <1>5. \A k \in 1 .. Len(t) : (s \o t)[k + Len(s)] = t[k]
    <2> TAKE k \in 1 .. Len(t)
    <2>1. (s \o t)[k + Len(s)] = t[(k + Len(s)) - Len(s)]
      BY <1>2, <1>4
    <2> QED BY <1>4, <2>1
  <1> QED BY <1>2, <1>3, <1>5

(* Where a line with a number can be, and that two such places are one.    *)
LEMMA ShipsOnce == ASSUME ShipInv PROVE ShippedOnce
  <1>1. /\ RepTyped /\ AgentOrder /\ RowOrder /\ RowCount /\ MaxStreams \in Nat
        /\ buf \in Seq(Line) /\ batch \in Seq(Line) /\ wire \in [Links -> Seq(Item)]
    BY ReportsBounds DEF ShipInv, RepTyped
  <1> DEFINE L == MaxStreams + 2
  <1>2. /\ Len(places) = L /\ places[1] = buf /\ places[2] = batch
        /\ \A g \in Links : places[g + 2] = wire[g]
    <2> DEFINE AnySeq == Seq(Item)
               a == <<buf, batch>>
    <2>1. buf \in AnySeq /\ batch \in AnySeq
      BY <1>1, LinesAreItems
    <2> HIDE DEF AnySeq
    <2>2. a \in Seq(AnySeq) /\ Len(a) = 2 /\ a[1] = buf /\ a[2] = batch
      BY <2>1
    <2>3. wire \in Seq(AnySeq) /\ Len(wire) = MaxStreams
      BY <1>1 DEF Links, AnySeq
    <2>4. places = a \o wire
      BY DEF places, a
    <2> DEFINE w == wire
    <2>5. w \in Seq(AnySeq) /\ Len(w) = MaxStreams /\ places = a \o w /\ \A g \in Links : w[g] = wire[g]
      BY <2>3, <2>4
    <2> HIDE DEF a, w, places
    <2>6. /\ a \o w \in Seq(AnySeq) /\ Len(a \o w) = Len(a) + Len(w)
          /\ \A k \in 1 .. Len(a) : (a \o w)[k] = a[k]
          /\ \A k \in 1 .. Len(w) : (a \o w)[k + Len(a)] = w[k]
      <3>1. a \in Seq(AnySeq) /\ w \in Seq(AnySeq)
        BY <2>2, <2>5
      <3> QED BY <3>1, Joined
    <2>7. /\ Len(places) = 2 + MaxStreams
          /\ \A k \in 1 .. 2 : places[k] = a[k]
          /\ \A k \in 1 .. MaxStreams : places[k + 2] = w[k]
      BY <2>2, <2>5, <2>6, Zenon
    <2>8. 1 \in 1 .. 2 /\ 2 \in 1 .. 2 /\ 2 + MaxStreams = MaxStreams + 2
      BY <1>1
    <2> QED BY <2>2, <2>5, <2>7, <2>8 DEF Links
  <1> HIDE DEF places
  <1>3. \A p \in 1 .. L : p = 1 \/ p = 2 \/ \E g \in Links : p = g + 2
    <2>1. ASSUME NEW p \in 1 .. L, p \notin {1, 2} PROVE p - 2 \in Links /\ p = (p - 2) + 2
      BY <1>1, <2>1 DEF Links
    <2> QED BY <2>1
  <1>4. ASSUME NEW n \in 1 .. logged PROVE copies(n) <= 1
    <2> DEFINE At(p, i) == /\ i \in Nat \ {0} /\ i <= Len(places[p]) /\ "n" \in DOMAIN places[p][i]
                           /\ places[p][i].src = "agent" /\ places[p][i].n = n
               C == {at \in (1 .. Len(places)) \X (1 .. 2 * (BufCap + History)) :
                        LET p == places[at[1]] i == at[2] IN
                        i <= Len(p) /\ "n" \in DOMAIN p[i] /\ p[i].src = "agent" /\ p[i].n = n}
               R == {r \in logs : r.src = "agent" /\ r.n = n}
    <2>1. ASSUME NEW s \in Seq(Item), NEW i \in Nat \ {0}, i <= Len(s), "n" \in DOMAIN s[i]
          PROVE  i \in DOMAIN s /\ s[i] \in Line /\ s[i].n \in Nums(s)
      <3>1. i \in DOMAIN s /\ s[i] \in Item
        BY <2>1
      <3>2. s[i] \in Line
        BY <2>1, <3>1, Kinds DEF Item
      <3> QED BY <3>1, <3>2 DEF Nums
    <2>2. ASSUME NEW s \in Seq(Item), Rising(s), NEW i \in Nat \ {0}, NEW j \in Nat \ {0}, i <= Len(s), j <= Len(s),
                 "n" \in DOMAIN s[i], "n" \in DOMAIN s[j], s[i].n = s[j].n
          PROVE  i = j
      <3>1. i \in DOMAIN s /\ s[i] \in Line /\ j \in DOMAIN s /\ s[j] \in Line /\ s[i].n \in Nat
        BY <2>1, <2>2 DEF Line
      <3>2. ~ (s[i].n < s[j].n) /\ ~ (s[j].n < s[i].n)
        BY <2>2, <3>1
      <3> QED BY <2>2, <3>1, <3>2 DEF Rising
    <2>3. buf \in Seq(Item) /\ batch \in Seq(Item) /\ \A g \in Links : wire[g] \in Seq(Item)
      BY <1>1, LinesAreItems
    <2>4. ASSUME NEW i, At(1, i) PROVE n \in Nums(buf)
      BY <1>2, <2>1, <2>3, <2>4
    <2>5. ASSUME NEW i, At(2, i) PROVE n \in Nums(batch)
      BY <1>2, <2>1, <2>3, <2>5
    <2>6. ASSUME NEW g \in Links, NEW i, At(g + 2, i) PROVE n \in Nums(wire[g]) /\ n \in Passed(g)
      BY <1>2, <2>1, <2>3, <2>6 DEF Passed
    <2>7. ASSUME NEW r \in R
          PROVE  /\ r \in logs /\ r.src = "agent" /\ r.n = n /\ r.pos \in Nat /\ r.via \in Links
                 /\ n \in RowNums("agent", r.via) /\ n \in Passed(r.via)
      <3>1. r \in logs /\ r \in RowT /\ r.src = "agent" /\ r.n = n
        BY <1>1 DEF RowOrder
      <3>2. r.via \in Links /\ r.pos \in Nat
        BY <1>1, <3>1 DEF RowOrder, RowT, Links
      <3> QED BY <3>1, <3>2 DEF RowNums, Passed
    <2>8. \A p \in 1 .. L : \A i : At(p, i) => p = 1 \/ p = 2 \/ \E g \in Links : p = g + 2 /\ n \in Passed(g)
      BY <1>3, <2>6
    <2> HIDE DEF At
    <2>9. n \in Nat /\ ~ (n < n)
      BY <1>1 DEF RepTyped
    <2>10. /\ ~ (n \in Nums(batch) /\ n \in Nums(buf))
           /\ \A g \in Links : n \in Passed(g) => n \notin Nums(batch) /\ n \notin Nums(buf)
           /\ \A g \in Links : ~ (n \in Nums(wire[g]) /\ n \in RowNums("agent", g))
      BY <1>1, <2>9 DEF AgentOrder, Below
    <2>11. \A g, h \in Links : n \in Passed(g) /\ n \in Passed(h) => g = h
      <3> SUFFICES ASSUME NEW g \in Links, NEW h \in Links, n \in Passed(g), n \in Passed(h), g < h PROVE FALSE
        BY DEF Links
      <3> QED BY <1>1, <2>9 DEF AgentOrder, Below
    <2>12. ASSUME NEW p \in 1 .. L, NEW i, NEW q \in 1 .. L, NEW j, At(p, i), At(q, j) PROVE p = q /\ i = j
      <3>1. p = q
        BY <2>4, <2>5, <2>8, <2>10, <2>11, <2>12
      <3>2. i \in Nat \ {0} /\ j \in Nat \ {0} /\ i <= Len(places[p]) /\ j <= Len(places[p])
            /\ "n" \in DOMAIN places[p][i] /\ "n" \in DOMAIN places[p][j] /\ places[p][i].n = places[p][j].n
        BY <2>12, <3>1 DEF At
      <3>3. places[p] \in Seq(Item) /\ Rising(places[p])
        BY <1>1, <1>2, <1>3, <2>3 DEF AgentOrder
      <3>4. i = j
        BY <2>2, <3>2, <3>3
      <3> QED BY <3>1, <3>4
    <2>13. \A x \in C : x[1] \in 1 .. L /\ At(x[1], x[2]) /\ x = <<x[1], x[2]>>
      BY <1>1, <1>2 DEF At
    <2>14. \A x, y \in C : x = y
      <3> TAKE x, y \in C
      <3>1. x[1] = y[1] /\ x[2] = y[2]
        BY <2>12, <2>13
      <3> QED BY <2>13, <3>1
    <2>15. \A r, s \in R : r = s
      <3> TAKE r, s \in R
      <3>1. r.via = s.via /\ r.src = s.src /\ r.n = n /\ s.n = n /\ r.pos \in Nat /\ s.pos \in Nat /\ r \in logs /\ s \in logs
        BY <2>7, <2>11
      <3>2. ~ (r.pos < s.pos) /\ ~ (s.pos < r.pos)
        BY <1>1, <2>9, <3>1 DEF RowOrder
      <3>3. r.pos = s.pos
        BY <3>1, <3>2
      <3> QED BY <1>1, <3>1, <3>3 DEF RowOrder
    <2>16. C = {} \/ R = {}
      <3> SUFFICES ASSUME NEW x \in C, NEW r \in R PROVE FALSE
        OBVIOUS
      <3>1. x[1] \in 1 .. L /\ At(x[1], x[2])
        BY <2>13
      <3>2. x[1] = 1 \/ x[1] = 2 \/ \E g \in Links : x[1] = g + 2
        BY <1>3, <3>1
      <3>3. r.via \in Links /\ n \in Passed(r.via) /\ n \in RowNums("agent", r.via)
        BY <2>7
      <3>4. n \notin Nums(batch) /\ n \notin Nums(buf)
        BY <2>10, <3>3
      <3>5. ASSUME NEW g \in Links, x[1] = g + 2 PROVE FALSE
        <4>1. n \in Nums(wire[g]) /\ n \in Passed(g)
          BY <2>6, <3>1, <3>5
        <4> QED BY <2>10, <2>11, <3>3, <4>1
      <3> QED BY <2>4, <2>5, <3>1, <3>2, <3>4, <3>5
    <2>17. copies(n) = Cardinality(C) + Cardinality(R)
      BY DEF copies
    <2> HIDE DEF C, R
    <2>18. (C = {} \/ \E x : C = {x}) /\ (R = {} \/ \E x : R = {x})
      <3>1. C = {} \/ \E x : C = {x}
        BY <2>14
      <3>2. R = {} \/ \E x : R = {x}
        BY <2>15
      <3> QED BY <3>1, <3>2
    <2>19. (C = {} => Cardinality(C) = 0) /\ (R = {} => Cardinality(R) = 0)
           /\ Cardinality(C) \in {0, 1} /\ Cardinality(R) \in {0, 1}
      BY <2>18, FS_EmptySet, FS_Singleton
    <2> QED BY <2>16, <2>17, <2>19
  <1> QED BY <1>1, <1>4 DEF ShippedOnce, RowOrder, RowCount, Kept, Sources

-----------------------------------------------------------------------------
(* The agent's health *)

(* A list in order is cut in two by a time.                                *)
LEMMA CutAt ==
  ASSUME NEW s \in Seq(Nat), \A i, j \in DOMAIN s : i < j => s[i] <= s[j], NEW c \in Int
  PROVE  \E k \in 0 .. Len(s) : /\ \A i \in 1 .. k : s[i] <= c
                                /\ \A i \in k + 1 .. Len(s) : s[i] > c
  <1> DEFINE T == {i \in 0 .. Len(s) : \A j \in i + 1 .. Len(s) : s[j] > c}
  <1>1. Len(s) \in Nat /\ DOMAIN s = 1 .. Len(s) /\ \A i \in 1 .. Len(s) : s[i] \in Nat
    OBVIOUS
  <1>2. T \in SUBSET Nat /\ Len(s) \in T
    BY <1>1
  <1>3. PICK k \in T : \A i \in T : k <= i
    BY <1>2, LeastNumber
  <1>4. k \in 0 .. Len(s) /\ \A i \in k + 1 .. Len(s) : s[i] > c
    BY <1>3
  <1>5. ASSUME NEW i \in 1 .. k PROVE s[i] <= c
    <2>1. k \in 1 .. Len(s) /\ i \in 1 .. Len(s) /\ k - 1 \in 0 .. Len(s) /\ ~ (k <= k - 1)
      BY <1>1, <1>4
    <2>2. k - 1 \notin T
      BY <1>3, <2>1
    <2>3. PICK j \in (k - 1) + 1 .. Len(s) : ~ (s[j] > c)
      BY <2>1, <2>2
    <2>4. j = k
      BY <1>1, <1>4, <2>1, <2>3
    <2>5. s[i] <= s[k]
      BY <1>1, <2>1
    <2> QED BY <1>1, <2>1, <2>3, <2>4, <2>5
  <1> QED BY <1>4, <1>5

(* What the loop of recordReconnect keeps of it is the later part.         *)
LEMMA RecentIs ==
  ASSUME NEW s \in Seq(Nat), NEW k \in 0 .. Len(s), now \in Nat,
         \A i \in 1 .. k : s[i] <= now - Window, \A i \in k + 1 .. Len(s) : s[i] > now - Window
  PROVE  recent(s) = SubSeq(s, k + 1, Len(s))
  <1> DEFINE Late(i) == s[i] > now - Window
             Rec(f) == f = [i \in 0 .. Len(s) |-> IF i = 0 THEN <<>>
                              ELSE IF Late(i) THEN Append(f[i - 1], s[i]) ELSE f[i - 1]]
             F == CHOOSE f : Rec(f)
             V(i) == IF i <= k THEN <<>> ELSE SubSeq(s, k + 1, i)
             W == [i \in 0 .. Len(s) |-> V(i)]
             P == {i \in Nat : i <= Len(s) => F[i] = W[i]}
  <1>1. recent(s) = F[Len(s)]
    BY DEF recent
  <1>2. Len(s) \in Nat /\ k \in Nat /\ Window \in Nat /\ \A i \in 1 .. Len(s) : s[i] \in Nat
    BY ReportsLimits
  <1>3. \A i \in 1 .. k : ~ Late(i)
    BY <1>2
  <1>4. \A i \in k + 1 .. Len(s) : Late(i)
    OBVIOUS
  <1> HIDE DEF Late
  <1>5. \A i \in 1 .. Len(s) : V(i) = IF Late(i) THEN Append(V(i - 1), s[i]) ELSE V(i - 1)
    <2> TAKE i \in 1 .. Len(s)
    <2>1. CASE i <= k
      BY <1>2, <1>3, <2>1
    <2>2. CASE i = k + 1
      <3>1. SubSeq(s, k + 1, k + 1) = Append(<<>>, s[k + 1])
        <4> DEFINE m == k + 1
        <4>1. m \in Nat /\ m \in 1 .. Len(s) /\ k = m - 1
          BY <1>2, <2>2
        <4> HIDE DEF m
        <4>2. SubSeq(s, m, m - 1) = <<>>
          BY <1>2, <4>1
        <4>3. SubSeq(s, m, m) = Append(SubSeq(s, m, m - 1), s[m])
          BY <1>2, <4>1
        <4> QED BY <4>2, <4>3 DEF m
      <3>2. ~ (i <= k) /\ i - 1 <= k /\ Late(i)
        BY <1>2, <1>4, <2>2
      <3> QED BY <2>2, <3>1, <3>2
    <2>3. CASE i > k + 1
      <3>1. SubSeq(s, k + 1, i) = Append(SubSeq(s, k + 1, i - 1), s[i])
        BY <1>2, <2>3
      <3>2. ~ (i <= k) /\ ~ (i - 1 <= k) /\ Late(i)
        BY <1>2, <1>4, <2>3
      <3> QED BY <3>1, <3>2
    <2> QED BY <1>2, <2>1, <2>2, <2>3
  <1>6. V(0) = <<>>
    BY <1>2
  <1>7. V(Len(s)) = SubSeq(s, k + 1, Len(s))
    <2>1. CASE Len(s) <= k
      <3>1. k = Len(s)
        BY <1>2, <2>1
      <3> QED BY <1>2, <2>1, <3>1
    <2> QED BY <2>1
  <1> HIDE DEF V
  <1>8. \A i \in 0 .. Len(s) : W[i] = V(i)
    OBVIOUS
  <1>9. \A i \in 0 .. Len(s) : i # 0 => i \in 1 .. Len(s) /\ i - 1 \in 0 .. Len(s)
    BY <1>2
  <1>10. Rec(W)
    <2>1. \A i \in 0 .. Len(s) :
             V(i) = IF i = 0 THEN <<>> ELSE IF Late(i) THEN Append(W[i - 1], s[i]) ELSE W[i - 1]
      BY <1>5, <1>6, <1>8, <1>9
    <2> QED BY <2>1
  <1>11. Rec(F)
    BY <1>10
  <1>12. \A i \in 0 .. Len(s) :
           F[i] = IF i = 0 THEN <<>> ELSE IF Late(i) THEN Append(F[i - 1], s[i]) ELSE F[i - 1]
    BY <1>11
  <1> HIDE DEF F, W
  <1>13. 0 \in P
    BY <1>2, <1>6, <1>8, <1>12
  <1>14. ASSUME NEW n \in P PROVE n + 1 \in P
    <2> SUFFICES ASSUME n + 1 <= Len(s) PROVE F[n + 1] = W[n + 1]
      OBVIOUS
    <2>1. /\ n \in Nat /\ F[n] = W[n] /\ n + 1 \in 1 .. Len(s) /\ (n + 1) - 1 = n /\ n + 1 \in 0 .. Len(s)
          /\ n \in 0 .. Len(s) /\ n + 1 # 0
      BY <1>2
    <2>2. F[n + 1] = IF Late(n + 1) THEN Append(F[n], s[n + 1]) ELSE F[n]
      BY <1>12, <2>1
    <2>3. V(n + 1) = IF Late(n + 1) THEN Append(V(n), s[n + 1]) ELSE V(n)
      BY <1>5, <2>1
    <2> QED BY <1>8, <2>1, <2>2, <2>3
  <1>15. P = Nat
    BY <1>13, <1>14, SetInduction
  <1>16. Len(s) \in 0 .. Len(s)
    BY <1>2
  <1>17. F[Len(s)] = V(Len(s))
    BY <1>2, <1>8, <1>15, <1>16
  <1> QED BY <1>1, <1>7, <1>17

(* The rest of a list. *)
LEMMA RestIs ==
  ASSUME NEW s \in Seq(Nat), NEW k \in 0 .. Len(s)
  PROVE  LET r == SubSeq(s, k + 1, Len(s)) IN
         r \in Seq(Nat) /\ Len(r) = Len(s) - k /\ \A i \in 1 .. Len(s) - k : r[i] = s[i + k]
  <1> DEFINE m == k + 1
             r == SubSeq(s, m, Len(s))
  <1>1. Len(s) \in Nat /\ m \in Nat \ {0} /\ m <= Len(s) + 1 /\ k = m - 1
    OBVIOUS
  <1> HIDE DEF m
  <1>2. CASE m = Len(s) + 1
    <2>1. r = <<>>
      BY <1>1, <1>2
    <2>2. Len(s) - k = 0 /\ 1 .. Len(s) - k = {}
      BY <1>1, <1>2
    <2> QED BY <2>1, <2>2 DEF m
  <1>3. CASE m \in 1 .. Len(s)
    <2>1. r \in Seq(Nat) /\ Len(r) = Len(s) - m + 1 /\ \A i \in 1 .. Len(s) - m + 1 : r[i] = s[m + i - 1]
      BY <1>1, <1>3
    <2> HIDE DEF r
    <2>2. Len(s) - m + 1 = Len(s) - k /\ \A i \in 1 .. Len(s) - k : m + i - 1 = i + k
      BY <1>1
    <2>3. r \in Seq(Nat) /\ Len(r) = Len(s) - k /\ \A i \in 1 .. Len(s) - k : r[i] = s[i + k]
      BY <2>1, <2>2
    <2> QED BY <2>3 DEF r, m
  <1> QED BY <1>1, <1>2, <1>3

(* A reconnection is noted, and those before its window are forgotten.     *)
LEMMA FlapNoted ==
  ASSUME HealthInv, NEW g \in Links, joined[g] = Never, recordReconnect,
         joined' = [joined EXCEPT ![g] = now], now' = now
  PROVE  FlapsKnown'
  <1>1. /\ now \in Nat /\ times \in Seq(Nat) /\ Len(times) \in Nat /\ DOMAIN times = 1 .. Len(times)
        /\ joined \in [Links -> Nat \cup {Never}] /\ Window \in Nat \ {0} /\ MaxStreams \in Nat
        /\ FlapsKnown /\ \A h \in Links : joined[h] <= now
    BY ReportsLimits, ReportsBounds DEF HealthInv, FlapsKnown, HandlersKnown
  <1>2. PICK k \in 0 .. Len(times) : /\ \A i \in 1 .. k : times[i] <= now - Window
                                     /\ \A i \in k + 1 .. Len(times) : times[i] > now - Window
    <2>1. \A i, j \in DOMAIN times : i < j => times[i] <= times[j]
      BY <1>1 DEF FlapsKnown
    <2>2. now - Window \in Int
      BY <1>1
    <2> QED BY <1>1, <2>1, <2>2, CutAt
  <1> DEFINE r == SubSeq(times, k + 1, Len(times))
             m == Len(times) - k
  <1>3. times' = Append(r, now) /\ count' = Len(times')
    BY <1>1, <1>2, RecentIs DEF recordReconnect
  <1>4. m \in Nat /\ r \in Seq(Nat) /\ Len(r) = m /\ \A i \in 1 .. m : i + k \in k + 1 .. Len(times) /\ r[i] = times[i + k]
    <2>1. r \in Seq(Nat) /\ Len(r) = m /\ \A i \in 1 .. m : r[i] = times[i + k]
      BY <1>1, RestIs
    <2>2. m \in Nat /\ \A i \in 1 .. m : i + k \in k + 1 .. Len(times)
      BY <1>1
    <2> QED BY <2>1, <2>2
  <1> HIDE DEF r
  <1>5. /\ times' \in Seq(Nat) /\ Len(times') = m + 1 /\ DOMAIN times' = 1 .. m + 1
        /\ \A i \in 1 .. m : times'[i] = r[i]
        /\ times'[m + 1] = now
    BY <1>1, <1>3, <1>4
  <1>6. k \in Nat /\ \A i \in k + 1 .. Len(times) : i \in DOMAIN times
    BY <1>1, <1>2
  <1> HIDE DEF m
  <1>7. \A i \in 1 .. m : /\ i + k \in DOMAIN times /\ times'[i] = times[i + k]
                          /\ times[i + k] > now - Window /\ times[i + k] <= now
    BY <1>1, <1>2, <1>4, <1>5, <1>6 DEF FlapsKnown
  <1>8. \A i \in 1 .. m + 1 : i \in 1 .. m \/ i = m + 1
    BY <1>4
  <1>9. \A i \in DOMAIN times' : times'[i] <= now' /\ times'[i] > now - Window
    BY <1>1, <1>5, <1>7, <1>8
  <1>10. \A i, j \in DOMAIN times' : i < j => times'[i] <= times'[j]
    <2> SUFFICES ASSUME NEW i \in 1 .. m + 1, NEW j \in 1 .. m + 1, i < j PROVE times'[i] <= times'[j]
      BY <1>5
    <2>1. i \in 1 .. m
      BY <1>4
    <2>2. CASE j \in 1 .. m
      <3>1. times[i + k] <= times[j + k]
        <4>1. i + k \in DOMAIN times /\ j + k \in DOMAIN times /\ i + k < j + k
          BY <1>6, <1>7, <2>1, <2>2
        <4> QED BY <1>1, <4>1 DEF FlapsKnown
      <3> QED BY <1>7, <2>1, <2>2, <3>1
    <2>3. CASE j = m + 1
      BY <1>5, <1>7, <2>1, <2>3
    <2> QED BY <1>8, <2>2, <2>3
  <1>11. joined' \in [Links -> Nat \cup {Never}] /\ joined'[g] = now /\ \A h \in Links \ {g} : joined'[h] = joined[h]
    BY <1>1
  <1>12. \A h \in Links : joined'[h] \in Int /\ joined'[h] <= now
    BY <1>1, <1>11 DEF Never
  <1>13. \A h \in Links, i \in DOMAIN times' : joined'[h] # Never => joined'[h] - Window < times'[i]
    <2> TAKE h \in Links, i \in DOMAIN times'
    <2>1. times'[i] \in Nat /\ times'[i] > now - Window
      BY <1>5, <1>9
    <2> QED BY <1>1, <1>12, <2>1
  <1>14. ASSUME NEW c \in Int, \A h \in Links : joined'[h] # Never => c >= joined'[h] - Window
         PROVE  Cardinality(TimesAfter(c)') = Cardinality(JoinedAfter(c)')
    <2>1. Never \notin Nat
      BY DEF Never
    <2>2. c >= now - Window /\ \A h \in Links : joined[h] # Never => c >= joined[h] - Window
      <3>1. now # Never
        BY <1>1, <2>1
      <3>2. c >= now - Window
        BY <1>11, <1>14, <3>1
      <3>3. ASSUME NEW h \in Links, joined[h] # Never PROVE c >= joined[h] - Window
        BY <1>11, <1>14, <3>3
      <3> QED BY <3>2, <3>3
    <2>3. Cardinality(TimesAfter(c)) = Cardinality(JoinedAfter(c))
      BY <1>1, <2>2 DEF FlapsKnown
    <2>4. IsFiniteSet(JoinedAfter(c)) /\ Cardinality(JoinedAfter(c)) \in Nat
      <3>1. IsFiniteSet(Links)
        BY <1>1, FS_Interval DEF Links
      <3>2. JoinedAfter(c) \in SUBSET Links
        BY DEF JoinedAfter
      <3>3. IsFiniteSet(JoinedAfter(c))
        BY <3>1, <3>2, FS_Subset
      <3> QED BY <3>3, FS_CardinalityType
    <2>5. IsFiniteSet(TimesAfter(c))
      <3>1. IsFiniteSet(1 .. Len(times))
        BY <1>1, FS_Interval
      <3>2. TimesAfter(c) \in SUBSET (1 .. Len(times))
        BY <1>1 DEF TimesAfter
      <3> QED BY <3>1, <3>2, FS_Subset
    <2>6. CASE now <= c
      <3>1. JoinedAfter(c)' = JoinedAfter(c)
        <4>1. \A h \in Links : (joined'[h] # Never /\ joined'[h] > c) <=> (joined[h] # Never /\ joined[h] > c)
          BY <1>1, <1>11, <2>6
        <4> QED BY <4>1 DEF JoinedAfter
      <3>2. TimesAfter(c)' = {}
        <4>1. \A i \in DOMAIN times' : ~ (times'[i] > c)
          BY <1>1, <1>5, <1>9, <2>6
        <4> QED BY <4>1 DEF TimesAfter
      <3>3. TimesAfter(c) = {}
        <4>1. \A i \in DOMAIN times : ~ (times[i] > c)
          BY <1>1, <2>6 DEF FlapsKnown
        <4> QED BY <4>1 DEF TimesAfter
      <3> QED BY <2>3, <3>1, <3>2, <3>3
    <2>7. CASE ~ (now <= c)
      <3>1. JoinedAfter(c)' = JoinedAfter(c) \cup {g} /\ g \notin JoinedAfter(c)
        <4>1. now # Never /\ now > c
          BY <1>1, <2>1, <2>7
        <4>2. \A h \in Links : (joined'[h] # Never /\ joined'[h] > c) <=> (h = g \/ (joined[h] # Never /\ joined[h] > c))
          BY <1>11, <4>1
        <4> QED BY <4>2 DEF JoinedAfter
      <3>2. Cardinality(JoinedAfter(c)') = Cardinality(JoinedAfter(c)) + 1
        BY <2>4, <3>1, FS_AddElement
      <3> DEFINE A == {i \in 1 .. m : times'[i] > c}
                 B == TimesAfter(c)
                 f == [i \in A |-> i + k]
      <3>3. TimesAfter(c)' = A \cup {m + 1} /\ m + 1 \notin A
        <4>1. times'[m + 1] > c
          BY <1>1, <1>5, <2>7
        <4>2. m + 1 \in 1 .. m + 1 /\ m + 1 \notin 1 .. m /\ \A i \in 1 .. m : i \in 1 .. m + 1
          BY <1>4
        <4>3. DOMAIN times' = 1 .. m + 1
          BY <1>4, <1>5, <1>8
        <4>4. TimesAfter(c)' = {i \in 1 .. m + 1 : times'[i] > c}
          BY <4>3 DEF TimesAfter
        <4>5. m + 1 \notin A
          BY <4>2
        <4> HIDE DEF A
        <4>6. \A i \in 1 .. m + 1 : i \in 1 .. m \/ i = m + 1
          BY <1>4
        <4>7. \A i : i \in A <=> i \in 1 .. m /\ times'[i] > c
          BY DEF A
        <4>8. \A i : i \in TimesAfter(c)' <=> i \in A \cup {m + 1}
          BY <4>1, <4>2, <4>4, <4>6, <4>7
        <4> QED BY <4>5, <4>8
      <3>4. IsFiniteSet(A)
        <4>1. IsFiniteSet(1 .. m)
          <5>1. 1 \in Int /\ m \in Int
            BY <1>4
          <5> HIDE DEF m
          <5> QED BY <5>1, FS_Interval
        <4> QED BY <4>1, FS_Subset
      <3>5. \A i \in A : f[i] \in B
        BY <1>7 DEF TimesAfter
      <3>6. \A i, j \in A : i # j => f[i] # f[j]
        BY <1>4, <1>6
      <3>7. \A j \in B : \E i \in A : f[i] = j
        <4> TAKE j \in B
        <4>1. j \in 1 .. Len(times) /\ times[j] > c /\ times[j] \in Nat
          BY <1>1 DEF TimesAfter
        <4>2. ~ (times[j] <= now - Window)
          BY <1>1, <2>2, <4>1
        <4>3. ~ (j \in 1 .. k)
          BY <1>2, <4>2
        <4>4. j - k \in 1 .. m /\ (j - k) + k = j
          BY <1>1, <1>6, <4>1, <4>3 DEF m
        <4>5. j - k \in A
          BY <1>7, <4>1, <4>4
        <4> QED BY <4>4, <4>5
      <3>8. f \in Bijection(A, B)
        BY <3>5, <3>6, <3>7 DEF Bijection, Injection, Surjection, IsInjective
      <3> HIDE DEF A, B, f
      <3>9. Cardinality(B) = Cardinality(A)
        BY <3>4, <3>8, FS_Bijection DEF ExistsBijection
      <3>10. Cardinality(TimesAfter(c)') = Cardinality(A) + 1
        BY <3>3, <3>4, FS_AddElement
      <3> QED BY <2>3, <3>2, <3>9, <3>10 DEF B
    <2> QED BY <2>6, <2>7
  <1>15. count' = Len(times')
    BY <1>3
  <1> QED BY <1>5, <1>9, <1>10, <1>13, <1>14, <1>15 DEF FlapsKnown

(* What a step leaves alone of it. *)
LEMMA FlapsStay ==
  ASSUME FlapsKnown, HandlersKnown, now \in Nat, now' \in Nat, now' >= now, UNCHANGED <<times, count, joined>>
  PROVE  FlapsKnown' /\ \A g \in Links : joined'[g] <= now'
  <1>1. \A c : TimesAfter(c)' = TimesAfter(c) /\ JoinedAfter(c)' = JoinedAfter(c)
    BY DEF TimesAfter, JoinedAfter
  <1>2. \A i \in DOMAIN times : times[i] \in Nat /\ times[i] <= now'
    BY DEF FlapsKnown
  <1>3. \A g \in Links : joined[g] \in Int /\ joined[g] <= now'
    BY DEF HandlersKnown, Never
  <1> QED BY <1>1, <1>2, <1>3 DEF FlapsKnown

(* The grade of a number against two limits. *)
LEMMA Grades ==
  ASSUME NEW v \in Int, NEW lo \in Nat, NEW hi \in Nat, lo < hi
  PROVE  /\ graded(v, <<lo, hi>>) \in {"healthy", "degraded", "unhealthy"}
         /\ graded(v, <<lo, hi>>) = "healthy" <=> v < lo
  BY DEF graded

(* updateWorstStatus gives the worse of two grades. *)
LEMMA Worst ==
  ASSUME NEW a \in {"healthy", "degraded", "unhealthy"}, NEW b \in {"healthy", "degraded", "unhealthy"}
  PROVE  /\ updateWorstStatus(a, b) \in {"healthy", "degraded", "unhealthy"}
         /\ updateWorstStatus(a, b) = "healthy" <=> a = "healthy" /\ b = "healthy"
  BY DEF updateWorstStatus, Order

(* How many streams were entered in the window of a time.                  *)
LEMMA FlapsCounted ==
  ASSUME HealthInv, NEW t \in Int, \A g \in Links : joined[g] <= t
  PROVE  /\ flapsBefore(t) <= count /\ flapsBefore(t) \in Nat
         /\ (\E g \in Links : joined[g] = t /\ t # Never) => flapsBefore(t) = count
  <1>1. /\ now \in Nat /\ FlapsKnown /\ HandlersKnown /\ times \in Seq(Nat) /\ Window \in Nat \ {0}
        /\ joined \in [Links -> Nat \cup {Never}] /\ count = Len(times) /\ Len(times) \in Nat
        /\ DOMAIN times = 1 .. Len(times) /\ \A g \in Links : joined[g] \in Int
    BY ReportsLimits DEF HealthInv, FlapsKnown, HandlersKnown, Never
  <1> DEFINE c == t - Window
  <1>2. c \in Int /\ \A g \in Links : joined[g] # Never => c >= joined[g] - Window
    BY <1>1
  <1>3. {g \in Links : joined[g] # Never /\ t - Window < joined[g] /\ joined[g] <= t} = JoinedAfter(c)
    BY <1>1 DEF JoinedAfter
  <1>4. flapsBefore(t) = Cardinality(TimesAfter(c))
    BY <1>1, <1>2, <1>3 DEF FlapsKnown, flapsBefore
  <1>5. IsFiniteSet(1 .. Len(times)) /\ Cardinality(1 .. Len(times)) = Len(times)
    <2> DEFINE n == Len(times)
    <2>1. n \in Nat /\ 1 \in Int /\ n \in Int
      BY <1>1
    <2> HIDE DEF n
    <2>2. IsFiniteSet(1 .. n) /\ Cardinality(1 .. n) = IF 1 > n THEN 0 ELSE n - 1 + 1
      BY <2>1, FS_Interval
    <2>3. Cardinality(1 .. n) = n
      BY <2>1, <2>2
    <2> QED BY <2>2, <2>3 DEF n
  <1>6. TimesAfter(c) \in SUBSET (1 .. Len(times))
    BY <1>1 DEF TimesAfter
  <1>7. Cardinality(TimesAfter(c)) <= Len(times) /\ Cardinality(TimesAfter(c)) \in Nat
    <2>1. IsFiniteSet(TimesAfter(c)) /\ Cardinality(TimesAfter(c)) <= Len(times)
      BY <1>5, <1>6, FS_Subset
    <2> QED BY <2>1, FS_CardinalityType
  <1>8. ASSUME NEW g \in Links, joined[g] = t, t # Never PROVE flapsBefore(t) = count
    <2>1. \A i \in 1 .. Len(times) : times[i] > c
      BY <1>1, <1>8 DEF FlapsKnown
    <2>2. TimesAfter(c) = 1 .. Len(times)
      BY <1>1, <2>1 DEF TimesAfter
    <2> QED BY <1>1, <1>4, <1>5, <2>2
  <1> QED BY <1>1, <1>4, <1>7, <1>8

(* The last reconnection. *)
LEMMA LastJoinIs ==
  ASSUME HealthInv, SomeJoined
  PROVE  /\ lastJoin \in Nat /\ \A g \in Links : joined[g] <= lastJoin
         /\ \E g \in Links : joined[g] = lastJoin
  <1> PICK c \in Links : joined[c] # Never
    BY DEF SomeJoined
  <1>1. /\ joined \in [Links -> Nat \cup {Never}] /\ now \in Nat
        /\ \A g \in Links : joined[g] \in Int /\ joined[g] <= now
    BY ReportsBounds DEF HealthInv, HandlersKnown, Links, Never
  <1> DEFINE U == {now - joined[g] : g \in Links}
  <1>2. U \in SUBSET Nat /\ U # {}
    BY <1>1
  <1>3. PICK u \in U : \A v \in U : u <= v
    BY <1>2, LeastNumber
  <1>4. PICK h \in Links : u = now - joined[h]
    BY <1>3
  <1>5. ASSUME NEW g \in Links PROVE joined[g] <= joined[h]
    <2>1. now - joined[h] <= now - joined[g]
      BY <1>3, <1>4
    <2> QED BY <1>1, <2>1
  <1> DEFINE NoLater(t) == \A g \in Links : joined[g] <= t
  <1>6. \E t \in {joined[g] : g \in Links} : NoLater(t)
    BY <1>5
  <1>7. lastJoin \in {joined[g] : g \in Links} /\ NoLater(lastJoin)
    BY <1>6 DEF lastJoin
  <1>8. PICK g \in Links : lastJoin = joined[g]
    BY <1>7
  <1>9. joined[c] \in Nat /\ joined[c] <= joined[g]
    BY <1>1, <1>7, <1>8
  <1>10. joined[g] \in Nat
    BY <1>1, <1>9
  <1> QED BY <1>7, <1>8, <1>10

(* The number of error lines is a number. *)
LEMMA ErrorsCounted == ASSUME ShipInv PROVE errorCount \in Nat
  <1> DEFINE E == {r \in logs : r.src = "agent" /\ r.bad /\ r.time >= now - Window}
  <1>1. IsFiniteSet(logs) /\ E \in SUBSET logs
    BY DEF ShipInv, RowOrder
  <1> HIDE DEF E
  <1>2. Cardinality(E) \in Nat
    BY <1>1, FS_Subset, FS_CardinalityType
  <1> QED BY <1>2 DEF E, errorCount

LimitsAre ==
    /\ StaleAfter = <<StaleAfter[1], StaleAfter[2]>> /\ StaleAfter[1] \in Nat /\ StaleAfter[2] \in Nat
    /\ StaleAfter[1] < StaleAfter[2] /\ 0 < StaleAfter[1]
    /\ FlapsFor = <<FlapsFor[1], FlapsFor[2]>> /\ FlapsFor[1] \in Nat /\ FlapsFor[2] \in Nat /\ FlapsFor[1] < FlapsFor[2]
    /\ 0 < FlapsFor[1] /\ 0 < ErrorsFor[1]
    /\ ErrorsFor = <<ErrorsFor[1], ErrorsFor[2]>> /\ ErrorsFor[1] \in Nat /\ ErrorsFor[2] \in Nat
    /\ ErrorsFor[1] < ErrorsFor[2]
(* The limits are pairs of numbers. *)
LEMMA Limits == LimitsAre
  <1>1. \A l \in {StaleAfter, FlapsFor, ErrorsFor} :
            l = <<l[1], l[2]>> /\ l[1] \in Nat /\ l[2] \in Nat /\ l[1] < l[2] /\ 0 < l[1]
    BY ReportsLimits
  <1> QED BY <1>1 DEF LimitsAre

(* The copy is read. *)
LEMMA StatsRead ==
  ASSUME HealthInv, ReadStats
  PROVE  EvalKnown'
  <1> DEFINE s == getLatestAgentStats
             h == heard[conn]
             v == host[s.load]
             b == conn \in reread
             e == [NoVerdictYet EXCEPT !.pc = "age", !.stats = s, !.level = v, !.heard = h, !.given = b]
  <1>1. /\ eval' = IF (IF s = NoStats THEN FALSE ELSE s.load # "unmeasured") THEN e ELSE NoVerdictYet
        /\ joined' = joined /\ fineAt' = fineAt
    BY DEF ReadStats, reads, historyVars
  <1> USE DEF LimitsAre
  <1>2. LimitsAre
    BY Limits
  <1>3. /\ NoVerdictYet \in EvalT /\ NoVerdictYet.pc = "idle" /\ NoVerdictYet.age = 0 /\ NoVerdictYet.late = FALSE
        /\ NoVerdictYet.flapped = 0 /\ NoVerdictYet.errors = 0
    BY DEF NoVerdictYet, EvalT
  <1>4. ASSUME s # NoStats, s.load # "unmeasured" PROVE e \in EvalT /\ EvalOK(e) /\ Received(e.stats) /\ SomeJoined
    <2>1. /\ StatsKnown /\ HandlersKnown /\ MaxStreams \in Nat /\ conn \in 0 .. MaxStreams
          /\ mem \in [Links -> Stat \cup {NoStats}] /\ heard \in [Links -> Stat \cup {NoStats}]
      BY ReportsBounds DEF HealthInv, StatsKnown, HandlersKnown
    <2>2. conn # 0 /\ s = mem[conn]
      BY <1>4 DEF getLatestAgentStats
    <2>3. conn \in Links
      BY <2>1, <2>2 DEF Links
    <2>4. s \in Stat /\ Received(s) /\ SomeJoined
      BY <1>4, <2>1, <2>2, <2>3 DEF StatsKnown, HandlersKnown
    <2>5. s.load \in {"fine", "busy", "overrun"}
      BY <1>4, <2>4 DEF Stat, Loads
    <2>6. heard[conn] # NoStats /\ conn \notin reread => heard[conn] = s
      BY <2>1, <2>2, <2>3 DEF StatsKnown
    <2>7. heard[conn] \in Stat \cup {NoStats} /\ (conn \in reread) \in BOOLEAN
      BY <2>1, <2>3
    <2>8. host[s.load] \in Levels /\ (host[s.load] = "healthy" <=> s.load = "fine")
      BY <2>5 DEF host, Levels
    <2> HIDE DEF s, h, v, b
    <2>9. s \in Stat /\ v \in Levels /\ h \in Stat \cup {NoStats} /\ b \in BOOLEAN
      BY <2>4, <2>7, <2>8 DEF h, v, b
    <2>10. /\ e \in EvalT /\ e.pc = "age" /\ e.stats = s /\ e.level = v /\ e.heard = h /\ e.given = b
           /\ e.age = 0 /\ e.late = FALSE /\ e.flapped = 0 /\ e.errors = 0
      BY <1>3, <2>9 DEF EvalT
    <2> HIDE DEF e
    <2>11. EvalOK(e)
      <3>2. h # NoStats /\ ~ b => h = s
        BY <2>6 DEF h, b
      <3>3. v \in Levels /\ (v = "healthy" <=> s.load = "fine")
        BY <2>8 DEF v
      <3>4. 0 <= StaleAfter[1]
        BY <1>2
      <3> QED BY <2>4, <2>10, <3>2, <3>3, <3>4, Zenon DEF EvalOK, Grounds
    <2>12. Received(e.stats)
      BY <2>4, <2>10
    <2> QED BY <2>4, <2>10, <2>11, <2>12
  <1>5. eval' = NoVerdictYet \/ (eval' = e /\ s # NoStats /\ s.load # "unmeasured")
    BY <1>1
  <1> HIDE DEF e, s
  <1>6. eval' \in EvalT /\ (eval'.pc # "idle" => EvalOK(eval') /\ Received(eval'.stats) /\ SomeJoined)
    BY <1>3, <1>4, <1>5
  <1> QED BY <1>1, <1>6 DEF EvalKnown, Received, SomeJoined

(* The age of the statistics is read. *)
LEMMA AgeRead ==
  ASSUME HealthInv, ReadAge
  PROVE  EvalKnown'
  <1> DEFINE stale == graded(now - eval.stats.time, <<StaleAfter[1] + 1, StaleAfter[2] + 1>>)
             v == updateWorstStatus(eval.level, stale)
             late == IF eval.heard = NoStats THEN FALSE ELSE now - eval.heard.time > StaleAfter[1]
             e == [eval EXCEPT !.pc = "flaps", !.level = v, !.age = now - fineAt, !.late = late]
             f == [eval EXCEPT !.pc = "flaps"]
  <1>1. eval.pc = "age" /\ (eval' = f \/ eval' = e) /\ joined' = joined /\ fineAt' = fineAt
    BY DEF ReadAge, reads, historyVars
  <1> USE DEF LimitsAre
  <1>2. LimitsAre
    BY Limits
  <1>3. /\ eval \in EvalT /\ EvalOK(eval) /\ Received(eval.stats) /\ SomeJoined /\ now \in Nat
        /\ fineAt \in Nat \cup {Never} /\ fineAt \in Int
    BY <1>1 DEF HealthInv, EvalKnown, StatsKnown, Never
  <1>4. f \in EvalT /\ EvalOK(f) /\ Received(f.stats)
    <2>1. f \in EvalT /\ \A k \in {"stats", "level", "heard", "given", "age", "late", "flaps", "flapped", "errors"} : f[k] = eval[k]
      BY <1>3 DEF EvalT
    <2>2. f.pc = "flaps"
      BY <1>3 DEF EvalT
    <2> HIDE DEF f
    <2> QED BY <1>1, <1>3, <2>1, <2>2 DEF EvalOK, Grounds, Received
  <1>5. e \in EvalT /\ EvalOK(e) /\ Received(e.stats)
    <2>1. /\ eval.stats \in Stat /\ eval.stats.time \in Nat /\ eval.level \in Levels /\ eval.heard \in Stat \cup {NoStats}
          /\ now - eval.stats.time \in Int
      BY <1>3 DEF EvalOK, EvalT, Stat
    <2>2. stale \in Levels /\ (stale = "healthy" <=> now - eval.stats.time < StaleAfter[1] + 1)
      <3>1. StaleAfter[1] + 1 \in Nat /\ StaleAfter[2] + 1 \in Nat /\ StaleAfter[1] + 1 < StaleAfter[2] + 1
        BY <1>2
      <3> QED BY <2>1, <3>1, Grades DEF Levels
    <2>3. v \in Levels /\ (v = "healthy" <=> eval.level = "healthy" /\ stale = "healthy")
      BY <2>1, <2>2, Worst DEF Levels
    <2>4. late \in BOOLEAN /\ now - fineAt \in Int
      <3>1. (now - eval.heard.time > StaleAfter[1]) \in BOOLEAN
        OBVIOUS
      <3>2. now - fineAt \in Int
        BY <1>3
      <3> QED BY <3>1, <3>2
    <2> HIDE DEF stale, v, late
    <2>5. /\ e \in EvalT /\ e.pc = "flaps" /\ e.level = v /\ e.age = now - fineAt /\ e.late = late
          /\ e.stats = eval.stats /\ e.heard = eval.heard /\ e.given = eval.given /\ e.flaps = eval.flaps
          /\ e.flapped = eval.flapped /\ e.errors = eval.errors
      BY <1>3, <2>3, <2>4 DEF EvalT
    <2> HIDE DEF e
    <2>6. ASSUME v = "healthy" PROVE eval.stats.load = "fine" /\ now - fineAt <= StaleAfter[1]
      <3>1. eval.stats.load = "fine" /\ now - eval.stats.time < StaleAfter[1] + 1
        BY <1>3, <2>2, <2>3, <2>6 DEF EvalOK
      <3>2. eval.stats.time <= fineAt
        BY <1>3, <2>1, <3>1, ReportsNone DEF Received, Stat
      <3> QED BY <1>2, <1>3, <2>1, <3>1, <3>2
    <2>7. ASSUME v # "healthy" PROVE Grounds(e)
      <3>1. CASE eval.level # "healthy"
        BY <1>1, <1>3, <2>5, <3>1 DEF EvalOK, Grounds
      <3>2. CASE stale # "healthy"
        <4>1. now - eval.stats.time > StaleAfter[1]
          BY <1>2, <2>1, <2>2, <3>2
        <4>2. eval.heard = NoStats \/ eval.given \/ eval.heard = eval.stats
          BY <1>3 DEF EvalOK
        <4> QED BY <2>5, <4>1, <4>2 DEF Grounds, late
      <3> QED BY <2>3, <2>7, <3>1, <3>2
    <2>8. EvalOK(e)
      BY <1>1, <1>3, <2>1, <2>3, <2>5, <2>6, <2>7 DEF EvalOK
    <2> QED BY <1>3, <2>5, <2>8
  <1> HIDE DEF e, f
  <1>6. eval' \in EvalT /\ EvalOK(eval') /\ Received(eval'.stats) /\ SomeJoined
    BY <1>1, <1>3, <1>4, <1>5
  <1> QED BY <1>1, <1>6 DEF EvalKnown, Received, SomeJoined

(* The reconnections are read. *)
LEMMA FlapsRead ==
  ASSUME HealthInv, ReadFlaps
  PROVE  EvalKnown'
  <1> DEFINE flap == graded(count, FlapsFor)
             v == updateWorstStatus(eval.level, flap)
             now1 == flapsBefore(now)
             last == flapsBefore(lastJoin)
             e == [eval EXCEPT !.pc = "errors", !.level = v, !.flaps = now1, !.flapped = last]
  <1>1. eval.pc = "flaps" /\ eval' = e /\ joined' = joined /\ fineAt' = fineAt
    BY DEF ReadFlaps, reads, historyVars
  <1> USE DEF LimitsAre
  <1>2. LimitsAre
    BY Limits
  <1>3. /\ eval \in EvalT /\ EvalOK(eval) /\ Received(eval.stats) /\ SomeJoined /\ now \in Nat
        /\ count \in Nat
    BY <1>1 DEF HealthInv, EvalKnown, FlapsKnown
  <1>4. flap \in Levels /\ (flap = "healthy" <=> count < FlapsFor[1])
    <2>1. graded(count, <<FlapsFor[1], FlapsFor[2]>>) \in Levels
          /\ (graded(count, <<FlapsFor[1], FlapsFor[2]>>) = "healthy" <=> count < FlapsFor[1])
      BY <1>2, <1>3, Grades DEF Levels
    <2> QED BY <1>2, <2>1
  <1>5. v \in Levels /\ (v = "healthy" <=> eval.level = "healthy" /\ flap = "healthy")
    BY <1>3, <1>4, Worst DEF Levels, EvalOK
  <1>6. now1 \in Nat /\ now1 <= count
    <2>1. now \in Int /\ \A g \in Links : joined[g] <= now
      BY <1>3 DEF HealthInv, HandlersKnown
    <2> QED BY <2>1, FlapsCounted
  <1>7. last = count
    <2>1. /\ lastJoin \in Nat /\ lastJoin # Never /\ \A g \in Links : joined[g] <= lastJoin
          /\ \E g \in Links : joined[g] = lastJoin
      BY <1>3, LastJoinIs DEF Never
    <2> HIDE DEF lastJoin
    <2> QED BY <2>1, FlapsCounted
  <1> HIDE DEF flap, v, now1, last
  <1>8. /\ e \in EvalT /\ e.pc = "errors" /\ e.level = v /\ e.flaps = now1 /\ e.flapped = last
        /\ e.stats = eval.stats /\ e.heard = eval.heard /\ e.given = eval.given /\ e.age = eval.age
        /\ e.late = eval.late /\ e.errors = eval.errors
    BY <1>3, <1>5, <1>6, <1>7 DEF EvalT
  <1> HIDE DEF e
  <1>9. ASSUME v # "healthy" PROVE Grounds(e)
    <2>1. CASE eval.level # "healthy"
      BY <1>1, <1>2, <1>3, <1>8, <2>1 DEF EvalOK, Grounds
    <2>2. CASE flap # "healthy"
      BY <1>2, <1>3, <1>4, <1>7, <1>8, <2>2 DEF Grounds
    <2> QED BY <1>5, <1>9, <2>1, <2>2
  <1>10. EvalOK(e)
    <2>1. v = "healthy" => e.flaps < FlapsFor[1]
      BY <1>2, <1>3, <1>4, <1>5, <1>6, <1>8
    <2> QED BY <1>1, <1>3, <1>5, <1>8, <1>9, <2>1 DEF EvalOK
  <1>11. eval' \in EvalT /\ EvalOK(eval') /\ Received(eval'.stats) /\ SomeJoined
    BY <1>1, <1>3, <1>8, <1>10
  <1> QED BY <1>1, <1>11 DEF EvalKnown, Received, SomeJoined

(* The errors are read, or are not. *)
LEMMA ErrorsRead ==
  ASSUME ShipInv, HealthInv, ReadErrors
  PROVE  EvalKnown'
  <1> DEFINE bad == graded(errorCount, ErrorsFor)
             v == updateWorstStatus(eval.level, bad)
             k == errorCount
             e == [eval EXCEPT !.pc = "done", !.level = v, !.errors = k]
             f == [eval EXCEPT !.pc = "done"]
  <1>1. eval.pc = "errors" /\ (eval' = e \/ eval' = f) /\ joined' = joined /\ fineAt' = fineAt
    BY DEF ReadErrors, reads, historyVars
  <1> USE DEF LimitsAre
  <1>2. LimitsAre /\ k \in Nat
    BY Limits, ErrorsCounted
  <1>3. eval \in EvalT /\ EvalOK(eval) /\ Received(eval.stats) /\ SomeJoined
    BY <1>1 DEF HealthInv, EvalKnown
  <1>4. bad \in Levels /\ (bad = "healthy" <=> k < ErrorsFor[1])
    <2> HIDE DEF k
    <2>1. graded(k, <<ErrorsFor[1], ErrorsFor[2]>>) \in Levels
          /\ (graded(k, <<ErrorsFor[1], ErrorsFor[2]>>) = "healthy" <=> k < ErrorsFor[1])
      BY <1>2, Grades DEF Levels
    <2> QED BY <1>2, <2>1 DEF k
  <1>5. v \in Levels /\ (v = "healthy" <=> eval.level = "healthy" /\ bad = "healthy")
    BY <1>3, <1>4, Worst DEF Levels, EvalOK
  <1> HIDE DEF bad, v, k
  <1>6. /\ f \in EvalT /\ f.pc = "done" /\ f.level = eval.level /\ f.flaps = eval.flaps /\ f.flapped = eval.flapped
        /\ f.stats = eval.stats /\ f.heard = eval.heard /\ f.given = eval.given /\ f.age = eval.age
        /\ f.late = eval.late /\ f.errors = eval.errors
    BY <1>3 DEF EvalT
  <1>7. /\ e \in EvalT /\ e.pc = "done" /\ e.level = v /\ e.flaps = eval.flaps /\ e.flapped = eval.flapped
        /\ e.stats = eval.stats /\ e.heard = eval.heard /\ e.given = eval.given /\ e.age = eval.age
        /\ e.late = eval.late /\ e.errors = k
    BY <1>2, <1>3, <1>5 DEF EvalT
  <1> HIDE DEF e, f
  <1>8. EvalOK(f)
    BY <1>1, <1>3, <1>6 DEF EvalOK, Grounds
  <1>9. ASSUME v # "healthy" PROVE Grounds(e)
    <2>1. CASE eval.level # "healthy"
      BY <1>1, <1>2, <1>3, <1>7, <2>1 DEF EvalOK, Grounds
    <2>2. CASE bad # "healthy"
      BY <1>2, <1>4, <1>7, <2>2 DEF Grounds
    <2> QED BY <1>5, <1>9, <2>1, <2>2
  <1>10. EvalOK(e)
    BY <1>1, <1>3, <1>5, <1>7, <1>9 DEF EvalOK
  <1>11. eval' \in EvalT /\ EvalOK(eval') /\ Received(eval'.stats) /\ SomeJoined
    BY <1>1, <1>3, <1>6, <1>7, <1>8, <1>10
  <1> QED BY <1>1, <1>11 DEF EvalKnown, Received, SomeJoined

(* A verdict under way stays as it is while the newest good statistics     *)
(* and the reconnections on record only grow.                              *)
LEMMA EvalStays ==
  ASSUME HealthInv, eval' = eval, fineAt' \in Int, fineAt' >= fineAt, SomeJoined => SomeJoined'
  PROVE  EvalKnown'
  <1>1. EvalKnown /\ fineAt \in Int
    BY DEF HealthInv, StatsKnown, Never
  <1>2. ASSUME eval.pc # "idle" PROVE Received(eval.stats)'
    <2>1. EvalOK(eval) /\ Received(eval.stats) /\ eval.stats \in Stat /\ eval.stats.time \in Nat
      BY <1>1, <1>2 DEF EvalKnown, EvalOK, Stat
    <2> QED BY <1>1, <2>1 DEF Received
  <1>3. (EvalOK(eval))' <=> EvalOK(eval)
    BY DEF EvalOK, Grounds
  <1> QED BY <1>1, <1>2, <1>3 DEF EvalKnown

(* Every step keeps what the verdict rests on. *)
LEMMA HealthSteps == ASSUME ShipInv, HealthInv, ReportsNext PROVE HealthInv'
  <1>1. /\ now \in Nat /\ StatsKnown /\ StoringKnown /\ HandlersKnown /\ FlapsKnown /\ EvalKnown /\ MaxStreams \in Nat
        /\ wire \in [Links -> Seq(Item)] /\ fineAt \in Int
    BY ReportsBounds DEF HealthInv, ShipInv, RepTyped, StatsKnown, Never
  <1>2. NoStats \notin Stat /\ NoStats \notin [stats : Stat \cup {NoStats}, of : Links]
    BY ReportsNone DEF Stat
  <1>3. ASSUME now' \in Nat, now' >= now, UNCHANGED <<times, count, joined>>
        PROVE  FlapsKnown' /\ \A g \in Links : joined'[g] <= now'
    BY <1>1, <1>3, FlapsStay
  <1>4. ASSUME UNCHANGED <<fineAt, reread, record, mem, heard, fresh>> PROVE StatsKnown'
    BY <1>1, <1>4 DEF StatsKnown, Received
  <1>5. ASSUME UNCHANGED <<handler, joined, conn, heard, mem, record, fresh>>, \A g \in Links : joined'[g] <= now'
        PROVE  HandlersKnown'
    BY <1>1, <1>5 DEF HandlersKnown, SomeJoined
  <1>6. ASSUME UNCHANGED <<eval, joined, fineAt>> PROVE EvalKnown'
    <2>1. SomeJoined => SomeJoined'
      BY <1>6 DEF SomeJoined
    <2> QED BY <1>1, <1>6, <2>1, EvalStays
  <1>7. ASSUME UNCHANGED fineAt, NEW K \in SUBSET Links,
               \A g \in Links : handler'[g] = "storing" => g \in K /\ handler[g] = "storing",
               \A g \in K : wire'[g] = wire[g] \/ (\E e \in Item : wire'[g] = Append(wire[g], e))
        PROVE  StoringKnown'
    <2> SUFFICES ASSUME NEW g \in Links, handler'[g] = "storing"
                 PROVE  wire'[g] # <<>> /\ Head(wire'[g]) \in Stat /\ Received(Head(wire[g]))'
      BY DEF StoringKnown
    <2>1. g \in K /\ wire[g] # <<>> /\ Head(wire[g]) \in Stat /\ Received(Head(wire[g])) /\ wire[g] \in Seq(Item)
      BY <1>1, <1>7 DEF StoringKnown
    <2>2. wire'[g] # <<>> /\ Head(wire'[g]) = Head(wire[g])
      <3>1. CASE wire'[g] = wire[g]
        BY <2>1, <3>1
      <3>2. CASE \E e \in Item : wire'[g] = Append(wire[g], e)
        <4>1. PICK e \in Item : wire'[g] = Append(wire[g], e)
          BY <3>2
        <4> DEFINE w == wire[g]
        <4>2. w \in Seq(Item) /\ w # <<>>
          BY <2>1
        <4> HIDE DEF w
        <4>3. Append(w, e) # <<>> /\ Head(Append(w, e)) = Head(w)
          BY <4>2
        <4> QED BY <4>1, <4>3 DEF w
      <3> QED BY <1>7, <2>1, <3>1, <3>2
    <2> QED BY <1>7, <2>1, <2>2 DEF Received
  <1>8. now' = now => now' \in Nat /\ now' >= now
    BY <1>1
  <1>9. CASE EvaluateAgentHealth
    <2>1. UNCHANGED <<now, agentVars, wire, serverVars, tableVars, historyVars>>
      BY <1>9 DEF EvaluateAgentHealth, ReadStats, ReadAge, ReadFlaps, ReadErrors, Judged, reads
    <2>2. /\ UNCHANGED <<now, wire, handler, conn, record, mem, times, count, fresh>>
          /\ UNCHANGED <<joined, heard, reread, fineAt>>
      BY <2>1 DEF serverVars, historyVars
    <2>3. EvalKnown'
      <3>1. CASE Judged
        <4>1. eval' = NoVerdictYet
          BY <3>1 DEF Judged, reads
        <4>2. NoVerdictYet \in EvalT /\ NoVerdictYet.pc = "idle"
          BY DEF NoVerdictYet, EvalT
        <4> QED BY <4>1, <4>2 DEF EvalKnown
      <3> QED BY <1>9, <3>1, StatsRead, AgeRead, FlapsRead, ErrorsRead DEF EvaluateAgentHealth
    <2>4. StoringKnown'
      BY <1>7, <2>2
    <2> QED BY <1>3, <1>4, <1>5, <1>8, <2>2, <2>3, <2>4 DEF HealthInv
  <1>10. CASE AgentStep /\ ~ EvaluateAgentHealth
    <2>1. UNCHANGED serverVars /\ UNCHANGED historyVars /\ eval' = eval /\ (now' = now \/ now' = now + 1)
      BY <1>10 DEF AgentStep, Handle, Connect, SendLine, SendLineFails, ShipTick, noStats, StreamLost, Tick, sendStats
    <2>2. /\ UNCHANGED <<handler, conn, record, mem, times, count, fresh>>
          /\ UNCHANGED <<joined, heard, reread, fineAt>>
      BY <2>1 DEF serverVars, historyVars
    <2>3. now' \in Nat /\ now' >= now
      BY <1>1, <2>1
    <2>4. \A g \in Links : wire'[g] = wire[g] \/ (\E e \in Item : wire'[g] = Append(wire[g], e))
      <3>1. CASE wire' = wire
        BY <3>1
      <3>2. ASSUME NEW e \in Item, wire' = [wire EXCEPT ![cur] = Append(@, e)]
            PROVE  \A g \in Links : wire'[g] = wire[g] \/ wire'[g] = Append(wire[g], e)
        BY <1>1, <3>2
      <3>3. CASE SendLine
        <4>1. batch \in Seq(Line) /\ batch # <<>> /\ cur \in 0 .. MaxStreams
          BY <3>3 DEF SendLine, ShipInv, RepTyped
        <4>2. Head(batch) \in Line
          BY <4>1
        <4>3. [Head(batch) EXCEPT !.via = cur] \in Line
          <5> DEFINE h == Head(batch)
          <5>1. h \in Line
            BY <4>2
          <5> HIDE DEF h
          <5>2. [h EXCEPT !.via = cur] \in Line
            BY <4>1, <5>1 DEF Line
          <5> QED BY <5>2 DEF h
        <4> QED BY <3>2, <3>3, <4>3 DEF SendLine, Item
      <3>4. ASSUME NEW load \in budget.loads, sendStats(load)
            PROVE  \A g \in Links : wire'[g] = wire[g] \/ (\E e \in Item : wire'[g] = Append(wire[g], e))
        <4>1. [load |-> load, time |-> now] \in Item
          BY <1>1 DEF Item, Stat, ShipInv, RepTyped, BudgetT
        <4> QED BY <3>2, <3>4, <4>1 DEF sendStats
      <3> QED BY <1>10, <3>1, <3>3, <3>4 DEF AgentStep, Handle, Connect, SendLineFails, ShipTick, noStats, StreamLost, Tick
    <2>5. StoringKnown'
      BY <1>7, <2>2, <2>4
    <2> QED BY <1>3, <1>4, <1>5, <1>6, <2>1, <2>2, <2>3, <2>5 DEF HealthInv
  <1>11. CASE SinkWrites \/ \E g \in Links : handleAgentLog(g) \/ SetAgentStatsFails(g)
    <2>1. UNCHANGED serverVars /\ UNCHANGED historyVars /\ now' = now /\ eval' = eval
      BY <1>11 DEF SinkWrites, handleAgentLog, SetAgentStatsFails
    <2>2. /\ UNCHANGED <<handler, conn, record, mem, times, count, fresh>>
          /\ UNCHANGED <<joined, heard, reread, fineAt>>
      BY <2>1 DEF serverVars, historyVars
    <2>3. PICK K \in SUBSET Links : /\ \A g \in Links : handler[g] = "storing" => g \in K
                                    /\ \A g \in K : wire'[g] = wire[g]
      <3> DEFINE K == {g \in Links : handler[g] = "storing"}
      <3>1. \A g \in K : wire'[g] = wire[g]
        <4>1. CASE SinkWrites
          BY <4>1 DEF SinkWrites
        <4>2. ASSUME NEW k \in Links, handleAgentLog(k) \/ SetAgentStatsFails(k)
              PROVE  \A g \in K : wire'[g] = wire[g]
          BY <1>1, <4>2 DEF handleAgentLog, SetAgentStatsFails
        <4> QED BY <1>11, <4>1, <4>2
      <3> QED BY <3>1
    <2>4. StoringKnown'
      BY <1>7, <2>2, <2>3
    <2> QED BY <1>3, <1>4, <1>5, <1>6, <1>8, <2>1, <2>2, <2>4 DEF HealthInv
  <1>12. CASE RefreshReads
    <2>1. /\ conn # 0 /\ fresh' = [stats |-> record, of |-> conn]
          /\ UNCHANGED <<now, wire, eval, handler, conn, record, mem, times, count, joined, heard, reread, fineAt>>
      BY <1>12 DEF RefreshReads, historyVars
    <2>2. record \in Stat \cup {NoStats} /\ conn \in Links
      BY <1>1, <2>1 DEF StatsKnown, HandlersKnown, Links, Received
    <2>3. fresh' \in [stats : Stat \cup {NoStats}, of : Links] /\ fresh'.stats = record
      BY <2>1, <2>2
    <2>4. StatsKnown'
      BY <1>1, <2>1, <2>3 DEF StatsKnown, Received
    <2>5. HandlersKnown'
      BY <1>1, <2>1, <2>3 DEF HandlersKnown, SomeJoined
    <2>6. StoringKnown'
      BY <1>7, <2>1
    <2> QED BY <1>3, <1>6, <1>8, <2>1, <2>4, <2>5, <2>6 DEF HealthInv
  <1>13. CASE RefreshSets
    <2>1. /\ fresh # NoStats /\ mem' = [mem EXCEPT ![fresh.of] = fresh.stats]
          /\ reread' = reread \cup {fresh.of} /\ fresh' = NoStats
          /\ UNCHANGED <<now, wire, eval, handler, conn, record, times, count, joined, heard, fineAt>>
      BY <1>13 DEF RefreshSets
    <2>2. fresh.stats \in Stat \cup {NoStats} /\ fresh.of \in Links /\ Received(fresh.stats)
      BY <1>1, <2>1 DEF StatsKnown
    <2>3. /\ mem' \in [Links -> Stat \cup {NoStats}] /\ mem'[fresh.of] = fresh.stats
          /\ \A g \in Links \ {fresh.of} : mem'[g] = mem[g]
      BY <1>1, <2>1, <2>2 DEF StatsKnown
    <2>4. StatsKnown'
      <3>1. \A g \in Links : Received(mem[g])' /\ (heard'[g] # NoStats /\ g \notin reread' => mem'[g] = heard'[g])
        BY <1>1, <2>1, <2>2, <2>3 DEF StatsKnown, Received
      <3>2. fineAt' \in Nat \cup {Never} /\ reread' \in SUBSET Links /\ Received(record)' /\ fresh' = NoStats
            /\ heard' \in [Links -> Stat \cup {NoStats}]
        BY <1>1, <2>1, <2>2 DEF StatsKnown, Received
      <3> QED BY <2>3, <3>1, <3>2 DEF StatsKnown
    <2>5. HandlersKnown'
      <3>1. \A g \in Links : mem'[g] # NoStats => SomeJoined
        BY <1>1, <2>1, <2>3 DEF HandlersKnown
      <3> QED BY <1>1, <2>1, <3>1 DEF HandlersKnown, SomeJoined
    <2>6. StoringKnown'
      BY <1>7, <2>1
    <2> QED BY <1>3, <1>6, <1>8, <2>1, <2>4, <2>5, <2>6 DEF HealthInv
  <1>14. ASSUME NEW g \in Links, registerAgent(g) PROVE HealthInv'
    <2>1. /\ handler[g] = "none" /\ handler' = [handler EXCEPT ![g] = "registered"]
          /\ mem' = [mem EXCEPT ![g] = record]
          /\ UNCHANGED <<now, wire, eval, conn, record, times, count, fresh, joined, heard, reread, fineAt>>
      BY <1>14 DEF registerAgent, historyVars
    <2>2. heard[g] = NoStats /\ joined[g] = Never
      BY <1>1, <2>1 DEF HandlersKnown
    <2>3. /\ mem' \in [Links -> Stat \cup {NoStats}] /\ mem'[g] = record
          /\ \A h \in Links \ {g} : mem'[h] = mem[h]
      BY <1>1, <2>1 DEF StatsKnown, Received
    <2>4. StatsKnown'
      <3>1. \A h \in Links : Received(mem[h])' /\ (heard'[h] # NoStats /\ h \notin reread' => mem'[h] = heard'[h])
        BY <1>1, <2>1, <2>2, <2>3 DEF StatsKnown, Received
      <3> QED BY <1>1, <2>1, <2>3, <3>1 DEF StatsKnown, Received
    <2>5. handler' \in [Links -> {"none", "registered", "entered", "open", "storing", "done"}]
          /\ handler'[g] = "registered" /\ \A h \in Links \ {g} : handler'[h] = handler[h]
      BY <1>1, <2>1 DEF HandlersKnown
    <2>6. HandlersKnown'
      <3>1. \A h \in Links : mem'[h] # NoStats => SomeJoined
        BY <1>1, <2>3 DEF HandlersKnown
      <3> QED BY <1>1, <2>1, <2>2, <2>5, <3>1 DEF HandlersKnown, SomeJoined
    <2>7. StoringKnown'
      BY <1>7, <2>1, <2>5
    <2> QED BY <1>3, <1>6, <1>8, <2>1, <2>4, <2>6, <2>7 DEF HealthInv
  <1>15. ASSUME NEW g \in Links, EnterConnected(g) PROVE HealthInv'
    <2>1. /\ handler[g] = "registered" /\ handler' = [handler EXCEPT ![g] = "entered"] /\ conn' = g
          /\ UNCHANGED <<now, wire, eval, record, mem, times, count, fresh, joined, heard, reread, fineAt>>
      BY <1>15 DEF EnterConnected, historyVars
    <2>2. /\ handler' \in [Links -> {"none", "registered", "entered", "open", "storing", "done"}]
          /\ handler'[g] = "entered" /\ \A h \in Links \ {g} : handler'[h] = handler[h]
          /\ g \in 0 .. MaxStreams
      BY <1>1, <2>1 DEF HandlersKnown, Links
    <2>3. HandlersKnown'
      BY <1>1, <2>1, <2>2 DEF HandlersKnown, SomeJoined
    <2>4. StoringKnown'
      BY <1>7, <2>1, <2>2
    <2> QED BY <1>3, <1>4, <1>6, <1>8, <2>1, <2>3, <2>4 DEF HealthInv
  <1>16. ASSUME NEW g \in Links, Reconnected(g) PROVE HealthInv'
    <2>1. /\ handler[g] = "entered" /\ handler' = [handler EXCEPT ![g] = "open"]
          /\ recordReconnect /\ joined' = [joined EXCEPT ![g] = now]
          /\ UNCHANGED <<now, wire, eval, conn, record, mem, fresh, heard, reread, fineAt>>
      BY <1>16 DEF Reconnected
    <2>2. joined[g] = Never
      BY <1>1, <2>1 DEF HandlersKnown
    <2>3. FlapsKnown'
      BY <2>1, <2>2, FlapNoted
    <2>4. now # Never
      BY <1>1 DEF Never
    <2>5. /\ joined' \in [Links -> Nat \cup {Never}] /\ joined'[g] = now
          /\ \A h \in Links \ {g} : joined'[h] = joined[h]
      BY <1>1, <2>1 DEF HandlersKnown
    <2>6. /\ handler' \in [Links -> {"none", "registered", "entered", "open", "storing", "done"}]
          /\ handler'[g] = "open" /\ \A h \in Links \ {g} : handler'[h] = handler[h]
      BY <1>1, <2>1 DEF HandlersKnown
    <2>7. SomeJoined'
      BY <2>4, <2>5 DEF SomeJoined
    <2>8. HandlersKnown'
      BY <1>1, <2>1, <2>4, <2>5, <2>6, <2>7 DEF HandlersKnown
    <2>9. StoringKnown'
      BY <1>7, <2>1, <2>6
    <2>10. EvalKnown'
      BY <1>1, <2>1, <2>7, EvalStays
    <2> QED BY <1>1, <1>4, <2>1, <2>3, <2>8, <2>9, <2>10 DEF HealthInv
  <1>17. ASSUME NEW g \in Links, SetAgentStats(g) PROVE HealthInv'
    <2> DEFINE s == Head(wire[g])
    <2>1. /\ handler[g] = "open" /\ handler' = [handler EXCEPT ![g] = "storing"]
          /\ wire[g] # <<>> /\ "load" \in DOMAIN s /\ record' = s
          /\ fineAt' = IF s.load = "fine" /\ s.time > fineAt THEN s.time ELSE fineAt
          /\ UNCHANGED <<now, wire, eval, conn, mem, times, count, fresh, joined, heard, reread>>
      BY <1>17 DEF SetAgentStats
    <2>2. s \in Stat
      <3>1. s \in Item
        BY <1>1, <2>1
      <3> QED BY <2>1, <3>1, Kinds DEF Item
    <2> HIDE DEF s
    <2>3. s.time \in Nat /\ fineAt' \in Nat \cup {Never} /\ fineAt' \in Int /\ fineAt' >= fineAt
          /\ (s.load = "fine" => s.time <= fineAt')
      BY <1>1, <2>1, <2>2 DEF StatsKnown, Stat, Never
    <2>4. ASSUME NEW x, Received(x) PROVE x \in Stat \cup {NoStats} /\ (x # NoStats /\ x.load = "fine" => x.time <= fineAt')
      <3>1. x # NoStats => x.time \in Nat
        BY <2>4 DEF Received, Stat
      <3> QED BY <1>1, <2>3, <2>4, <3>1 DEF Received
    <2>5. StatsKnown'
      <3>1. \A h \in Links : Received(mem[h])'
        BY <1>1, <2>1, <2>4 DEF StatsKnown, Received
      <3>2. Received(record)'
        BY <2>1, <2>2, <2>3 DEF Received
      <3>3. fresh' = NoStats \/ (fresh' \in [stats : Stat \cup {NoStats}, of : Links] /\ Received(fresh.stats)')
        BY <1>1, <2>1, <2>4 DEF StatsKnown, Received
      <3> QED BY <1>1, <2>1, <2>3, <3>1, <3>2, <3>3 DEF StatsKnown
    <2>6. /\ handler' \in [Links -> {"none", "registered", "entered", "open", "storing", "done"}]
          /\ handler'[g] = "storing" /\ \A h \in Links \ {g} : handler'[h] = handler[h]
      BY <1>1, <2>1 DEF HandlersKnown
    <2>7. SomeJoined /\ SomeJoined'
      BY <1>1, <2>1 DEF HandlersKnown, SomeJoined
    <2>8. HandlersKnown'
      BY <1>1, <2>1, <2>6, <2>7 DEF HandlersKnown
    <2>9. StoringKnown'
      <3> SUFFICES ASSUME NEW h \in Links, handler'[h] = "storing"
                   PROVE  wire'[h] # <<>> /\ Head(wire'[h]) \in Stat /\ Received(Head(wire[h]))'
        BY DEF StoringKnown
      <3>1. CASE h = g
        BY <2>1, <2>2, <2>3, <3>1 DEF Received, s
      <3>2. CASE h # g
        <4>1. wire[h] # <<>> /\ Head(wire[h]) \in Stat /\ Received(Head(wire[h]))
          BY <1>1, <2>6, <3>2 DEF StoringKnown
        <4> QED BY <2>1, <2>4, <4>1 DEF Received
      <3> QED BY <3>1, <3>2
    <2>10. EvalKnown'
      BY <2>1, <2>3, <2>7, EvalStays
    <2> QED BY <1>3, <1>8, <2>1, <2>5, <2>8, <2>9, <2>10 DEF HealthInv
  <1>18. ASSUME NEW g \in Links, handleAgentStats(g) PROVE HealthInv'
    <2> DEFINE s == Head(wire[g])
    <2>1. /\ handler[g] = "storing" /\ handler' = [handler EXCEPT ![g] = "open"]
          /\ mem' = [mem EXCEPT ![g] = s] /\ wire' = [wire EXCEPT ![g] = Tail(@)]
          /\ heard' = [heard EXCEPT ![g] = s] /\ reread' = reread \ {g}
          /\ UNCHANGED <<now, eval, conn, record, times, count, fresh, joined, fineAt>>
      BY <1>18 DEF handleAgentStats
    <2>2. s \in Stat /\ Received(s)
      BY <1>1, <2>1 DEF StoringKnown
    <2> HIDE DEF s
    <2>3. /\ mem' \in [Links -> Stat \cup {NoStats}] /\ mem'[g] = s /\ \A h \in Links \ {g} : mem'[h] = mem[h]
          /\ heard' \in [Links -> Stat \cup {NoStats}] /\ heard'[g] = s /\ \A h \in Links \ {g} : heard'[h] = heard[h]
      BY <1>1, <2>1, <2>2 DEF StatsKnown
    <2>4. StatsKnown'
      <3>1. \A h \in Links : Received(mem[h])'
        BY <1>1, <2>1, <2>2, <2>3 DEF StatsKnown, Received
      <3>2. \A h \in Links : heard'[h] # NoStats /\ h \notin reread' => mem'[h] = heard'[h]
        BY <1>1, <2>1, <2>3 DEF StatsKnown
      <3>3. Received(record)' /\ fineAt' \in Nat \cup {Never} /\ reread' \in SUBSET Links
            /\ (fresh' = NoStats \/ (fresh' \in [stats : Stat \cup {NoStats}, of : Links] /\ Received(fresh.stats)'))
        BY <1>1, <2>1 DEF StatsKnown, Received
      <3> QED BY <2>3, <3>1, <3>2, <3>3 DEF StatsKnown
    <2>5. /\ handler' \in [Links -> {"none", "registered", "entered", "open", "storing", "done"}]
          /\ handler'[g] = "open" /\ \A h \in Links \ {g} : handler'[h] = handler[h]
      BY <1>1, <2>1 DEF HandlersKnown
    <2>6. SomeJoined
      BY <1>1, <2>1 DEF HandlersKnown, SomeJoined
    <2>7. HandlersKnown'
      BY <1>1, <2>1, <2>3, <2>5, <2>6 DEF HandlersKnown, SomeJoined
    <2>8. \A h \in Links \ {g} : wire'[h] = wire[h]
      BY <1>1, <2>1
    <2>9. StoringKnown'
      BY <1>7, <2>1, <2>5, <2>8
    <2> QED BY <1>3, <1>6, <1>8, <2>1, <2>4, <2>7, <2>9 DEF HealthInv
  <1>19. ASSUME NEW g \in Links, HandlerEnds(g) PROVE HealthInv'
    <2>1. /\ handler[g] = "open" /\ handler' = [handler EXCEPT ![g] = "done"]
          /\ conn' = IF conn = g THEN 0 ELSE conn
          /\ wire' = [wire EXCEPT ![g] = <<>>]
          /\ UNCHANGED <<now, eval, record, mem, times, count, fresh, joined, heard, reread, fineAt>>
      BY <1>19 DEF HandlerEnds, historyVars
    <2>2. /\ handler' \in [Links -> {"none", "registered", "entered", "open", "storing", "done"}]
          /\ handler'[g] = "done" /\ \A h \in Links \ {g} : handler'[h] = handler[h]
          /\ \A h \in Links \ {g} : wire'[h] = wire[h]
      BY <1>1, <2>1 DEF HandlersKnown
    <2>3. conn' \in 0 .. MaxStreams
      BY <1>1, <2>1 DEF HandlersKnown
    <2>4. HandlersKnown'
      BY <1>1, <2>1, <2>2, <2>3 DEF HandlersKnown, SomeJoined
    <2>5. StoringKnown'
      BY <1>7, <2>1, <2>2
    <2> QED BY <1>3, <1>4, <1>6, <1>8, <2>1, <2>4, <2>5 DEF HealthInv
  <1>20. AgentStep \/ ServerStep
    BY DEF ReportsNext, AgentStep, ServerStep
  <1> QED BY <1>9, <1>10, <1>11, <1>12, <1>13, <1>14, <1>15, <1>16, <1>17, <1>18, <1>19, <1>20 DEF ServerStep

(* The other parts' steps leave it alone. *)
LEMMA HealthFrame == ASSUME HealthInv, UNCHANGED repVars PROVE HealthInv'
  <1>1. /\ UNCHANGED <<now, wire, eval, handler, conn, record, mem, times, count, fresh>>
        /\ UNCHANGED <<joined, heard, reread, fineAt>>
    BY DEF repVars, serverVars, historyVars
  <1>2. now \in Nat /\ StatsKnown /\ StoringKnown /\ HandlersKnown /\ FlapsKnown /\ EvalKnown /\ fineAt \in Int
    BY DEF HealthInv, StatsKnown, Never
  <1>3. FlapsKnown' /\ \A g \in Links : joined'[g] <= now'
    BY <1>1, <1>2, FlapsStay
  <1>4. StatsKnown'
    BY <1>1, <1>2 DEF StatsKnown, Received
  <1>5. HandlersKnown'
    BY <1>1, <1>2, <1>3 DEF HandlersKnown, SomeJoined
  <1>6. StoringKnown'
    BY <1>1, <1>2 DEF StoringKnown, Received
  <1>7. SomeJoined => SomeJoined'
    BY <1>1 DEF SomeJoined
  <1>8. EvalKnown'
    BY <1>1, <1>2, <1>7, EvalStays
  <1> QED BY <1>1, <1>2, <1>3, <1>4, <1>5, <1>6, <1>8 DEF HealthInv

(* Nothing is known at first. *)
LEMMA HealthStarts == ReportsInit => HealthInv
  <1> SUFFICES ASSUME ReportsInit PROVE HealthInv
    OBVIOUS
  <1>1. /\ now = 0 /\ handler = [g \in Links |-> "none"] /\ conn = 0 /\ record = NoStats
        /\ mem = [g \in Links |-> NoStats] /\ times = <<>> /\ count = 0 /\ fresh = NoStats /\ reread = {}
        /\ joined = [g \in Links |-> Never] /\ heard = [g \in Links |-> NoStats] /\ fineAt = Never
        /\ eval = NoVerdictYet
    BY DEF ReportsInit
  <1>2. StatsKnown /\ StoringKnown
    BY <1>1 DEF StatsKnown, Received, StoringKnown
  <1>3. HandlersKnown
    BY <1>1, ReportsBounds DEF HandlersKnown, Never
  <1>4. FlapsKnown
    <2>1. times \in Seq(Nat) /\ Len(times) = 0 /\ DOMAIN times = {}
      BY <1>1
    <2>2. \A c : TimesAfter(c) = {} /\ JoinedAfter(c) = {}
      BY <1>1, <2>1 DEF TimesAfter, JoinedAfter
    <2> QED BY <1>1, <2>1, <2>2 DEF FlapsKnown
  <1>5. EvalKnown
    <2>1. NoVerdictYet \in EvalT /\ NoVerdictYet.pc = "idle"
      BY DEF NoVerdictYet, EvalT
    <2> QED BY <1>1, <2>1 DEF EvalKnown
  <1> QED BY <1>1, <1>2, <1>3, <1>4, <1>5 DEF HealthInv

(* The verdict rests on what was received. *)
LEMMA HealthRests == ASSUME HealthInv PROVE HealthTrue
  <1> SUFFICES ASSUME eval.pc = "done" PROVE HealthTrue
    BY DEF HealthTrue
  <1>1. eval \in EvalT /\ EvalOK(eval) /\ Received(eval.stats) /\ eval.stats \in Stat /\ fineAt \in Nat \cup {Never}
    BY DEF HealthInv, EvalKnown, StatsKnown, EvalOK
  <1>2. ASSUME eval.level = "healthy"
        PROVE  fineAt # Never /\ eval.age <= StaleAfter[1] /\ eval.flaps < FlapsFor[1]
    <2>1. eval.stats.load = "fine" /\ eval.age <= StaleAfter[1] /\ eval.flaps < FlapsFor[1]
      BY <1>1, <1>2 DEF EvalOK
    <2>2. eval.stats.time \in Nat /\ eval.stats.time <= fineAt
      BY <1>1, <2>1, ReportsNone DEF Received, Stat
    <2> QED BY <1>1, <2>1, <2>2 DEF Never
  <1>3. ASSUME eval.level \in {"degraded", "unhealthy"}
        PROVE  \/ eval.heard = NoStats \/ eval.given \/ eval.late
               \/ eval.heard.load # "fine"
               \/ eval.flapped >= FlapsFor[1] \/ eval.errors >= ErrorsFor[1]
    <2>1. Grounds(eval) /\ (eval.heard # NoStats /\ ~ eval.given => eval.heard = eval.stats)
      BY <1>1, <1>3 DEF EvalOK
    <2> QED BY <2>1 DEF Grounds
  <1> QED BY <1>2, <1>3 DEF HealthTrue

-----------------------------------------------------------------------------
(* The parts together *)

PartsInv == ReflInv /\ ClientInv /\ NotifyInv /\ TraceInv /\ ShipInv /\ HealthInv

(* Every part starts as its invariant says. *)
LEMMA PartsStart == Init => PartsInv
  BY ReflStarts, ClientsStart, NotifyStarts, TraceStarts, ShipStarts, HealthStarts DEF Init, PartsInv

(* A step of one part keeps its invariant and leaves the others alone. *)
LEMMA PartsStep == PartsInv /\ [Next]_vars => PartsInv'
  <1> SUFFICES ASSUME PartsInv, [Next]_vars PROVE PartsInv'
    OBVIOUS
  <1>1. ReflInv /\ ClientInv /\ NotifyInv /\ TraceInv /\ ShipInv /\ HealthInv
    BY DEF PartsInv
  <1>2. ReflInv' /\ ClientInv'
    <2>1. \/ PerfmonNext
          \/ UNCHANGED perfVars
      BY DEF Next, vars
    <2>2. CASE PerfmonNext BY <1>1, <2>2, ReflSteps, ClientSteps
    <2>3. CASE UNCHANGED perfVars
      <3>1. UNCHANGED reflVars /\ client' = client /\ link' = link
        BY <2>3 DEF perfVars
      <3> QED BY <1>1, <3>1, ReflFrame, ClientFrame
    <2> QED BY <2>1, <2>2, <2>3
  <1>3. NotifyInv'
    <2>1. NotifyNext \/ UNCHANGED notifyVars
      BY DEF Next, vars
    <2> QED BY <1>1, <2>1, NotifySteps, NotifyFrame
  <1>4. TraceInv'
    <2>1. TraceNext \/ UNCHANGED traceVars
      BY DEF Next, vars
    <2> QED BY <1>1, <2>1, TraceSteps, TraceStays
  <1>5. ShipInv' /\ HealthInv'
    <2>1. ReportsNext \/ UNCHANGED repVars
      BY DEF Next, vars
    <2>2. StoringKnown
      BY <1>1 DEF HealthInv
    <2> QED BY <1>1, <2>1, <2>2, ShipSteps, HealthSteps, ShipFrame, HealthFrame
  <1> QED BY <1>2, <1>3, <1>4, <1>5 DEF PartsInv

(* The parts' invariants hold in every state. *)
THEOREM Invariance == Spec => []PartsInv
  BY PartsStart, PartsStep, PTL DEF Spec

(* Outside of reconcilePerfmonReflector every listener but the recorded    *)
(* one has been told to stop, that one is open with the recorded port and  *)
(* peers, and no two open listeners share a port: whatever configurations  *)
(* come, listens fail and listeners close late (agent.go 145-190).         *)
THEOREM ReflectorAsRecorded == Spec => []ReflectorKnown
  <1>1. PartsInv => ReflectorKnown
    BY ReflKnown DEF PartsInv
  <1> QED BY <1>1, Invariance, PTL

(* A throughput test that succeeds has been let in on both connections,    *)
(* has sent all it measured and has been read to an orderly end, within    *)
(* the longest duration (perfmon.go 72-185), for any peers, ports and      *)
(* faults; a download without a byte is one only the peer ended.           *)
THEOREM ThroughputEarned == Spec => []SuccessEarned
  <1>1. PartsInv => SuccessEarned
    BY ClientsEarn DEF PartsInv
  <1> QED BY <1>1, Invariance, PTL

(* For any targets, rules, configurations and number of events: a mail     *)
(* goes to everyone its target names or to nobody, a goroutine of          *)
(* notify.go sends once at most (one per event and entry of the rule's     *)
(* list, which may name a target twice), one that ends without an error    *)
(* (SNMP aside, which does nothing) has sent something, and none ever      *)
(* finds a target without the fields its type needs, whatever edits race.  *)
THEOREM WholeOrFailed == Spec => []NotifiedWhole
  <1>1. PartsInv => NotifiedWhole
    BY DEF PartsInv, NotifyInv, Whole, NotifiedWhole
  <1> QED BY <1>1, Invariance, PTL

(* For every route, number of hops and of probes, the path a traceroute    *)
(* puts on record and its verdict are the route's: replies that come late  *)
(* or to another probe's socket put no node at a TTL it is not at, save    *)
(* with UDP a nearer one (traceroute.go 79-182, traceroute_linux.go).      *)
THEOREM VerdictOnRecord == Spec => []PathOnRecord
  <1>1. PartsInv => PathOnRecord
    BY TraceRecord DEF PartsInv
  <1> QED BY <1>1, Invariance, PTL

(* A line the agent logs is at one place at most, from its buffer to the   *)
(* table, however many streams are lost and however the buffer overflows;  *)
(* one stream's lines are stored in the order they were logged; and the    *)
(* table holds the newest rows of each source, History of them and what    *)
(* failed prunings left, so that neither the agent nor the server pushes   *)
(* out the other's (logbuffer.go, agent.go sendBufferedLogs, logsink.go,   *)
(* store/logs.go InsertLog, where the insertion and the pruning may fail). *)
THEOREM LinesShippedOnce == Spec => []ShippedOnce
  <1>1. PartsInv => ShippedOnce
    BY ShipsOnce DEF PartsInv
  <1> QED BY <1>1, Invariance, PTL

(* The health verdict rests on evidence: healthy only after fresh, good    *)
(* statistics and few reconnections, worse only for a reason, although     *)
(* its four reads come at different times, among the steps of several      *)
(* handlers and of RefreshAgent, and SetAgentStats may fail (health.go     *)
(* EvaluateAgentHealth, recordReconnect; server.go handleAgentStats).      *)
THEOREM HealthVerdictTrue == Spec => []HealthTrue
  <1>1. PartsInv => HealthTrue
    BY HealthRests DEF PartsInv
  <1> QED BY <1>1, Invariance, PTL

(* With one handler, PathInv holds in every state.  Two handlers of one    *)
(* test may store a run between another's comparison and its storing.      *)
LEMMA PathInvariance ==
  ASSUME \A h, g \in Handlers : h = g
  PROVE  Spec => []PathInv
  <1>1. Init => PathInv
    BY PathStarts DEF Init
  <1>2. PathInv /\ [Next]_vars => PathInv'
    <2> SUFFICES ASSUME PathInv, [Next]_vars PROVE PathInv'
      OBVIOUS
    <2>1. PathNext \/ UNCHANGED pathVars
      BY DEF Next, vars
    <2> QED BY <2>1, PathSteps, PathFrame
  <1> QED BY <1>1, <1>2, PTL DEF Spec

(* Where one handler ingests a test's runs, an event of detectPathChange   *)
(* (pathchange.go 138-180) is news: an address not seen at its TTL or a    *)
(* length not seen, whatever the runs and the size of the window.          *)
THEOREM EventsAreNews ==
  ASSUME \A h, g \in Handlers : h = g
  PROVE  Spec => []NoFalseAlarm
  BY PathInvariance, EventIsNews, PTL

(* Where one handler ingests a test's runs, a run on the path of the last  *)
(* stored one reports nothing: a change is reported once, for any runs.    *)
THEOREM RepeatsAreQuiet ==
  ASSUME \A h, g \in Handlers : h = g
  PROVE  Spec => []RepeatIsQuiet
  BY PathInvariance, RepeatHasNoNews, PTL

(* Where one handler ingests a test's runs, the first hop that contradicts *)
(* the newest answers, if it is new, is reported at its TTL, with the      *)
(* newest answer there as its predecessor.                                 *)
THEOREM NewHopsReported ==
  ASSUME \A h, g \in Handlers : h = g
  PROVE  Spec => []FirstNewHopReported
  BY PathInvariance, FirstIsReported, PTL
=============================================================================

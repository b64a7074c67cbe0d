------------------------------- MODULE Trace -------------------------------
(***************************************************************************)
(* One traceroute of the native engine (internal/probe/traceroute.go and   *)
(* traceroute_linux.go): probes of growing TTL, what comes back for each,  *)
(* and the verdict on the path and on its destination.                     *)
(*                                                                         *)
(* The network is the environment: a route is a sequence of nodes, the     *)
(* last of them the target, and stays what it is during the run.  A reply  *)
(* may come late, after the probe was given up, or not at all.  A UDP      *)
(* socket is bound to the port of the flow, the same for every probe, so a *)
(* late reply finds the socket of a later probe there; the other sockets   *)
(* have a port of their own and take theirs with them.  Times are left     *)
(* out, names of hops too.                                                 *)
(***************************************************************************)
EXTENDS Integers, Sequences, FiniteSets

CONSTANTS
    Routes,     \* sequences of nodes; the last is the target
    MaxHops,    \* maxHops
    Probes      \* probes per hop

RouterKinds == {"router", "silent", "firewall", "dead", "hole"}
TargetKinds == {"open", "closed", "mute"}

ASSUME TraceRoutes ==
    \A r \in Routes : /\ r \in Seq(RouterKinds \cup TargetKinds) /\ r # <<>>
                      /\ \A i \in DOMAIN r : (r[i] \in TargetKinds) = (i = Len(r))
ASSUME TraceBounds == MaxHops \in Nat \ {0} /\ Probes \in Nat \ {0}

VARIABLES
    route, protocol,  \* of this run
    tpc,              \* where the run is: ready, probe, wait, done or error
    ttl, sent,        \* the TTL under way and the probes sent with it
    gathered,         \* what probeTTL has gathered for it
    hops,             \* TracerouteResult.Hops
    verdict,          \* the rest of the TracerouteResult
    port,             \* local port of the open socket
    inflight,             \* replies under way
    tcancelled        \* the context has ended

netVars == <<route, protocol>>
traceVars == <<netVars, tpc, ttl, sent, gathered, hops, verdict, port, inflight, tcancelled>>

NoNode == 0    \* no host, no hop

NoHop == [host |-> NoNode, got |-> 0, arrived |-> FALSE, state |-> ""]
NoVerdict == [status |-> "", state |-> "", target |-> NoNode, failureHop |-> NoNode]

TraceInit ==
    /\ route \in Routes /\ protocol \in {"udp", "tcp", "icmp"}
    /\ tpc = "ready" /\ ttl = 1 /\ sent = 0 /\ gathered = NoHop /\ hops = <<>> /\ verdict = NoVerdict
    /\ port = "" /\ inflight = {} /\ tcancelled = FALSE

-----------------------------------------------------------------------------
(* The network *)

(* The first node that lets nothing through: the target, if nothing else. *)
barrier == CHOOSE k \in DOMAIN route :
              /\ route[k] \in {"firewall", "dead", "hole"} \cup TargetKinds
              /\ \A j \in 1 .. k - 1 : route[j] \in {"router", "silent"}

(* What a node answers to the probe that ends there, as a set of at most   *)
(* one ICMP message or TCP segment.  A router looks at the TTL before it   *)
(* looks at its rules.                                                     *)
answer(t) ==
    IF t < barrier \/ (t = barrier /\ barrier < Len(route))
    THEN IF route[t] \in {"silent", "hole"} THEN {} ELSE {"timeExceed"}
    ELSE CASE route[barrier] = "firewall" -> {"adminProhib"}
           [] route[barrier] = "dead" -> {"hostUnreach"}
           [] route[barrier] = "open" ->
                 IF protocol = "udp" THEN {} ELSE {IF protocol = "icmp" THEN "echoReply" ELSE "synAck"}
           [] route[barrier] = "closed" ->
                 {IF protocol = "udp" THEN "portUnreach" ELSE IF protocol = "icmp" THEN "echoReply" ELSE "rst"}
           [] OTHER -> {}

replies(t, p) == {[from |-> IF t < barrier THEN t ELSE barrier, what |-> w, port |-> p] : w \in answer(t)}

-----------------------------------------------------------------------------
(* The probes *)

(* classifyICMP: an intermediate hop, or a verdict about the destination.  *)
classifyICMP(what) ==
    CASE what = "portUnreach" -> "echoed"
      [] what = "adminProhib" -> "filtered"
      [] what = "hostUnreach" -> "unreachable"
      [] what = "echoReply" -> "echoed"
      [] OTHER -> ""

(* The outcome of the handshake, for a probe with no ICMP message. *)
handshake(what) == CASE what = "synAck" -> "open" [] what = "rst" -> "closed" [] OTHER -> ""

destState(what) == IF what \in {"synAck", "rst"} THEN handshake(what) ELSE classifyICMP(what)

(* Mutant of bindsPort: every probe has the port of the flow. *)
bindsPortAlways == TRUE

(* sendProbe: udpProbe binds its socket, tcpProbe and icmpProbe do not. *)
bindsPort == protocol = "udp"

(* setupSocket: a port that is taken leaves the socket with one of its own. *)
setupSocket == IF bindsPort THEN {"flow", "own"} ELSE {"own"}

(* Traceroute: the target resolves or the run is over; between two TTLs    *)
(* the context is looked at.                                               *)
Traceroute(resolved) ==
    /\ tpc = "ready"
    /\ tpc' = IF ~resolved \/ tcancelled THEN "error" ELSE "probe"
    /\ UNCHANGED <<netVars, ttl, sent, gathered, hops, verdict, port, inflight, tcancelled>>

(* probeTTL: the next probe of this TTL is sent from a fresh socket. *)
probeTTL ==
    /\ tpc = "probe" /\ sent < Probes /\ ~tcancelled
    /\ tpc' = "wait" /\ sent' = sent + 1
    /\ \E p \in setupSocket : port' = p /\ inflight' = inflight \cup replies(ttl, p)
    /\ UNCHANGED <<netVars, ttl, gathered, hops, verdict, tcancelled>>

(* Closing a socket of its own port loses what is still to come for it. *)
closed(w) == {r \in w : r.port = "flow"}

(* readErrQueue, or the handshake, or the echo reply: whatever arrives     *)
(* first at this socket is taken for the answer to its probe; the first    *)
(* to answer at this TTL is its host.                                      *)
Reply(r) ==
    /\ tpc = "wait" /\ r \in inflight /\ r.port = port
    /\ gathered' = [gathered EXCEPT !.got = @ + 1,
                          !.host = IF @ = NoNode THEN r.from ELSE @,
                          !.arrived = @ \/ destState(r.what) # "",
                          !.state = IF destState(r.what) # "" THEN destState(r.what) ELSE @]
    /\ inflight' = closed(inflight \ {r}) /\ port' = "" /\ tpc' = "probe"
    /\ UNCHANGED <<netVars, ttl, sent, hops, verdict, tcancelled>>

(* Nothing came in time, or the socket failed: the reply is late, or lost. *)
NoReply ==
    /\ tpc = "wait" /\ tpc' = "probe" /\ port' = ""
    /\ \E lost \in SUBSET inflight : inflight' = closed(inflight \ lost)
    /\ UNCHANGED <<netVars, ttl, sent, gathered, hops, verdict, tcancelled>>

TraceCancel ==
    /\ tpc \notin {"done", "error"} /\ ~tcancelled /\ tcancelled' = TRUE
    /\ UNCHANGED <<netVars, tpc, ttl, sent, gathered, hops, verdict, port, inflight>>

-----------------------------------------------------------------------------
(* The verdict *)

(* The last hop that answered. *)
failureHop(hs) ==
    LET up == {i \in DOMAIN hs : hs[i].host # NoNode} IN
    IF up = {} THEN NoNode ELSE CHOOSE i \in up : \A j \in up : j <= i

(* The TTL is done, all its probes sent or the context at its end: the     *)
(* hop is put on record.  The target, or what speaks for it, has answered, *)
HopArrived ==
    /\ tpc = "probe" /\ (sent = Probes \/ tcancelled) /\ gathered.arrived
    /\ hops' = Append(hops, gathered)
    /\ verdict' = [status |-> "reached", state |-> gathered.state, target |-> gathered.host, failureHop |-> NoNode]
    /\ tpc' = "done"
    /\ UNCHANGED <<netVars, ttl, sent, gathered, port, inflight, tcancelled>>

(* or the next TTL has its turn, *)
NextHop ==
    /\ tpc = "probe" /\ (sent = Probes \/ tcancelled) /\ ~gathered.arrived /\ ttl < MaxHops
    /\ hops' = Append(hops, gathered)
    /\ ttl' = ttl + 1 /\ sent' = 0 /\ gathered' = NoHop
    /\ tpc' = IF tcancelled THEN "error" ELSE "probe"
    /\ UNCHANGED <<netVars, verdict, port, inflight, tcancelled>>

(* or the path has run out. *)
Stalled ==
    /\ tpc = "probe" /\ (sent = Probes \/ tcancelled) /\ ~gathered.arrived /\ ttl = MaxHops
    /\ hops' = Append(hops, gathered)
    /\ verdict' = [status |-> "stalled", state |-> "filtered", target |-> Len(route),
                   failureHop |-> failureHop(hops')]
    /\ tpc' = "done"
    /\ UNCHANGED <<netVars, ttl, sent, gathered, port, inflight, tcancelled>>

TraceNext ==
    \/ \E resolved \in BOOLEAN : Traceroute(resolved)
    \/ probeTTL \/ NoReply \/ TraceCancel \/ HopArrived \/ NextHop \/ Stalled
    \/ \E r \in inflight : Reply(r)

-----------------------------------------------------------------------------
(* Properties *)

(* The path on record is the path: a host on record at a TTL is the node   *)
(* at that distance, or for the replies of the target and of a barrier the *)
(* node that keeps the probes from going on; with UDP, whose late replies  *)
(* are taken for those of later probes, it may be one nearer by, never one *)
(* further away.  "open" and "closed" are the target's own words.  A       *)
(* stalled path names as its failure hop one whose node really lies before *)
(* the place where nothing went on, and no hop past it has answered.       *)
PathOnRecord ==
    /\ \A i \in DOMAIN hops : hops[i].host # NoNode =>
          /\ hops[i].host <= i /\ hops[i].host <= barrier
          /\ protocol # "udp" => hops[i].host = IF i < barrier THEN i ELSE barrier
    /\ verdict.status = "reached" =>
          /\ verdict.state \in {"open", "closed"} => verdict.target = Len(route) /\ barrier = Len(route)
          /\ protocol # "udp" /\ verdict.state = "echoed" => verdict.target = Len(route)
          /\ Len(hops) >= barrier
    /\ verdict.status = "stalled" =>
          /\ Len(hops) = MaxHops
          /\ \A i \in verdict.failureHop + 1 .. MaxHops : hops[i].got = 0
          /\ verdict.failureHop # NoNode => hops[verdict.failureHop].host \in 1 .. Len(route) - 1

=============================================================================

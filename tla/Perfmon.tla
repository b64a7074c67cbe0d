------------------------------ MODULE Perfmon ------------------------------
(***************************************************************************)
(* The throughput test between two agents (internal/probe/perfmon.go) and  *)
(* the reflector one of them keeps as its configuration says               *)
(* (internal/agent/agent.go: reconcilePerfmonReflector).                   *)
(*                                                                         *)
(* A listener is closed by a goroutine that waits for its context, so one  *)
(* that has been cancelled may still hold its port and accept.  What has   *)
(* been accepted is served to the end, whatever becomes of the listener.   *)
(* A client makes two connections, one for the upload and one for the      *)
(* download.  Of the data a connection carries it matters whether there is *)
(* none, some or all.                                                      *)
(***************************************************************************)
EXTENDS Integers, Sequences, FiniteSets

CONSTANTS
    Peers,         \* agents that test against the reflector
    Ports,
    TargetPort,    \* the port of the tests' target
    Settings,      \* reflector settings on record: enabled, port, cidrs
    Durations,     \* durations of a test; 0 is unset
    MaxDuration,   \* perfmonMaxDuration (30)
    MaxListeners,  \* bound: listeners started
    MaxFaults,     \* bound: connections cut and accepts that fail
    Blank,         \* an entry of nothing but spaces
    Invalid        \* an entry that does not parse

(* An entry of an allowlist is an address, a range of addresses, or one of *)
(* these two.                                                              *)
ASSUME PerfmonSettings ==
    \A s \in Settings : /\ s.enabled \in BOOLEAN /\ s.port \in Ports \cup {0}
                        /\ s.cidrs \in Seq(Peers \cup SUBSET Peers \cup {Blank, Invalid})
ASSUME PerfmonBounds ==
    MaxDuration \in Nat /\ MaxListeners \in Nat /\ MaxFaults \in Nat /\ Durations \subseteq Nat
ASSUME PerfmonTarget == TargetPort \in Ports

Listeners == 1 .. MaxListeners

VARIABLES
    started,    \* listeners started so far
    listener,   \* per listener: port, allowlist, open, cancelled, accepting
    perfmon,    \* Agent.perfmonCancel (the listener it stops, 0 for nil), Port, Allowed
    starting,   \* the configuration reconcile is starting a listener for
    client,     \* per peer: where RunClient is
    link,       \* per peer: its connection
    nfaults

reflVars == <<started, listener, perfmon, starting>>
perfVars == <<reflVars, client, link, nfaults>>

Nothing == [enabled |-> FALSE, port |-> 0, cidrs |-> <<>>]
Off == [cancel |-> 0, port |-> 0, allowed |-> <<>>]
NoListener == [port |-> 0, allowed |-> <<>>, open |-> FALSE, cancelled |-> FALSE, accepting |-> FALSE]
NoLink == [at |-> "none", on |-> 0, srv |-> "hello", data |-> "none", half |-> FALSE, counted |-> "none"]
Idle == [pc |-> "idle", phase |-> "upload", dur |-> 0, failedStep |-> "", success |-> FALSE,
         upload |-> "none", by |-> <<>>]

PerfmonInit ==
    /\ started = 0 /\ listener = [l \in Listeners |-> NoListener] /\ perfmon = Off
    /\ starting = Nothing
    /\ client = [c \in Peers |-> Idle] /\ link = [c \in Peers |-> NoLink] /\ nfaults = 0

-----------------------------------------------------------------------------
(* The reflector *)

taken(port) == \E l \in Listeners : listener[l].open /\ listener[l].port = port

(* ParseCIDRs: one entry that does not parse spoils the list; blank ones   *)
(* are left out; an address is the range of it alone.                      *)
ParseCIDRs(entries) ==
    LET given(e) == e # Blank
        nets == SelectSeq(entries, given)
    IN
    IF \E i \in DOMAIN entries : entries[i] = Invalid THEN Invalid
    ELSE [i \in DOMAIN nets |-> IF nets[i] \in Peers THEN {nets[i]} ELSE nets[i]]

(* sameCIDRs: the same ranges in the same order. *)
sameCIDRs(a, b) == a = b

(* perfmonReflectorConfigFor: the settings on record, on or off. *)
perfmonReflectorConfigFor(s) == [enabled |-> s.enabled, port |-> s.port, cidrs |-> s.cidrs]

stop(ls) == IF perfmon.cancel = 0 THEN ls ELSE [ls EXCEPT ![perfmon.cancel].cancelled = TRUE]

(* Reflector: it listens unless the port is taken. *)
Reflector(cfg) ==
    [port |-> cfg.port, allowed |-> cfg.cidrs, open |-> TRUE, cancelled |-> FALSE, accepting |-> TRUE]

(* Mutant of failedToStart: the fields stay as they were. *)
failedToStartKeeps == perfmon

failedToStart == Off

(* Off, or unusable, or no change, or the old one is told to stop *)
reconcilePerfmonReflector(s) ==
    LET cfg == perfmonReflectorConfigFor(s)
        enabled == cfg.enabled /\ cfg.port # 0
        allowed == ParseCIDRs(cfg.cidrs)
        same == perfmon.cancel # 0 /\ perfmon.port = cfg.port /\ sameCIDRs(perfmon.allowed, allowed)
    IN  /\ starting = Nothing
        /\ \/ /\ ~enabled /\ perfmon.cancel # 0
              /\ perfmon' = Off /\ UNCHANGED starting
           \/ /\ enabled /\ allowed # Invalid /\ ~same /\ started < MaxListeners
              /\ starting' = [cfg EXCEPT !.cidrs = allowed] /\ UNCHANGED perfmon
        /\ listener' = stop(listener)
        /\ UNCHANGED <<started, client, link, nfaults>>

(* and, still under perfmonMu, a new one is started, which may find its    *)
(* port held by the old one.                                               *)
startReflector ==
    /\ starting # Nothing /\ starting' = Nothing
    /\ IF taken(starting.port)
       THEN perfmon' = failedToStart /\ UNCHANGED <<listener, started>>
       ELSE /\ listener' = [listener EXCEPT ![started + 1] = Reflector(starting)]
            /\ perfmon' = [cancel |-> started + 1, port |-> starting.port, allowed |-> starting.cidrs]
            /\ started' = started + 1
    /\ UNCHANGED <<client, link, nfaults>>

(* The goroutine that waits for the context closes the listener, and with  *)
(* it the connections nobody has accepted.                                 *)
CloseListener(l) ==
    /\ listener[l].open /\ listener[l].cancelled
    /\ listener' = [listener EXCEPT ![l].open = FALSE, ![l].accepting = FALSE]
    /\ link' = [c \in Peers |-> IF link[c].at = "backlog" /\ link[c].on = l
                                THEN [link[c] EXCEPT !.at = "broken"] ELSE link[c]]
    /\ UNCHANGED <<started, perfmon, starting, client, nfaults>>

(* Accept fails on an open listener: the loop ends and nobody notices. *)
AcceptFails(l) ==
    /\ listener[l].accepting /\ nfaults < MaxFaults
    /\ listener' = [listener EXCEPT ![l].accepting = FALSE]
    /\ nfaults' = nfaults + 1
    /\ UNCHANGED <<started, perfmon, starting, client, link>>

(* Mutant of connAllowed: no allowlist, no restriction. *)
connAllowedOpen(c, allowed) == allowed = <<>> \/ \E i \in DOMAIN allowed : c \in allowed[i]

connAllowed(c, allowed) == \E i \in DOMAIN allowed : c \in allowed[i]

(* The peers an allowlist names. *)
Named(allowed) == {p \in Peers : \E i \in DOMAIN allowed : p \in allowed[i]}

Accept(c) ==
    LET l == link[c].on IN
    /\ link[c].at = "backlog" /\ listener[l].accepting
    /\ link' = [link EXCEPT ![c].at = IF connAllowed(c, listener[l].allowed) THEN "served" ELSE "closed"]
    /\ client' = IF connAllowed(c, listener[l].allowed)
                 THEN [client EXCEPT ![c].by = Append(@, Named(listener[l].allowed))] ELSE client
    /\ UNCHANGED <<reflVars, nfaults>>

(* handleReflectorConn: the handshake is answered, *)
AnswerHello(c) ==
    /\ link[c].at = "served" /\ link[c].srv = "hello" /\ client[c].pc = "hello"
    /\ link' = [link EXCEPT ![c].srv = "header"]
    /\ UNCHANGED <<reflVars, client, nfaults>>

(* a duration out of range ends the connection, *)
ReadHeader(c) ==
    /\ link[c].at = "served" /\ link[c].srv = "header" /\ client[c].pc = "stream"
    /\ link' = [link EXCEPT ![c] = IF client[c].dur = 0 \/ client[c].dur > MaxDuration
                                   THEN [@ EXCEPT !.at = "closed"] ELSE [@ EXCEPT !.srv = "data"]]
    /\ UNCHANGED <<reflVars, client, nfaults>>

(* an upload is read to its end and counted, *)
CountUpload(c) ==
    /\ link[c].at = "served" /\ link[c].srv = "data" /\ client[c].phase = "upload"
    /\ link[c].data # "none" /\ link[c].half
    /\ link' = [link EXCEPT ![c].counted = link[c].data, ![c].at = "closed"]
    /\ UNCHANGED <<reflVars, client, nfaults>>

(* a download is sent for its time and ended by closing. *)
SendDownload(c) ==
    /\ link[c].at = "served" /\ link[c].srv = "data" /\ client[c].phase = "download"
    /\ link' = [link EXCEPT ![c] = IF @.data = "none" THEN [@ EXCEPT !.data = "some"]
                                   ELSE [@ EXCEPT !.data = "all", !.at = "closed"]]
    /\ UNCHANGED <<reflVars, client, nfaults>>

(* The network or a deadline breaks a connection, or the reflector's side  *)
(* gives up what it serves (an error of its own, or its process ends),     *)
(* which closes it in good order.                                          *)
Cut(c) ==
    /\ link[c].at \in {"backlog", "served"} /\ nfaults < MaxFaults
    /\ \E how \in IF link[c].at = "served" THEN {"broken", "closed"} ELSE {"broken"} :
          link' = [link EXCEPT ![c].at = how]
    /\ nfaults' = nfaults + 1
    /\ UNCHANGED <<reflVars, client>>

-----------------------------------------------------------------------------
(* The client *)

perfmonDuration(d) == IF d = 0 THEN 5 ELSE d

(* RunClient, for a run after the one before has been reported. *)
RunClient(c, d) ==
    /\ client[c].pc \in {"idle", "done"}
    /\ client' = [client EXCEPT ![c] = [Idle EXCEPT !.pc = "dial", !.dur = perfmonDuration(d)]]
    /\ link' = [link EXCEPT ![c] = NoLink]
    /\ UNCHANGED <<reflVars, nfaults>>

failed(c, step) == client' = [client EXCEPT ![c].pc = "done", ![c].failedStep = step]
lost(c) == link[c].at \in {"closed", "broken"}

dial(c) ==
    /\ client[c].pc = "dial"
    /\ IF taken(TargetPort)
       THEN /\ \E l \in Listeners : /\ listener[l].open /\ listener[l].port = TargetPort
                                    /\ link' = [link EXCEPT ![c] = [NoLink EXCEPT !.at = "backlog", !.on = l]]
            /\ client' = [client EXCEPT ![c].pc = "hello"]
       ELSE failed(c, "connect") /\ UNCHANGED link
    /\ UNCHANGED <<reflVars, nfaults>>

(* readHandshake, then the phase header is written.  An answer that came   *)
(* before the close is read all the same.                                  *)
readHandshake(c) ==
    /\ client[c].pc = "hello" /\ (link[c].srv # "hello" \/ lost(c))
    /\ IF link[c].srv # "hello" /\ link[c].at # "broken" THEN client' = [client EXCEPT ![c].pc = "stream"]
       ELSE failed(c, "handshake")
    /\ UNCHANGED <<reflVars, link, nfaults>>

(* streamFor: the data of the upload, then CloseWrite. *)
streamFor(c) ==
    /\ client[c].pc = "stream" /\ client[c].phase = "upload" /\ ~link[c].half
    /\ IF lost(c) THEN failed(c, "upload") /\ UNCHANGED link
       ELSE /\ link' = [link EXCEPT ![c] = IF @.data = "none" THEN [@ EXCEPT !.data = "some"]
                                           ELSE [@ EXCEPT !.data = "all", !.half = TRUE]]
            /\ UNCHANGED client
    /\ UNCHANGED <<reflVars, nfaults>>

(* runUploadConn reads the count, which the reflector sends before it      *)
(* closes; the next connection is for the download.                        *)
runUploadConn(c) ==
    /\ client[c].pc = "stream" /\ client[c].phase = "upload" /\ link[c].half /\ lost(c)
    /\ IF link[c].counted = "none" THEN failed(c, "upload") /\ UNCHANGED link
       ELSE /\ client' = [client EXCEPT ![c].upload = link[c].counted, ![c].phase = "download", ![c].pc = "dial"]
            /\ link' = [link EXCEPT ![c] = NoLink]
    /\ UNCHANGED <<reflVars, nfaults>>

(* runDownloadConn reads to the end: an error after some data is no error, *)
(* and no data is none either if the connection is closed in good order    *)
(* (a header nobody has read may make a reset of that).                    *)
runDownloadConn(c) ==
    /\ client[c].pc = "stream" /\ client[c].phase = "download" /\ lost(c)
    /\ \/ /\ link[c].data = "none" /\ (link[c].at = "broken" \/ link[c].srv = "header")
          /\ failed(c, "download")
       \/ /\ link[c].data # "none" \/ link[c].at = "closed"
          /\ client' = [client EXCEPT ![c].pc = "done", ![c].success = TRUE]
    /\ UNCHANGED <<reflVars, link, nfaults>>

PerfmonNext ==
    \/ \E s \in Settings : reconcilePerfmonReflector(s)
    \/ startReflector
    \/ \E l \in Listeners : CloseListener(l) \/ AcceptFails(l)
    \/ \E c \in Peers :
          \/ Accept(c) \/ AnswerHello(c) \/ ReadHeader(c) \/ CountUpload(c) \/ SendDownload(c) \/ Cut(c)
          \/ dial(c) \/ readHandshake(c) \/ streamFor(c) \/ runUploadConn(c) \/ runDownloadConn(c)
          \/ \E d \in Durations : RunClient(c, d)

-----------------------------------------------------------------------------
(* Properties *)

(* What the agent has on record of its reflector is what there is: exactly *)
(* the recorded listener is meant to go on, on the recorded port and for   *)
(* the recorded peers, whichever starts have failed; every other one has   *)
(* been told to stop; and no port has two.                                 *)
ReflectorKnown == starting = Nothing =>
    /\ \A l \in 1 .. started :
          listener[l].cancelled = (l # perfmon.cancel)
    /\ perfmon.cancel # 0 =>
          /\ listener[perfmon.cancel].open
          /\ listener[perfmon.cancel].port = perfmon.port
          /\ listener[perfmon.cancel].allowed = perfmon.allowed
    /\ \A k, l \in Listeners :
          k # l /\ listener[k].open /\ listener[l].open => listener[k].port # listener[l].port

(* A successful run is one that was let in twice: both of its connections  *)
(* were accepted under an allowlist with this peer in it, the upload's     *)
(* count is that of everything sent, its duration was one the reflector    *)
(* honours, and if its download brought nothing, that connection was       *)
(* closed in good order after the handshake, never broken.                 *)
SuccessEarned ==
    \A c \in Peers : client[c].success =>
       /\ Len(client[c].by) = 2 /\ \A i \in 1 .. 2 : c \in client[c].by[i]
       /\ client[c].upload = "all"
       /\ link[c].data # "none" \/ (link[c].at = "closed" /\ link[c].srv # "hello")
       /\ client[c].dur \in 1 .. MaxDuration

=============================================================================

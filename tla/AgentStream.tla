---------------------------- MODULE AgentStream ----------------------------
(***************************************************************************)
(* The agent's side of the control stream (internal/agent/agent.go,        *)
(* scheduler.go).  Run opens one stream after another; runStream starts a  *)
(* receiver and a scheduler goroutine per stream and does not wait for     *)
(* them when it returns, so those of a lost stream may still be at work    *)
(* when the next one is up.  Receiver and scheduler are joined by one      *)
(* channel for configurations and one for commands.                        *)
(*                                                                         *)
(* The tests of a configuration belong to the stream; the WLAN interface   *)
(* override and the perfmon reflector belong to the process.               *)
(***************************************************************************)
EXTENDS Naturals, Sequences

CONSTANTS
    Tests,
    MaxStreams,   \* bound: streams opened
    MaxMessages,  \* bound: messages the server sends
    CfgCap,       \* capacity of cfgCh (1 in the code)
    CmdCap,       \* capacity of cmdCh (4 in the code)
    None

ASSUME AgentBounds == MaxStreams \in Nat /\ MaxMessages \in Nat
ASSUME ChannelCaps == CfgCap \in Nat \ {0} /\ CmdCap \in Nat \ {0}
ASSUME AgentNone == None \notin Tests /\ None \notin [rev : Nat, tests : SUBSET Tests]

Streams == 1 .. MaxStreams

VARIABLES
    cur,      \* the newest stream, 0 before the first
    up,       \* runStream of cur is in its send loop
    live,     \* per stream: streamCtx is not cancelled
    wire,     \* per stream: messages of the server not yet received
    last,     \* per stream: the last configuration the server sent on it
    sentN,    \* messages sent so far; numbers the configurations
    rpc,      \* per stream: where the receiver is
    msg,      \* per stream: the message the receiver holds
    cfgCh, cmdCh,
    spc,      \* per stream: where schedule is
    specs,    \* per stream: the configuration whose tests are scheduled
    iface,    \* Agent.wlanIfaceOverride: the configuration it is from
    refl,     \* the perfmon reflector: the configuration it runs by, None when off
    ran,      \* history: commands that started a test
    unknown   \* history: commands refused for an unknown test

streamVars == <<cur, up, live>>
serverVars == <<wire, last, sentN>>
receiverVars == <<rpc, msg>>
schedulerVars == <<spc, specs, iface, refl, ran, unknown>>
vars == <<streamVars, serverVars, receiverVars, cfgCh, cmdCh, schedulerVars>>

Config == [rev : Nat, tests : SUBSET Tests]
Command == [test : Tests, rev : Nat]

TypeOK ==
    /\ cur \in 0 .. MaxStreams /\ up \in BOOLEAN
    /\ live \in [Streams -> BOOLEAN]
    /\ wire \in [Streams -> Seq(Config \cup Command)]
    /\ last \in [Streams -> Config \cup {None}]
    /\ sentN \in 0 .. MaxMessages
    /\ rpc \in [Streams -> {"none", "recv", "config", "command", "done"}]
    /\ msg \in [Streams -> Config \cup Command \cup {None}]
    /\ cfgCh \in [Streams -> Seq(Config)] /\ cmdCh \in [Streams -> Seq(Command)]
    /\ \A g \in Streams : Len(cfgCh[g]) <= CfgCap /\ Len(cmdCh[g]) <= CmdCap
    /\ spc \in [Streams -> {"none", "select", "reconcile", "setIface", "done"}]
    /\ specs \in [Streams -> Config \cup {None}]
    /\ iface \in Config \cup {None} /\ refl \in Config \cup {None}
    /\ ran \subseteq Command /\ unknown \subseteq Command

Init ==
    /\ cur = 0 /\ up = FALSE
    /\ live = [g \in Streams |-> FALSE]
    /\ wire = [g \in Streams |-> <<>>] /\ last = [g \in Streams |-> None] /\ sentN = 0
    /\ rpc = [g \in Streams |-> "none"] /\ msg = [g \in Streams |-> None]
    /\ cfgCh = [g \in Streams |-> <<>>] /\ cmdCh = [g \in Streams |-> <<>>]
    /\ spc = [g \in Streams |-> "none"] /\ specs = [g \in Streams |-> None]
    /\ iface = None /\ refl = None
    /\ ran = {} /\ unknown = {}

-----------------------------------------------------------------------------
(* The server, as ConnRegistry has it: a configuration first, then pushes; *)
(* a command only for a test the agent has been sent.                      *)
SendConfig(g, tests) ==
    LET cfg == [rev |-> sentN, tests |-> tests] IN
    /\ g = cur /\ up /\ sentN < MaxMessages
    /\ sentN' = sentN + 1
    /\ wire' = [wire EXCEPT ![g] = Append(@, cfg)]
    /\ last' = [last EXCEPT ![g] = cfg]
    /\ UNCHANGED <<streamVars, receiverVars, cfgCh, cmdCh, schedulerVars>>

SendCommand(g, test) ==
    /\ g = cur /\ up /\ sentN < MaxMessages
    /\ last[g] # None /\ test \in last[g].tests
    /\ sentN' = sentN + 1
    /\ wire' = [wire EXCEPT ![g] = Append(@, [test |-> test, rev |-> last[g].rev])]
    /\ UNCHANGED <<streamVars, last, receiverVars, cfgCh, cmdCh, schedulerVars>>

-----------------------------------------------------------------------------
(* Run and runStream: register, start the goroutines, enter the send loop. *)
Connect(g) ==
    /\ ~up /\ g = cur + 1
    /\ cur' = g /\ up' = TRUE
    /\ live' = [live EXCEPT ![g] = TRUE]
    /\ rpc' = [rpc EXCEPT ![g] = "recv"]
    /\ spc' = [spc EXCEPT ![g] = "select"]
    /\ UNCHANGED <<serverVars, msg, cfgCh, cmdCh, specs, iface, refl, ran, unknown>>

(* The send loop returns (a Send failed, recvErr, streamCtx done) and the  *)
(* deferred cancel runs.                                                   *)
StreamEnds(g) ==
    /\ up /\ g = cur
    /\ up' = FALSE
    /\ live' = [live EXCEPT ![g] = FALSE]
    /\ UNCHANGED <<cur, serverVars, receiverVars, cfgCh, cmdCh, schedulerVars>>

-----------------------------------------------------------------------------
(* The receiver.  A configuration is told from a command by its tests. *)
isConfig(m) == "tests" \in DOMAIN m

(* Mutant of Recv: messages are handled as they come to hand, the newest   *)
(* first.                                                                  *)
RecvNewest(g) ==
    LET m == wire[g][Len(wire[g])] IN
    /\ rpc[g] = "recv" /\ live[g] /\ wire[g] # <<>>
    /\ wire' = [wire EXCEPT ![g] = SubSeq(@, 1, Len(@) - 1)]
    /\ msg' = [msg EXCEPT ![g] = m]
    /\ rpc' = [rpc EXCEPT ![g] = IF isConfig(m) THEN "config" ELSE "command"]
    /\ UNCHANGED <<streamVars, last, sentN, cfgCh, cmdCh, schedulerVars>>

Recv(g) ==
    /\ rpc[g] = "recv" /\ live[g] /\ wire[g] # <<>>
    /\ wire' = [wire EXCEPT ![g] = Tail(@)]
    /\ msg' = [msg EXCEPT ![g] = Head(wire[g])]
    /\ rpc' = [rpc EXCEPT ![g] = IF isConfig(Head(wire[g])) THEN "config" ELSE "command"]
    /\ UNCHANGED <<streamVars, last, sentN, cfgCh, cmdCh, schedulerVars>>

(* The stream broke, or its context is done: recvErr, cancel, return. *)
RecvFails(g) ==
    /\ rpc[g] = "recv"
    /\ rpc' = [rpc EXCEPT ![g] = "done"]
    /\ live' = [live EXCEPT ![g] = FALSE]
    /\ UNCHANGED <<cur, up, serverVars, msg, cfgCh, cmdCh, schedulerVars>>

(* Mutant of DeliverConfig: a configuration that finds the channel full is *)
(* dropped.                                                                *)
DeliverConfigOrDrop(g) ==
    /\ rpc[g] = "config"
    /\ cfgCh' = IF Len(cfgCh[g]) < CfgCap
                THEN [cfgCh EXCEPT ![g] = Append(@, msg[g])] ELSE cfgCh
    /\ rpc' = [rpc EXCEPT ![g] = "recv"]
    /\ msg' = [msg EXCEPT ![g] = None]
    /\ UNCHANGED <<streamVars, serverVars, cmdCh, schedulerVars>>

(* Both sends wait for room, whatever becomes of the stream. *)
DeliverConfig(g) ==
    /\ rpc[g] = "config" /\ Len(cfgCh[g]) < CfgCap
    /\ cfgCh' = [cfgCh EXCEPT ![g] = Append(@, msg[g])]
    /\ rpc' = [rpc EXCEPT ![g] = "recv"]
    /\ msg' = [msg EXCEPT ![g] = None]
    /\ UNCHANGED <<streamVars, serverVars, cmdCh, schedulerVars>>

DeliverCommand(g) ==
    /\ rpc[g] = "command" /\ Len(cmdCh[g]) < CmdCap
    /\ cmdCh' = [cmdCh EXCEPT ![g] = Append(@, msg[g])]
    /\ rpc' = [rpc EXCEPT ![g] = "recv"]
    /\ msg' = [msg EXCEPT ![g] = None]
    /\ UNCHANGED <<streamVars, serverVars, cfgCh, schedulerVars>>

-----------------------------------------------------------------------------
(* The scheduler's select: any ready case may be taken. *)

(* A configuration replaces the running tests, then the reflector and the  *)
(* interface override are matched to it, each under its own mutex.         *)
TakeConfig(g) ==
    /\ spc[g] = "select" /\ cfgCh[g] # <<>>
    /\ specs' = [specs EXCEPT ![g] = Head(cfgCh[g])]
    /\ cfgCh' = [cfgCh EXCEPT ![g] = Tail(@)]
    /\ spc' = [spc EXCEPT ![g] = "reconcile"]
    /\ UNCHANGED <<streamVars, serverVars, receiverVars, cmdCh, iface, refl, ran, unknown>>

(* Matched; or off, the port being taken; or unchanged, the CIDRs being    *)
(* invalid.                                                                *)
reconcilePerfmonReflector(g) ==
    /\ spc[g] = "reconcile"
    /\ refl' \in {specs[g], None, refl}
    /\ spc' = [spc EXCEPT ![g] = "setIface"]
    /\ UNCHANGED <<streamVars, serverVars, receiverVars, cfgCh, cmdCh, specs, iface, ran,
                   unknown>>

setWlanIface(g) ==
    /\ spc[g] = "setIface"
    /\ iface' = specs[g]
    /\ spc' = [spc EXCEPT ![g] = "select"]
    /\ UNCHANGED <<streamVars, serverVars, receiverVars, cfgCh, cmdCh, specs, refl, ran,
                   unknown>>

TakeCommand(g) ==
    LET cmd == Head(cmdCh[g])
        known == specs[g] # None /\ cmd.test \in specs[g].tests
    IN  /\ spc[g] = "select" /\ cmdCh[g] # <<>>
        /\ cmdCh' = [cmdCh EXCEPT ![g] = Tail(@)]
        /\ ran' = IF known THEN ran \cup {cmd} ELSE ran
        /\ unknown' = IF known THEN unknown ELSE unknown \cup {cmd}
        /\ UNCHANGED <<streamVars, serverVars, receiverVars, cfgCh, spc, specs, iface, refl>>

(* Mutant of SchedulerEnds: the scheduler watches the process's context,   *)
(* which outlives the stream.                                              *)
SchedulerOutlives(g) == spc[g] = "done" /\ UNCHANGED vars

SchedulerEnds(g) ==
    /\ spc[g] = "select" /\ ~live[g]
    /\ spc' = [spc EXCEPT ![g] = "done"]
    /\ UNCHANGED <<streamVars, serverVars, receiverVars, cfgCh, cmdCh, specs, iface, refl,
                   ran, unknown>>

-----------------------------------------------------------------------------
Receiver(g) == Recv(g) \/ DeliverConfig(g) \/ DeliverCommand(g) \/ RecvFails(g)

Scheduler(g) ==
    \/ TakeConfig(g) \/ reconcilePerfmonReflector(g) \/ setWlanIface(g)
    \/ TakeCommand(g) \/ SchedulerEnds(g)

Server(g) == \/ \E tests \in SUBSET Tests : SendConfig(g, tests)
             \/ \E test \in Tests : SendCommand(g, test)

Next == \E g \in Streams : Connect(g) \/ StreamEnds(g) \/ Server(g) \/ Receiver(g) \/ Scheduler(g)

(* Go runs every goroutine that can go on; the network and the server owe  *)
(* nothing.                                                                *)
Fairness == \A g \in Streams : WF_vars(Scheduler(g)) /\ WF_vars(Receiver(g))

Spec == Init /\ [][Next]_vars /\ Fairness

-----------------------------------------------------------------------------
(* Properties *)

(* Stream g is up and everything sent on it has been dealt with. *)
Settled(g) ==
    /\ g = cur /\ up /\ live[g]
    /\ wire[g] = <<>> /\ rpc[g] = "recv"
    /\ cfgCh[g] = <<>> /\ cmdCh[g] = <<>>
    /\ spc[g] = "select"

(* Once things have settled, the tests that run are those of the last      *)
(* configuration sent on the stream, in spite of the bounded channel and   *)
(* whatever a previous stream's goroutines do.                             *)
ScheduleCurrent ==
    \A g \in Streams : Settled(g) => specs[g] = last[g]

(* Within a stream the process-wide settings follow the configurations in  *)
(* the order sent: the reflector and the interface override are never set  *)
(* back to an older configuration by the newest stream's scheduler.        *)
NewestStreamMovesOn ==
    [][\A g \in Streams : g = cur /\ spc[g] \in {"reconcile", "setIface"} /\ spc'[g] # spc[g] =>
          /\ refl # None /\ refl' # None => refl'.rev >= refl.rev
          /\ iface # None /\ iface' # None => iface'.rev >= iface.rev]_vars

(* Once a stream is gone its scheduler ends, and with it the tests of the  *)
(* stream: no test of a lost stream runs beside those of the next one for  *)
(* ever.                                                                   *)
SchedulerGoes == \A g \in Streams : (spc[g] # "none" /\ ~live[g]) ~> spc[g] = "done"

=============================================================================

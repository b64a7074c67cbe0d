------------------------------ MODULE TestRuns ------------------------------
(***************************************************************************)
(* The test runs of one agent stream (internal/agent/scheduler.go) and the *)
(* radio two of the test types share (internal/probe/wlanactive_linux.go,  *)
(* wlansense_linux.go).  A configuration starts one goroutine per test,    *)
(* which runs the test at once and then on every tick; a command starts    *)
(* one more run under the context of the stream.  The next configuration   *)
(* cancels the goroutines of the last one and does not wait for them.      *)
(* Every run reports through one bounded channel.                          *)
(*                                                                         *)
(* wlanMu guards the radio: a sweep needs it in monitor mode, a connection *)
(* test in managed mode, each puts it back, and the scheduler itself takes *)
(* the mutex to set the interface override.                                *)
(***************************************************************************)
EXTENDS Integers, Sequences, FiniteSets

CONSTANTS
    Tests,
    Mixes,        \* the tests the server has and the type of each
    Items,        \* targets of a test that has a list of them
    ResultCap,    \* capacity of the results channel (16 in the code)
    MaxConfigs,   \* bound: configurations taken
    MaxPasses,    \* bound: passes started, by a configuration, a tick or a command
    MaxFaults,    \* bound: commands on the interface that fail by themselves
    None

Lists == {"ping", "dns", "tcp", "saas"}
Wlan == {"wlan_passive", "wlan_active"}
Kinds == Lists \cup Wlan \cup {"http", "speedtest", "perfmon", "traceroute"}

ASSUME RunsMixes == \A mix \in Mixes : DOMAIN mix \subseteq Tests /\ \A t \in DOMAIN mix : mix[t] \in Kinds
ASSUME RunsBounds ==
    /\ Items \in Nat \ {0} /\ ResultCap \in Nat \ {0}
    /\ MaxConfigs \in Nat /\ MaxPasses \in Nat /\ MaxFaults \in Nat
ASSUME RunsNone == None \notin (Tests \X Nat) \cup {"managed", "monitor", "ok", "failed", "cut", "error"}

(* A run goes by its test and its context: the number of a configuration,  *)
(* or 0 for the stream's own.                                              *)
Runs == Tests \X (0 .. MaxConfigs)

VARIABLES
    kind,      \* the type of each test
    live,      \* the stream's context is not cancelled
    cur,       \* configurations taken so far
    assigned,  \* the tests of the last one
    spc,       \* where schedule is
    pc,        \* per run: where it is
    pos,       \* per run: the item it is at
    res,       \* per run: what the probe gave
    said,      \* per run: items reported in this pass
    results,   \* the channel
    mu,        \* wlanMu: the run that holds it
    radio,     \* mode, link state, test address and test route of the interface
    home,      \* the mode the interface had at the start
    prev,      \* per run: the mode to restore
    route,     \* per run: setupTestRoute was not called, succeeded or failed
    left,      \* history: what failed commands have left of the interface
    passes,    \* passes started so far
    nfaults    \* commands that have failed by themselves

schedVars == <<kind, live, cur, assigned, spc>>
runVars == <<pc, pos, res, said>>
radioVars == <<radio, home, prev, route, left, nfaults>>
vars == <<schedVars, runVars, results, mu, radioVars, passes>>

Radios == [mode : {"managed", "monitor"}, up : BOOLEAN, addr : BOOLEAN, route : BOOLEAN]

atHome(mode) == [mode |-> mode, up |-> TRUE, addr |-> FALSE, route |-> FALSE]

Init ==
    /\ kind \in Mixes
    /\ live = TRUE /\ cur = 0 /\ assigned = {} /\ spc = "select"
    /\ pc = [p \in Runs |-> "none"] /\ pos = [p \in Runs |-> 1]
    /\ res = [p \in Runs |-> None] /\ said = [p \in Runs |-> <<>>]
    /\ results = <<>>
    /\ mu = None
    /\ home \in {"managed", "monitor"} /\ radio = atHome(home)
    /\ prev = [p \in Runs |-> None] /\ route = [p \in Runs |-> "none"]
    /\ left = {} /\ nfaults = 0 /\ passes = 0

-----------------------------------------------------------------------------
(* Contexts *)

(* ctx.Err() # nil for the context of run p. *)
cancelled(p) == ~live \/ (p[2] # 0 /\ p[2] # cur)

(* The send loop of the stream returns: its context is cancelled. *)
StreamEnds ==
    /\ live
    /\ live' = FALSE
    /\ UNCHANGED <<kind, cur, assigned, spc, runVars, results, mu, radioVars, passes>>

(* The send loop takes one result off the channel. *)
TakeResult ==
    /\ live /\ results # <<>>
    /\ results' = Tail(results)
    /\ UNCHANGED <<schedVars, runVars, mu, radioVars, passes>>

-----------------------------------------------------------------------------
(* Starting and ending a pass *)

(* runTest: the first thing a run of this type does. *)
runTest(p) == IF kind[p[1]] \in Wlan THEN "iface" ELSE "probe"

(* The run returns: to its ticker, or for good when a command started it. *)
return(p) == IF p[2] = 0 THEN "none" ELSE "idle"

itemsOf(p) == IF kind[p[1]] \in Lists THEN Items ELSE 1

Starts(ps) ==
    /\ passes' = passes + Cardinality(ps) /\ passes' <= MaxPasses
    /\ pc' = [p \in Runs |-> IF p \in ps THEN runTest(p) ELSE pc[p]]
    /\ pos' = [p \in Runs |-> IF p \in ps THEN 1 ELSE pos[p]]
    /\ said' = [p \in Runs |-> IF p \in ps THEN <<>> ELSE said[p]]
    /\ res' = [p \in Runs |-> IF p \in ps THEN None ELSE res[p]]

Goes(p, where, what) ==
    /\ pc' = [pc EXCEPT ![p] = where]
    /\ res' = [res EXCEPT ![p] = what]

(* startTest for every test of a new configuration, the tests of the last  *)
(* one being cancelled; the override is set after that, under wlanMu.  The *)
(* select may take a queued configuration though the stream is lost.       *)
TakeConfig(tests) ==
    /\ spc = "select" /\ cur < MaxConfigs
    /\ cur' = cur + 1 /\ assigned' = tests
    /\ Starts(tests \X {cur + 1})
    /\ spc' = "setIface"
    /\ UNCHANGED <<kind, live, results, mu, radioVars>>

setWlanIface ==
    /\ spc = "setIface" /\ mu = None
    /\ spc' = "select"
    /\ UNCHANGED <<kind, live, cur, assigned, runVars, results, mu, radioVars, passes>>

(* One run by command of a test at a time is followed. *)
TakeCommand(test) ==
    /\ spc = "select"
    /\ test \in assigned /\ pc[<<test, 0>>] = "none"
    /\ Starts({<<test, 0>>})
    /\ UNCHANGED <<schedVars, results, mu, radioVars>>

SchedulerEnds ==
    /\ spc = "select" /\ ~live
    /\ spc' = "done"
    /\ UNCHANGED <<kind, live, cur, assigned, runVars, results, mu, radioVars, passes>>

(* runEvery's select: with both ready, either case may be taken. *)
Tick(p) ==
    /\ pc[p] = "idle"
    /\ Starts({p})
    /\ UNCHANGED <<schedVars, results, mu, radioVars>>

TickerEnds(p) ==
    /\ pc[p] = "idle" /\ cancelled(p)
    /\ Goes(p, "done", None)
    /\ said' = [said EXCEPT ![p] = <<>>] /\ pos' = [pos EXCEPT ![p] = 1]
    /\ UNCHANGED <<schedVars, results, mu, radioVars, passes>>

-----------------------------------------------------------------------------
(* The probes.  A measurement is good, or it failed, or it was cut short   *)
(* by the cancellation.                                                    *)

measures(p) == {"ok", "failed"} \cup (IF cancelled(p) THEN {"cut"} ELSE {})

(* Statistics, of which no answer at all is a failure, or an error. *)
Ping(p) == measures(p)

(* A lookup that failed is a measurement.  The context is looked at after  *)
(* the lookup: done by then, the answer is an error whatever it was.       *)
DNSQuery(p) == IF cancelled(p) THEN {"cut"} ELSE {"ok", "failed"}

(* A request that fails is an error; one cut short after its header is not,*)
(* and counts by the status.                                               *)
HTTPCheck(p) == measures(p)

TCPConnect(p) == measures(p)

Probed(p, type, given, how) ==
    /\ pc[p] = "probe" /\ kind[p[1]] = type /\ how \in given
    /\ UNCHANGED <<schedVars, pos, said, results, mu, radioVars, passes>>

(* Ping gives an error when it was cut short, none when it was answered,   *)
(* and either when it was not: statistics without an answer are no error.  *)
PingErrors(how) == CASE how = "ok" -> {FALSE} [] how = "cut" -> {TRUE} [] how = "failed" -> BOOLEAN

(* Mutant of runPings: any failure ends the run. *)
runPingsStops(p, how) ==
    /\ Probed(p, "ping", Ping(p), how)
    /\ \E err \in PingErrors(how) :
          IF err THEN Goes(p, return(p), None) ELSE Goes(p, "send", how)

(* Mutant of runPings: the context is not looked at. *)
runPingsBlind(p, how) ==
    /\ Probed(p, "ping", Ping(p), how)
    /\ Goes(p, "send", how)

(* An error is an error result, unless the run was abandoned. *)
runPings(p, how) ==
    /\ Probed(p, "ping", Ping(p), how)
    /\ \E err \in PingErrors(how) :
          IF err /\ cancelled(p) THEN Goes(p, return(p), None) ELSE Goes(p, "send", how)

(* An error means that the run was abandoned. *)
runDNS(p, how) ==
    /\ Probed(p, "dns", DNSQuery(p), how)
    /\ IF how = "cut" THEN Goes(p, return(p), None) ELSE Goes(p, "send", how)

runHTTP(p, how) ==
    /\ Probed(p, "http", HTTPCheck(p), how)
    /\ IF how # "ok" /\ cancelled(p) THEN Goes(p, return(p), None) ELSE Goes(p, "send", how)

runTCP(p, how) ==
    /\ Probed(p, "tcp", TCPConnect(p), how)
    /\ IF cancelled(p) THEN Goes(p, return(p), None) ELSE Goes(p, "send", how)

(* The three providers give an error for a measurement that was cut short. *)
runSpeedtest(p, how) ==
    /\ Probed(p, "speedtest", measures(p), how)
    /\ IF how # "ok" /\ cancelled(p) THEN Goes(p, return(p), None) ELSE Goes(p, "send", how)

(* RunClient gives no error: what was cut short is a failed step. *)
runPerfmon(p, how) == Probed(p, "perfmon", measures(p), how) /\ Goes(p, "send", how)

(* Traceroute looks at the context before each hop, not after the last: a  *)
(* trace cut short there is a stalled path.                                *)
runTraceroute(p, how) ==
    /\ Probed(p, "traceroute", measures(p), how)
    /\ \/ (how = "failed" => ~cancelled(p)) /\ Goes(p, "send", how)
       \/ how # "ok" /\ cancelled(p) /\ Goes(p, return(p), None)

(* One endpoint by its kind; the run goes on to the next one unless it was *)
(* abandoned.  An endpoint of a kind this agent does not know is skipped.  *)
runSaas(p, how, endpoint) ==
    LET abandoned == cancelled(p) /\ (endpoint = "tcp" \/ how # "ok") IN
    /\ Probed(p, "saas", IF endpoint = "tcp" THEN TCPConnect(p) ELSE HTTPCheck(p), how)
    /\ IF endpoint \in {"https", "tcp"} /\ ~abandoned
       THEN Goes(p, "send", how)
       ELSE Goes(p, IF cancelled(p) THEN return(p) ELSE "skip", None)

-----------------------------------------------------------------------------
(* Reporting *)

(* On to the next item, after a report or after an item that has none. *)
moveOn(p) ==
    LET more == pos[p] < itemsOf(p) /\ ~(kind[p[1]] = "saas" /\ cancelled(p)) IN
    /\ Goes(p, IF more THEN "probe" ELSE return(p), None)
    /\ pos' = [pos EXCEPT ![p] = IF more THEN @ + 1 ELSE @]

Skip(p) ==
    /\ pc[p] = "skip"
    /\ moveOn(p)
    /\ said' = [said EXCEPT ![p] = Append(@, pos[p])]
    /\ UNCHANGED <<schedVars, results, mu, radioVars, passes>>

(* newResult and the first case of sendResult's select. *)
sendResult(p) ==
    /\ pc[p] = "send" /\ Len(results) < ResultCap
    /\ results' = Append(results, [run |-> p, item |-> pos[p], how |-> res[p]])
    /\ said' = [said EXCEPT ![p] = Append(@, pos[p])]
    /\ moveOn(p)
    /\ UNCHANGED <<schedVars, mu, radioVars, passes>>

(* Its second case: the context is done. *)
dropResult(p) ==
    /\ pc[p] = "send" /\ cancelled(p)
    /\ moveOn(p)
    /\ UNCHANGED <<schedVars, said, results, mu, radioVars, passes>>

-----------------------------------------------------------------------------
(* The interface.  Each command on it fails when its context is done, and  *)
(* may fail by itself.                                                     *)

mayFail(p) == cancelled(p) \/ nfaults < MaxFaults
fault(p) == nfaults' = IF cancelled(p) THEN nfaults ELSE nfaults + 1

(* Down, type, up: the commands before the one that fails are done, and    *)
(* the failure of the first is ignored.                                    *)
setInterfaceTypeFails(type) ==
    {[radio EXCEPT !.up = u, !.mode = m] : u \in {radio.up, FALSE}, m \in {radio.mode, type}}
setInterfaceType(type) == [radio EXCEPT !.up = TRUE, !.mode = type]

differ(r, s) == {part \in DOMAIN r : r[part] # s[part]}

wanted(p) == IF kind[p[1]] = "wlan_passive" THEN "monitor" ELSE "managed"

(* The override, or the first interface that will do; none of use is an    *)
(* error result.  A cancelled context makes `iw dev` find none, which the  *)
(* run does not tell from having none.  wlanIface takes and releases       *)
(* wlanMu.                                                                 *)
chooseInterface(p, type, usable) ==
    /\ pc[p] = "iface" /\ kind[p[1]] = type /\ mu = None
    /\ IF usable THEN Goes(p, "lock", None)
       ELSE \E how \in measures(p) \ {"ok"} : Goes(p, "send", how)
    /\ UNCHANGED <<schedVars, pos, said, results, mu, radioVars, passes>>

runWlanPassive(p, usable) == chooseInterface(p, "wlan_passive", usable)
runWlanActive(p, usable) == chooseInterface(p, "wlan_active", usable)

lockRadio(p) ==
    /\ pc[p] = "lock" /\ mu = None
    /\ mu' = p
    /\ pc' = [pc EXCEPT ![p] = "switch"]
    /\ UNCHANGED <<schedVars, pos, res, said, results, radioVars, passes>>

(* The interface's type is read and, if another is wanted, changed; from   *)
(* here on it will be restored.                                            *)
switchMode(p) ==
    /\ pc[p] = "switch"
    /\ Goes(p, "air", None)
    /\ prev' = [prev EXCEPT ![p] = IF radio.mode = wanted(p) THEN None ELSE radio.mode]
    /\ radio' = IF radio.mode = wanted(p) THEN radio ELSE setInterfaceType(wanted(p))
    /\ UNCHANGED <<schedVars, pos, said, results, mu, home, route, left, nfaults, passes>>

(* The type cannot be read, or the change fails on the way: the run gives  *)
(* up with nothing to restore registered.                                  *)
switchModeFails(p) ==
    /\ pc[p] = "switch" /\ mayFail(p) /\ fault(p)
    /\ Goes(p, "off", "error")
    /\ radio' \in {radio} \cup (IF radio.mode = wanted(p) THEN {} ELSE setInterfaceTypeFails(wanted(p)))
    /\ left' = left \cup differ(radio', radio)
    /\ UNCHANGED <<schedVars, pos, said, results, mu, home, prev, route, passes>>

(* The sweep of the channels, given up when the context is done. *)
senseImpl(p) ==
    /\ pc[p] = "air" /\ kind[p[1]] = "wlan_passive"
    /\ \/ Goes(p, "off", "ok")
       \/ cancelled(p) /\ Goes(p, "off", "error")
    /\ UNCHANGED <<schedVars, pos, said, results, mu, radioVars, passes>>

(* wpa_supplicant, then DHCP, each with its timeout. *)
wlanActiveConnects(p) ==
    /\ pc[p] = "air" /\ kind[p[1]] = "wlan_active"
    /\ pc' = [pc EXCEPT ![p] = "route"]
    /\ UNCHANGED <<schedVars, pos, res, said, results, mu, radioVars, passes>>

wlanActiveFails(p, how) ==
    /\ pc[p] = "air" /\ kind[p[1]] = "wlan_active"
    /\ how \in (measures(p) \ {"ok"}) \cup {"error"}
    /\ IF how = "error" THEN mayFail(p) /\ fault(p) ELSE nfaults' = nfaults
    /\ Goes(p, "off", how)
    /\ UNCHANGED <<schedVars, pos, said, results, mu, radio, home, prev, route, left, passes>>

(* The leased address and a default route of its own table; a lease        *)
(* without a gateway has neither.                                          *)
setupTestRoute(p, gateway) ==
    /\ pc[p] = "route"
    /\ ~gateway \/ (~radio.addr /\ ~radio.route)
    /\ Goes(p, "load", None)
    /\ radio' = IF gateway THEN [radio EXCEPT !.addr = TRUE, !.route = TRUE] ELSE radio
    /\ route' = [route EXCEPT ![p] = IF gateway THEN "set" ELSE "none"]
    /\ UNCHANGED <<schedVars, pos, said, results, mu, home, prev, left, nfaults, passes>>

(* The first command fails (an address that is there already makes it), or *)
(* a later one does: what was set before it stays.                         *)
setupTestRouteFails(p) ==
    /\ pc[p] = "route"
    /\ Goes(p, "load", None)
    /\ \/ /\ radio.addr \/ radio.route
          /\ radio' = [radio EXCEPT !.addr = TRUE] /\ nfaults' = nfaults
       \/ /\ mayFail(p) /\ fault(p)
          /\ \/ radio' = radio
             \/ radio' = [radio EXCEPT !.addr = TRUE]
             \/ radio' = [radio EXCEPT !.addr = TRUE, !.route = TRUE]
    /\ left' = left \cup differ(radio', radio)
    /\ route' = [route EXCEPT ![p] = "err"]
    /\ UNCHANGED <<schedVars, pos, said, results, mu, home, prev, passes>>

(* The ping of the gateway, and the download if the test asks for one,     *)
(* which needs the route.                                                  *)
downloadVia(p, asked, how) ==
    /\ pc[p] = "load" /\ how \in measures(p)
    /\ Goes(p, "off", IF ~asked THEN "ok" ELSE IF route[p] = "err" THEN "failed" ELSE how)
    /\ UNCHANGED <<schedVars, pos, said, results, mu, radioVars, passes>>

(* teardownTestRoute: what setupTestRoute has set, when it succeeded. *)
teardownTestRoute(p) ==
    IF route[p] = "set" THEN [radio EXCEPT !.addr = FALSE, !.route = FALSE] ELSE radio

(* Mutant of restored: the commands run under the context of the test. *)
restoredUnderCtx(p) ==
    IF prev[p] = None \/ cancelled(p) THEN teardownTestRoute(p)
    ELSE [teardownTestRoute(p) EXCEPT !.mode = prev[p], !.up = TRUE]

(* What the deferred calls do, under a context nothing cancels. *)
restored(p) ==
    IF prev[p] = None THEN teardownTestRoute(p)
    ELSE [teardownTestRoute(p) EXCEPT !.mode = prev[p], !.up = TRUE]

(* Their errors are ignored: each command may fail, and leaves its part of *)
(* the interface as it is, or down.                                        *)
restoredPartly(p) ==
    LET done == restored(p) IN
    {[mode |-> m, up |-> u, addr |-> a, route |-> r] :
        m \in {done.mode, radio.mode}, u \in {done.up, radio.up} \cup (IF prev[p] = None THEN {} ELSE {FALSE}),
        a \in {done.addr, radio.addr}, r \in {done.route, radio.route}}

DeferredCalls(p) ==
    \/ radio' = restored(p) /\ UNCHANGED <<left, nfaults>>
    \/ /\ nfaults < MaxFaults /\ nfaults' = nfaults + 1
       /\ radio' \in restoredPartly(p) /\ left' = left \cup differ(radio', restored(p))

(* Mutant of leaveRadio: an early return keeps the mutex. *)
leaveRadioLocked(p) ==
    /\ pc[p] = "off"
    /\ mu' = IF res[p] = "error" THEN mu ELSE None
    /\ DeferredCalls(p)
    /\ IF res[p] = "error" /\ cancelled(p) THEN Goes(p, return(p), None)
       ELSE Goes(p, "send", IF res[p] = "error" THEN "failed" ELSE res[p])
    /\ prev' = [prev EXCEPT ![p] = None] /\ route' = [route EXCEPT ![p] = "none"]
    /\ UNCHANGED <<schedVars, pos, said, results, home, passes>>

(* The deferred calls, the unlock, and what becomes of the outcome: an     *)
(* error is an error result unless the run was abandoned.                  *)
leaveRadio(p) ==
    /\ pc[p] = "off"
    /\ mu' = None
    /\ DeferredCalls(p)
    /\ IF res[p] = "error" /\ cancelled(p) THEN Goes(p, return(p), None)
       ELSE Goes(p, "send", IF res[p] = "error" THEN "failed" ELSE res[p])
    /\ prev' = [prev EXCEPT ![p] = None] /\ route' = [route EXCEPT ![p] = "none"]
    /\ UNCHANGED <<schedVars, pos, said, results, home, passes>>

-----------------------------------------------------------------------------
Probe(p) ==
    \E how \in {"ok", "failed", "cut"} :
       \/ runPings(p, how) \/ runDNS(p, how) \/ runHTTP(p, how) \/ runTCP(p, how)
       \/ runSpeedtest(p, how) \/ runPerfmon(p, how) \/ runTraceroute(p, how)
       \/ \E endpoint \in {"https", "tcp", "other"} : runSaas(p, how, endpoint)

OnAir(p) ==
    \/ switchMode(p) \/ switchModeFails(p) \/ senseImpl(p) \/ wlanActiveConnects(p)
    \/ \E how \in {"failed", "cut", "error"} : wlanActiveFails(p, how)
    \/ \E gateway \in BOOLEAN : setupTestRoute(p, gateway)
    \/ setupTestRouteFails(p)
    \/ \E asked \in BOOLEAN, how \in {"ok", "failed", "cut"} : downloadVia(p, asked, how)
    \/ leaveRadio(p)

Report(p) == sendResult(p) \/ dropResult(p) \/ Skip(p)

Choose(p) == \E usable \in BOOLEAN : runWlanPassive(p, usable) \/ runWlanActive(p, usable)

Run(p) == Probe(p) \/ Report(p) \/ Choose(p) \/ lockRadio(p) \/ OnAir(p)

Scheduler ==
    \/ \E tests \in SUBSET DOMAIN kind : TakeConfig(tests)
    \/ setWlanIface \/ SchedulerEnds
    \/ \E test \in Tests : TakeCommand(test)

Next ==
    \/ StreamEnds \/ TakeResult \/ Scheduler
    \/ \E p \in Runs : Run(p) \/ Tick(p) \/ TickerEnds(p)

(* The runs together go on while one of them can: Go runs its goroutines   *)
(* and every probe ends by itself or by its timeout.  A mutex is handed to *)
(* a waiter that has waited long enough.                                   *)
Fairness ==
    /\ WF_vars(TakeResult) /\ SF_vars(setWlanIface)
    /\ WF_vars(\E p \in Runs : Run(p) \/ TickerEnds(p))

Spec == Init /\ [][Next]_vars /\ Fairness

-----------------------------------------------------------------------------
(* Properties *)

(* A pass that ends while its context is still good has reported every     *)
(* item of the test once and in order, failures included: one target that  *)
(* does not answer hides none of the others.                               *)
PassIsComplete ==
    \A p \in Runs : pc[p] = "idle" /\ ~cancelled(p) => said[p] = [i \in 1 .. itemsOf(p) |-> i]

(* A measurement cut short by a new configuration or a lost stream is not  *)
(* reported as a failure of what was measured.  The runs of four types do  *)
(* not keep to this: perfmon, traceroute and wlan_active get an outcome    *)
(* where the others get an error, and the two wireless ones report that no *)
(* interface was found when the look for one was cut short.                *)
CancelIsNoFailure ==
    \A i \in 1 .. Len(results) :
       results[i].how = "cut" =>
          kind[results[i].run[1]] \in {"perfmon", "traceroute"} \cup Wlan

(* Whenever no run is on the air, each part of the interface is as the     *)
(* agent found it (its mode, the link up, no test address, no test route), *)
(* however the runs were cut short.  The exceptions are the parts that a   *)
(* command has left when it failed: between the commands of one step, or   *)
(* when the interface was to be put back.                                  *)
RadioRestored ==
    (\A p \in Runs : pc[p] \notin {"air", "route", "load", "off"}) =>
       \A part \in DOMAIN radio \ left : radio[part] = atHome(home)[part]

(* Once the stream is lost all of its runs end, behind a full channel that *)
(* nobody reads any more and behind a busy radio, and the scheduler gets   *)
(* past the radio's mutex too.                                             *)
LostStreamWindsDown ==
    ~live ~> spc # "setIface" /\ \A p \in Runs : pc[p] \in {"none", "done"}

=============================================================================

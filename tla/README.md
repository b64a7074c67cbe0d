# net-lama in TLA+

net-lama is a network monitoring system: agents at customer sites run tests
(ping, DNS, HTTP, traceroute, WLAN sensing and others) and report to a server
over one gRPC control stream each. The server keeps tenants, sites, agents,
tests, results and alerts in SQLite, pushes configurations to the agents, and
answers a REST API. This directory holds TLA+ models of it, TLC runs on
small instances, and TLAPS proofs. `PROJECT.json` maps every definition to the
source lines it stands for.

## Inventory

| Component | State | Operations | Talks to |
|---|---|---|---|
| Connection registry (`server.go`) | `connected`, a push channel per connection, `agent_connected` gauge | `ControlStream`, `PushConfigs`, `RefreshAgent`, `RunTest` | agents, REST handlers, store |
| Configuration push (`api/sites.go`, `api/agents.go`) | none between requests | edit a site's tests, edit or delete a test, update or delete an agent, run now | store, registry |
| Alert engine (`alerts.go`) | breach and clear counters in memory, alert rows in the store | evaluate a result, fire, resolve; rule create, update, delete | result ingest, notifications |
| Route-change detection (`pathchange.go`) | results and path_changes tables | compare a run with a window of runs | result ingest, ASN table |
| Agent stream and scheduler (`agent.go`, `scheduler.go`) | channels, test specs, interface override, reflector | reconnect, receive, apply a configuration, run now | server, probes |
| Test runs (`scheduler.go`, `probe/`) | goroutine per test, result channel, radio and its mutex, mode of the interface | tick, run, cancel, report, switch and restore the radio | scheduler, send loop |
| Log shipping (`logbuffer.go`, `logsink.go`) | ring buffer, sink channel, logs table | push, drain, send, prune | send loop, store |
| Throughput test (`probe/perfmon.go`) | listener, port, allowed networks; two connections per run | start, restart, stop; upload, download | scheduler, other agents |
| Traceroute (`probe/traceroute*.go`) | hops so far, a socket per probe | probe a TTL, classify a reply, judge | the network |
| Notifications (`notify.go`) | alert targets; the list of targets of a rule; a goroutine per event and entry of it | create, change, delete; send | alert engine, receivers |
| Overview (`overview.go`) | results in a window | judge a test, a site | results, operators |
| Test types (`testtype/`, `config.go`) | stored definitions, catalogue, capabilities | validate, normalise, expand, filter | REST handlers, registry |
| Agent health (`health.go`) | reconnection times and counts, last stats | record, evaluate | registry, overview |
| Enrollment (`unclaimed.go`) | pending devices, enrolment tokens | report, claim, dismiss | registration, operators |
| Users, sessions, API keys, throttle | tables; failure counters in memory | log in and out, set password, revoke | every REST request |
| Sites, tests, schema, migrations (`store/`) | SQLite tables | create, change, delete with cascades, migrate | everything |
| WLAN retention and roaming | retained sightings per test | merge a sweep, age out | scheduler, results |
| Other probes, catalogues, metrics, TLS, web interface, commands | none, or the last value only | measure, validate, look up, present | |

Components meet in three places. REST handlers change rows and call
`PushConfigs`, `RefreshAgent` or `RunTest`, which put messages in the push
channel of a connection; the handler of that connection sends them on. A result
that arrives on a stream goes through `handleResult`: metrics, route-change
detection, the result row, alert evaluation, in that order and in the goroutine
of that stream. On the agent, a receiver goroutine hands configurations and
commands over to a scheduler goroutine through two channels.

What is hard in this code, and where:

* An agent reconnects before the server has noticed the loss of its old stream,
  so two handlers of one agent coexist; the newer closes the channel of the
  older, while requests hold references to either.
* Locks are released between reading and using: lookup and send in
  `PushConfigs`, building and queueing a configuration, the search for an active
  alert and its insertion.
* Queues are bounded and pushes are dropped when they are full.
* Counters are in memory and alerts on disk, so a restart separates them.
* Rules change under the feet of the engine that counts for them.
* On the agent, goroutines of a lost stream survive it, and a `select` over two
  channels does not keep their order.
* Silence, alternation and changing path lengths look like route changes.

* A REST handler checks rows in one store call and writes in another; cascades
  take rows away in between.
* A run on the agent can be cancelled at any point, also while it holds the radio
  or waits on a full channel that nobody reads any more.
* A listener is closed by a goroutine of its own, and a port is reused at once.
* Replies of the network arrive late, and on a port that is used again.
* Verdicts are drawn from a window of results while agents move and tests change.

`PROJECT.json` lists them as hazards, each with the properties about it or the
reason there is none.

What makes each modelled component correct:

* **Registry:** it names exactly the newest handler in service of each agent; no
  channel is closed twice; an entry goes only by a hand-over or by its own
  handler's cleanup; a replaced handler ends; every request ends; an agent
  that no push missed is sent what is assigned, however requests overlap.
* **Alert engine:** it acts on full streaks only; one alert fires per rule, agent
  and subject; alerts fire and resolve in turn; good results end up resolving.
* **Route changes:** a report is news; a repetition is quiet; the first
  contradicting hop, if new, is reported however long it was silent.
* **Agent stream:** the last configuration sent is the one that runs; settings do
  not move back; the scheduler of a lost stream ends.
* **Test runs:** a pass reports every target once; an abandoned run is no failure,
  but for four types; the interface is put back where the commands succeed; everything a lost stream started ends.
* **WLAN sensing:** narrowing the channels hides no network for long that the
  sweeps could hear; roaming events are the moves of the stations that are listed.
* **Rows:** nothing dangles, nothing joins two tenants, a claim uses up its
  device's row unless the delete fails.
* **Accounts:** no credential outlives its user or a completed change of
  password; failed logins are bounded.
* **Definitions:** what was stored stays acceptable; an agent that can run a test
  gets it.
* **Verdicts:** the tenant's line does not hide a site's; a move is over after one
  window and what the agents' clocks are ahead; dashboard and alerts read a result alike; a health verdict has evidence.
* **Reports, reflector, traceroute, notifications:** a line is shipped once; the
  reflector on record is the one that runs; a success was earned; a path on record
  is the path; a notification is whole.

## Modules

| Module | What it models |
|---|---|
| `ConnRegistry` | `ControlStream` from registration to cleanup, `Server.connected`, push channels, `PushConfigs`, `RefreshAgent`, `RunTest`, and the REST handlers that call them |
| `ConnRegistryProofs` | theorems on `ConnRegistry` |
| `AlertLifecycle` | what the alert table promises for one rule, agent and subject: fire, resolve, in turn |
| `AlertEngine` | `evaluateAlerts`, `decideAlert`, `fireAlert`, `resolveAlert`, rule edits, restarts; implements `AlertLifecycle` |
| `AlertEngineProofs` | theorems on `AlertEngine` |
| `AgentStream` | `Run`, `runStream`, `schedule` with their goroutines and channels |
| `AgentStreamProofs` | theorems on `AgentStream` |
| `TestRuns` | `runEvery`, `runTest` and the run of each test type, `sendResult`, `wlanMu`, the mode of the interface and the test route |
| `WlanSightings` | `processFrame`, `senseImpl`, `mergeWlanRetained`, the channels of the next sweep |
| `TestRunsProofs` | theorems on `TestRuns` and on `WlanSightings` |
| `Inventory` | rows of tenants, sites, tests, agents, assignments, results and pending devices, and the handlers that change them |
| `InventoryProofs` | theorems on `Inventory` |
| `Accounts` | users, sessions, API keys, the throttle, password changes from the API and the console |
| `AccountsProofs` | theorems on `Accounts` |
| `TestDefs` | the registry of types, `ValidateTestDef`, parameters, catalogue, capabilities, `ConfigForAgent` for one test |
| `Overview` | `handleResult` as far as the results table, `testStatus`, `TenantOverview`, the alert engine's `resultState` |
| `Verdicts` | `TestDefs` beside `Overview` |
| `VerdictsProofs` | theorems on `TestDefs` and `Overview` |
| `AgentReports` | log buffer, shipping, sink and table; statistics; reconnections; `EvaluateAgentHealth` |
| `Perfmon` | `reconcilePerfmonReflector`, `Reflector`, `handleReflectorConn`, `RunClient` |
| `Trace` | `Traceroute`, `probeTTL`, the three probes, `classifyICMP`; the network is its environment |
| `PathChange` | the window of past runs, `diffSignatures`, `detectPathChange`, the rows it writes |
| `Notify` | alert targets and their handlers, `notifyTargets` and the four senders |
| `Services` | `AgentReports`, `Perfmon`, `Trace`, `PathChange` and `Notify` beside each other |
| `ServicesProofs` | theorems on the parts of `Services` |
| `MC...` | the constants of a module's runs |

`Verdicts` and `Services` put parts beside each other that share no state. A
variable says which part a behaviour is about; the others stand still in an initial
state. The state space is thus the sum and not the product of theirs, which loses
nothing, since a step of one part neither reads nor writes a variable of another.

A step of a model is what the code does between two points where another
goroutine can get in: a critical section, one store call (the store has one
database connection), one channel operation, one `Send`. A handler with several
such points has a program counter (`pc`, `opc`, `hpc`, `rpc`, `spc`, `req`) and the
locals it carries from one point to the next; a failing store call is an
alternative of its step or an action of its own. So is a command on the interface that
fails, also where the code drops its error. Left out is the failure of a call whose
only effect in the code is an error answer with nothing changed and nothing left to do;
in the model such a request is one that was not made.

Data is reduced to what the properties tell apart. In `ConnRegistry` the tests of
a site are a revision number, an agent's row is its site and name, and a
configuration says which site and revision it was built from; the other
per-agent settings take the same way as the site. In `AlertEngine` a sample has a
numeric value, an outcome and an error flag, and one key of rule, agent and
subject is followed, since keys share nothing. In `PathChange` a run is a
sequence of hops and whether it reached its target, and the table of events is
its number of rows. In `AgentStream` a configuration is a set of tests and a
number in the order of sending. In `TestRuns` a test is its type and a number of
targets and a probe's outcome is a free choice. In `WlanSightings` a frame is who
was heard, on which channel and with which BSSID; others on the air are not followed, but
may fill the lists of 256 so that one that is followed is cut. In `Inventory` a row is the ids
it refers to. In `Accounts` the check of a password may go either way, and a
credential remembers whether a change of password is due to remove it. In
`TestDefs` a text is empty, blank, padded or plain. In `Overview` a result has a
value, an outcome and the time it was measured by the clock of its agent. In `Perfmon` the data of a
connection is none, some or all. In `Trace` a host is its distance. In `Notify` a
configuration is its type and its addresses and a rule is its list of targets, in which
one may stand twice. Capabilities are sets in `TestDefs`, where `isLegacyCapabilities`
(`server.go:202`) compares lists in order: an old binary sends its list as the constant
has it, and a list of today's agents has other members whatever its order.

## Runs

| Run | Result | Question |
|---|---|---|
| `ConnSettle` | passes | Do registry, handlers and channels agree in every interleaving of two streams and two requests of every kind, one after the other or at once, and is the agent's configuration current once things settle? |
| `ConnLive` | passes | Do replaced handlers end, and requests, also one that finds the queue full? |
| `ConnSendClosed` | violated | Does a push always meet an open channel? `PushConfigs` sends after unlocking; a reconnection in between closes the channel, the send panics and the rest of the request is lost. |
| `AlertOneStream` | passes | With one stream at a time, edits, failing store calls and a restart: full streaks, one alert, the lifecycle, eventual resolution. |
| `AlertTwoStreams` | violated | Is firing idempotent with two streams? The lookup and the insert are two store calls. |
| `AgentReconnect` | passes | Does the last configuration run, do settings move on, do lost schedulers end? |
| `AgentRuns` | passes | Are passes complete, abandoned runs no failures, the radio restored but for what failed commands left, and does all that a lost stream started end? |
| `WlanAir` | passes | Do narrowed sweeps find every network that no sweep has missed, are roaming events moves? |
| `InventoryRows` | passes | Do rows stay together, and tenants apart, while two operators and a device act at the same time? |
| `AccountsLife` | passes | Who can still get in after deletions and password changes, how many attempts does the throttle let through? |
| `Verdicts` | passes | Does a stored definition stay good across saves, builds and agents of any age? Do the verdicts on a tenant, its sites and a single result fit together? |
| `Services` | passes | Are lines shipped once and health verdicts founded, though store calls fail and the verdict's reads are apart; is the reflector the one on record and a success earned; is the path on record the path; is a reported change news; are notifications whole? |

The violated properties each state what a comment or document of the repository
says; the findings in `PROJECT.json` quote it.

### Bounds

* `ConnRegistry`: two streams of one agent are enough for a replacement in every
  state of the older handler, cleanup included; the proofs cover any number of
  streams and agents. Push queues hold one message instead of four, so that a
  full queue is met early. `MaxRequests` bounds the number of requests. In
  `ConnSettle` two may overlap at every point; two sites let an agent move; streams, requests
  and sites are symmetric. Its view `Readable` tells states apart by what a later step
  or one of its properties can still read, which leaves 261 thousand of 5.9 million
  states: the gauge, which nothing reads, is left out, and so are locals past their last
  use and what a replaced or departed connection holds besides its channel (a send to
  it panics or goes unread, whatever it carries). `ConnLive` has two requests
  one after the other and a queue of one, so the second finds the queue full, and
  no symmetry, which would be unsound for liveness.
* `AlertEngine`: counts of two tell a streak from a single sample and from an
  off-by-one; samples lie below, between and above the two thresholds, fail or
  have no value. `MaxBad` bounds the breaching samples, `MaxEdits` the edits,
  `MaxRestarts` the restarts, and `RunCap` the history counters, which saturate.
* `AgentStream`: two streams, three messages, channels of one place. A lost
  stream with a configuration in each of the wire, the receiver and the channel
  is met.
* `TestRuns`: one test of each type by itself, with two targets, and the two types
  that share the radio beside each other; a result channel of one place, so that a
  run waits on it; two configurations, two passes, one command that fails, in
  a switch of the mode, a set-up or a restoration.
* `WlanSightings`: two access points and a station, two channels, so that
  narrowing leaves one out; a retention of two ticks and a dwell of one; `MaxAir`
  is two: each change on the air, leaking beacon, refused channel, sweep of the default
  channels, dwell cut short and full list counts. Its properties are about single steps, so symmetry is sound.
* `Inventory`: two tenants, sites and agents, one test and one device, two requests
  between check and write (1.2 million states). `MaxPlain` and `MaxGone` bound the requests that check
  nothing and the rows deleted.
* `Accounts`: two users, one session and one key, two requests and the console; a
  budget of two failures instead of ten. Names that no user has are throttled and
  counted too.
* `TestDefs` and `Overview`: parameters at and beyond each limit of each type, two
  builds of the catalogue, two agents with and without a radio; two sites, results
  of three kinds, failing ones of both types too, that arrive late by one tick and carry
  a clock up to one tick behind or ahead, windows of one and two ticks. Agents and
  sites are symmetric.
* `AgentReports`: a buffer of two lines and a sink of one, two streams; a behaviour
  spends its bounds on lines and a failing store call, on streams and time, on refreshes,
  or on the state of the host; other handlers may act between the reads of a verdict.
* `Perfmon`: one peer, two ports, allowlists with and without it and with entries
  that are blank or do not parse, three listeners, two faults, durations that are unset and too long.
* `Trace`: paths of one to three nodes that end for every reason there is, two
  probes per TTL, one TTL more than the longest path.
* `PathChange`: a window of two runs has an older and a newer answer and one that
  drops out; paths have no, one or two intermediate hops, five addresses, and
  targets that answer from two. `MaxUnpruned` bounds rows left by a failed prune.
* `Notify`: two targets, one event, four edits of targets and rule, lists of up to two
  entries, the same one twice included, configurations the API accepts and refuses, of
  each type. The theorem is for any number of events.

Deadlock checking is off where the bounds let the system stop (streams, requests
or messages used up, a run done) and, in `AgentStream`, because a receiver may wait
for ever on a full channel whose reader is gone, which the code does allow.

### Fairness

`ConnRegistry` assumes weak fairness of each handler and each request that has
started, since Go runs every goroutine that can go on. It assumes nothing of
peers and operators: `Register`, `Reject`, `StreamEnds` and the start of a
request may never happen. Fairness of a handler includes that a `Send` returns,
which gRPC guarantees while the peer reads or once its connection is found dead;
a peer that neither reads nor closes is outside the model. `AgentStream` assumes
the same of its receiver and scheduler; a WLAN sweep that holds `wlanMu` is
finite. `AlertEngine`'s `RecoverySpec` adds to the progress of the handler that
good samples keep arriving, which is the premise of `EventuallyResolved`, and
that store calls do not fail for ever. `TestRuns` assumes that the runs and the
send loop go on, every probe having a timeout, and strong fairness of the
scheduler at `wlanMu`, since Go's mutex hands over to a waiter that has starved.
The other runs check safety only and state no fairness.

## Proofs

Every theorem is about every value of the constants that meets the named
assumptions of its module; a further hypothesis is part of the statement. One lemma per action, or per group of actions with the same effect, shows that the
invariant is preserved.

`ConnRegistryProofs`, for any agents, streams, requests, sites and names and any
queue size:

* `TypeCorrect`, `RegistryAlwaysAgrees`, `NeverClosedTwice`, `OneHandler`, and
  the action property `HandOver`. The inductive invariant `IInv` is `TypeOK /\
  LocalsInv /\ RegistryAgrees /\ NoDoubleClose`. `RegistryAgrees` is needed for
  the absence of a double close: an entry's channel is open, so `Insert` closes an
  open one. `LocalsInv` says that a handler past registration holds a row and that
  a request holds the locals of its program point.
* `SettledIsCurrent`: once settled, an agent has been sent the tests now assigned to
  its site, whatever number of requests overlap. `HeldInv` says that a connection not
  entered yet is as it was registered and that a request is at a connection of its
  agent. `ToldInv` is the argument: an agent that has not been missed is up to date, or
  some request that is running will tell it. A step of one request leaves what the
  others are about to tell (`OthersTell`), so only the request that takes the step
  is looked at. "Up to date" speaks of the last configuration in the queue, or, when
  none is queued, of the one last built or sent. Missed is an agent whose last push was
  left out, or was built from an older state than the store's when it was queued: two
  overlapping requests can queue an older configuration after a newer one, and the
  agent keeps it until the next push or reconnection (observations).

`AlertEngineProofs`, for any rules, samples and bounds:

* `EngineTypeCorrect` and `FullStreaks` for any number of handlers, from
  `EngineInv`: types, `Counted` (the engine's counters never exceed the history
  of samples that the property reads) and `ActsOnFullStreak`.
* `OneStreamOneAlert` and `EngineImplementsLifecycle` for a single handler, which
  is the hypothesis `AlertTwoStreams` shows to be necessary. They add
  `LookupsHold`: what the handler found in its lookup is still so when it writes.

`AgentStreamProofs`, for any number of streams and messages and any channel sizes:

* `TypeCorrect`, `SettledIsCurrent` (`ScheduleCurrent`) and the action property
  `NewestMovesOn`. A configuration passes the wire, the receiver's hands, the
  channel and the schedule. The invariant says that the last one sent is the last
  on the way (`LastOnTheWay`), and that what is on the way is in the order of
  sending within a stream (`Ordered`, `QueuesOrdered`) and from one stream to the
  next (`Behind`).

`TestRunsProofs`, for any tests, types, items, passes and configurations:

* `PassesComplete`, `CancelsAreNoFailures`, `RadioComesHome`, `RadioExclusive`.
  `Progress` says what a run has reported so far, item by item, while its context
  is good; `CutHeld` says in whose hands a measurement cut short can be; `RadioInv`
  says who holds `wlanMu` and that the deferred calls of the run on the air mend
  what it has changed. `left` collects the parts of the interface that a failing command
  has left, between two commands or among the deferred ones themselves, whose errors
  the code drops; of every other part the interface is as it was found.

and, of `WlanSightings`, for any finite sets of access points and stations, any
channels and any retention. The one relation assumed between the bounds is that a
sweep is not longer than the retention: the code listens 400 ms on each channel
(`scheduler.go:384`) and retains for ten minutes.

* `SightInvariant`, `NarrowedSweepsFind`, `EventsAreMoves`. First, what the loop of
  `processFrame` over a channel's frames leaves, in whatever order the frames of one
  kind come: the recursive function of `captureOnChannel` is shown equal to an
  explicit one, frame by frame. Then `Listened`: an access point that was on before
  the sweep began is still to be visited or has been heard, at a strength that a
  leak from another channel does not replace, unless the sweep has missed it (a refused
  channel, the default channels, a last dwell cut short). `deaf` collects those, and the
  ones a full list leaves out, until a sweep lists them on their own channel. `Watched` says that until the next
  full sweep is due the channel of every access point that was on before the last
  one began is of interest; a full sweep establishes it, a narrow one keeps it, and
  `Narrowed` carries it through a narrow sweep during which the clock goes on.
  `Talked` and `Recalled` say that the sightings of a sweep, and those retained,
  have the BSSID the station was last heard with, unless it was heard probing or is in
  `cut`, heard and left out of a full list. A station that a sweep did not hear, for
  whatever reason, ages out; its disappearance says no more than that.

`InventoryProofs`, for any tenants, sites, tests, agents, devices and requests:

* `RowsNeverOrphaned`, `TenantsStayApart`, `ClaimsConsumeRows`. The strengthening
  is `RequestsChecked`: what a handler has checked in one store call is, at the next,
  still so or the row is gone, because ids are not reused and a row keeps its tenant;
  and `RowsHeld`: who still has to consume a row of the pending list. A claim whose last
  call, the deletion of the row, fails leaves the row for good, as the code does; that
  row is no longer due to anyone.

`AccountsProofs`, for any tenants, users and credentials and finitely many requests:

* `NoCredentialOrphaned`, `ResetLocksOut`, `FailuresBounded`. For the throttle the count alone is not inductive: `Budget`
  bounds the failures counted plus the attempts that have passed the check and not
  failed yet. `CallersTrue` says that what the middleware handed on is still true of a
  caller that is there.

`VerdictsProofs`, for any requests, catalogues, hosts, sites, agents and results,
and any window; `Width`, of the integers a window is computed with, exceeds three
windows:

* `StoredIsGood`, `CapableAreSent`. One lemma per test type shows that its
  `Validate`, where it accepts, gives parameters of the type that it gives back
  unchanged, so a second check finds nothing to fill in or to refuse; this also
  holds in a build that knows more services. From such parameters a spec can be
  made. The invariant adds that the capabilities on record are those of the agent's
  host or none.
* `NothingMasked`, `VerdictsSettle`, `AlertsAlwaysAgree`. What a site counts the
  tenant counts too, and a status is settled by the share of good results and the
  colours among them, so the tenant's line follows from cardinalities of finite
  sets. The invariant `MeasuredHere` dates each row: a result whose age, by the
  agent's clock, says that it is younger than the agent's last move by more than the
  clock can be ahead was measured where the agent now is; `WindowReaches` adds that
  three intervals do not wrap where the longest window reaches back one.

`ServicesProofs`, part by part, for any ports, peers, targets, routes and bounds:

* `ReflectorAsRecorded`: between the two halves of a reconciliation every listener
  has been told to stop, otherwise all but the recorded one; listeners that are open
  have distinct ports.
* `ThroughputEarned`: at each point of its exchange a client has been let in by as
  many connections as it holds results of. A download that brought nothing is a success
  only when its connection was closed in good order after the handshake.
* `WholeOrFailed`: at its k-th recipient a mail has been accepted for the first
  k - 1. A goroutine stands for an entry of the rule's list, so a target that is listed
  twice is told twice; each of the two tells it once at most. `recipients`, the addresses an SMTP server gets, is a recursive function;
  that it leaves nobody out is an induction over the length of the list, carried out
  with the least counterexample in a set of naturals, since the library's induction
  theorems cannot be used. The attempt to prove `VerdictOnRecord` showed that the
  guards of a `CASE` in `Trace` overlapped, which left its value open; they are
  disjoint now.
* `VerdictOnRecord`: no reply in flight comes from further away than the probe it
  answers could go, so a reply taken for a later probe's errs on the near side only.
* `EventsAreNews`, `RepeatsAreQuiet`, `NewHopsReported`. Hypothesis: one handler of
  the agent, so that nothing is stored between the comparison and its event.
  `PathInv` says that the event a handler is about to write is the verdict on its run
  and the table as it is.
* `LinesShippedOnce`: `ShipInv` orders the places a line can be at. What is in the
  table is older than what is on the stream, that older than the batch being sent,
  that older than the buffer, and one stream's lines older than the next one's
  (`AgentOrder`, `ServerOrder`); so a line is at one place. `RowOrder` and `RowCount`
  number the rows of each source without gaps; pruning takes the oldest ones, and as
  many more than the history stay as prunings have failed since the last good one.
* `HealthVerdictTrue`: `StatsKnown` follows statistics through the record, the
  handler's copy and the cache; `FlapsKnown` says that the times the server keeps
  are, from any moment of the last reconnection's window on, exactly the
  reconnections that happened. `recent` prunes a sorted list, so it keeps an end of
  it; that is again an induction over a list. The window has to be longer than zero.
  `EvalKnown` says what a verdict has read so far and what was true when it read it,
  since other handlers act between its four reads; statistics that could not be
  stored are dropped, for the verdict as well.

Model-checked and not proved: liveness (`ReplacedHandlerEnds`, `RequestAnswered`,
`EventuallyResolved`, `SchedulerGoes`, `LostStreamWindsDown`), which is out of the
prover's reach. Every invariant and every action property of a passing run is
stated by a theorem, and so is the refinement of `AlertLifecycle`.

## Observations

What modelling met and no run states as a property, with the lines to look at.

Streams and configuration:

* The cleanup of a replaced handler clears the `agent_connected` gauge that its
  successor has set (`server.go:357`; `metrics.go:81` says 1 while a stream is open).
* Two requests that overlap can queue an older configuration after a newer one; the
  agent runs the older until the next push or reconnection (`server.go:440`).
* A row read by `ControlStream` before the connection is registered is stale if
  `RefreshAgent` runs in between (`server.go:363`).
* The scheduler of a lost stream may apply its last configuration after the next
  stream's, and the interface override stays the old one (`agent.go:344`).
* A run command can overtake the configuration that brings its test and is dropped
  with a warning, after the API has answered `triggered` (`scheduler.go:52`).

Alerts, results and verdicts:

* A rule on `unhealthy` posted with an operator and a clear threshold never clears
  (`alerts.go:111`; `doc/API.md:936` says the operator is ignored).
* Behind an alternating hop a new address is stored without an event
  (`pathchange.go:170`, and the comment at 162). Two handlers of one agent may both
  report the same change.
* One failed result among good ones is "degraded" on the dashboard and level 2 for
  an alert. Results carry the agent's clock (`server.go:583`), unclamped, and so do
  the age of statistics and the count of errors: an agent whose clock is ahead keeps its
  rows in the window for longer by as much, those of its old site too. A test with an interval above an hour shows
  no data between two runs. `TenantOverview` is several queries.
* `total_ms` and `cert_expiry_days` never apply to a SaaS test, since `MetricValue`
  goes by the payload.
* A rule's list of targets is not deduplicated, so a target listed twice is told twice
  (`api/alerts.go:89`, `notify.go:46`). A webhook's status is not looked at; a mail has no deadline, so its goroutine may
  stay; one refused recipient ends the mail for all; "resolved" can overtake
  "firing" (`notify.go`). The handler that updates a target asks for an
  administrator by the type on record, not by the one requested
  (`api/alerts.go:251`; `doc/API.md:892`).

Agent:

* An interrupted run of the throughput, traceroute or WLAN connection test is
  reported as a failure, and so is one of a WLAN test whose `iw dev` was cut short, which
  finds no interface (`probe/wifi.go:46`). A traceroute cancelled during its last TTL is "stalled".
* `setInterfaceType` failing between its commands leaves the interface down
  (`wlanactive_linux.go:39`); `setupTestRoute` failing after `ip addr add` leaves
  the address; the commands that restore the mode and remove the route may fail and
  nobody is told (`wlanactive_linux.go:43`, `wlansense_linux.go:40`); `wpa_supplicant` ends with the context of the connection phase, also
  during DHCP and the download.
* An ICMP "unreachable" from a router on the way counts as the destination's word
  (`traceroute.go:249`), and a late UDP reply as the answer of a later TTL.
* A station first heard probing has no BSSID for that sweep, and a roam may be lost.
  When the radio's channels cannot be read the sweep of eleven common ones counts as
  a full one (`wlansense_linux.go:45`); a sweep cancelled in its last dwell is kept; above
  256 networks or stations the ones listed are in no order (`wlansense_linux.go:171`,
  187), so a station that is there may be reported gone.
* An allowlist changed on its own makes the reflector listen at once on the port
  that the old listener may still hold; the start then fails and the reflector is
  off until the next differing push (`agent.go:167`; the comment at
  `perfmon.go:187` and `doc/API.md:724` call reconfiguration live). An `Accept` that
  fails ends the loop while the agent has the reflector on record
  (`perfmon.go:203`). A download cut after some data is a success, and so is one closed in
  good order with none (`perfmon.go:180`; the comment at 279 says that any error is seen
  as a failed step).
* Lines drained and not yet sent are lost with the stream (`agent.go:386`).

Store:

* Deleting a site that has agents goes through, although `doc/API.md:266` promises
  409: `GetSite` does not fill in the number the guard reads (`api/sites.go:120`).
* A login that has verified the old password inserts its session after a change of
  password has dropped the sessions (`api/auth.go:33`); a key created by a request that
  was authenticated before stays too; and a user's own change that verified the old
  password may overwrite a reset by an administrator (`api/auth.go:113`).
* Two admins may delete each other at once, and deleting a tenant takes its users along;
  the last administrator can go (`api/tenants.go:91`), and a start makes one only when no
  user is left at all.
* Two operators who were shown the same pending device make two agents of it
  (`api/unclaimed.go:58`). A claim whose deletion of the row fails answers 201 and leaves
  the device on the list (`api/unclaimed.go:83`).
* The webhook migration, interrupted between its two statements, skips the rule for
  ever (`store.go:381`).

## Plan

The components that carry the system's own logic are modelled. What is left:

1. `Trace` composed with `PathChange`: what late replies do to route-change events.
2. `ConnRegistry` composed with `Inventory`: the stream of a deleted agent.
3. The roaming summary of the store as operators over `WlanSightings`' events.

## Not modelled

The roaming summary, a read-only aggregation; clients of external speed test
services and the readers of `/proc` and of command output; the decoding of radio
frames; ASN and vendor tables; result gauges; certificates and TLS configuration;
generated protocol code; the web interface; flags and wiring of the commands; listing
handlers; the schema and its one-time migrations. They keep no state of their own,
or none that another step meets, or are parsing and presentation. Mail, webhook and
trap receivers, the peers of a stream and the network are outside the system and
appear as free choices.

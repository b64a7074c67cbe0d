---------------------------- MODULE AgentReports ----------------------------
(***************************************************************************)
(* What an agent reports of itself and what the server makes of it: log    *)
(* lines through the ring buffer, the stream and the log table; resource   *)
(* statistics; the count of reconnections; and the health verdict drawn    *)
(* from all three (internal/agent: agent.go, logbuffer.go; internal/logtee;*)
(* internal/server: logsink.go, health.go, server.go; internal/store:      *)
(* logs.go).  The server's own lines share the table.                      *)
(*                                                                         *)
(* Streams follow each other; the handler of a lost one may still be at    *)
(* work on what it has received when the next one is registered.           *)
(***************************************************************************)
EXTENDS Integers, Sequences, FiniteSets

CONSTANTS
    BufCap,      \* logBufferCapacity (200)
    SinkCap,     \* serverLogBuffer (500)
    History,     \* rows kept per scope (1000)
    Window,      \* the window of the counts (15 min)
    StaleAfter,  \* age of the stats for degraded, for unhealthy (2, 5 min)
    FlapsFor,    \* reconnections for degraded, for unhealthy (3, 6)
    ErrorsFor,   \* error lines for degraded, for unhealthy (2, 10)
    MaxStreams,  \* bound: streams opened
    Budgets,     \* bounds: streams, lines logged and statistics sent by the agent,
                 \* lines the server's writer stores, refreshes, store calls that
                 \* fail, verdicts, time, and what the host may be like
    NoStats      \* the agent has none on record

ASSUME ReportsCaps == BufCap \in Nat \ {0} /\ SinkCap \in Nat \ {0} /\ History \in Nat \ {0}
ASSUME ReportsLimits ==
    /\ Window \in Nat \ {0}
    /\ \A limit \in {StaleAfter, FlapsFor, ErrorsFor} :
          limit \in Nat \X Nat /\ 0 < limit[1] /\ limit[1] < limit[2]
Links == 1 .. MaxStreams
Never == -1
Loads == {"fine", "busy", "overrun", "unmeasured"}

ASSUME ReportsNone ==
    /\ NoStats \notin [load : Loads, time : Nat]
    /\ NoStats \notin [stats : [load : Loads, time : Nat] \cup {NoStats}, of : Links]
ASSUME ReportsBounds ==
    MaxStreams \in Nat /\ Budgets \subseteq [streams : 0 .. MaxStreams, logs : Nat, stats : Nat,
                                            rows : Nat, refreshes : Nat, faults : Nat, verdicts : Nat,
                                            time : Nat, loads : SUBSET Loads]

VARIABLES
    now,
    logged,    \* lines the agent has logged, which number them
    buf,       \* logRingBuffer
    batch,     \* drained lines that sendBufferedLogs has not sent yet
    cur,       \* the newest stream
    apc,       \* Run: "down", "first" before the send loop, "loop"
    wire,      \* per stream: messages the server has not received
    handler,   \* per stream: "none", "registered", "entered", "open", "storing", "done"
    conn,      \* connected[agent]: a stream, 0 for none
    record,    \* agents.stats in the store
    mem,       \* per stream: conn.agent.Stats
    times,     \* reconnectTimes
    count,     \* reconnectCount
    fresh,     \* RefreshAgent: the record it has read, and for which stream
    eval,      \* EvaluateAgentHealth: how far it is, and what it has found
    sink,      \* the channel of the server's own lines
    served,    \* lines the server has logged, which number them
    logs,      \* the log table; pos numbers the rows of a source in the order of their ids
    inserted,  \* history: rows inserted per source
    unpruned,  \* history: prunings that failed since the last that did not, per source
    joined,    \* history: per stream, when its reconnection was recorded
    heard,     \* history: per stream, the last stats stored of it
    reread,    \* history: streams whose copy RefreshAgent has replaced since the last stats
    fineAt,    \* history: when the newest good statistics stored were taken
    budget     \* what is left of the bounds

agentVars == <<logged, buf, batch, cur, apc>>
serverVars == <<handler, conn, record, mem, times, count, fresh>>
tableVars == <<sink, served, logs, inserted, unpruned>>
historyVars == <<joined, heard, reread, fineAt>>
repVars == <<now, agentVars, wire, serverVars, tableVars, historyVars, eval, budget>>

(* A verdict that has not been asked for: what was read, the worst of it   *)
(* so far, and, as history, what had been heard of the connection it was   *)
(* read from, how old the newest good statistics were if the agent was     *)
(* connected, and the reconnections of the window then and at the last.    *)
NoVerdictYet == [pc |-> "idle", stats |-> NoStats, level |-> "unknown", heard |-> NoStats, given |-> FALSE,
                 age |-> 0, late |-> FALSE, flaps |-> 0, flapped |-> 0, errors |-> 0]

ReportsInit ==
    /\ now = 0 /\ logged = 0 /\ buf = <<>> /\ batch = <<>> /\ cur = 0 /\ apc = "down"
    /\ wire = [g \in Links |-> <<>>] /\ handler = [g \in Links |-> "none"] /\ conn = 0
    /\ record = NoStats /\ mem = [g \in Links |-> NoStats] /\ times = <<>> /\ count = 0
    /\ fresh = NoStats /\ reread = {}
    /\ sink = <<>> /\ served = 0 /\ logs = {} /\ inserted = [src \in {"agent", "server"} |-> 0]
    /\ unpruned = [src \in {"agent", "server"} |-> 0] /\ eval = NoVerdictYet
    /\ joined = [g \in Links |-> Never] /\ heard = [g \in Links |-> NoStats]
    /\ fineAt = Never /\ budget \in Budgets

-----------------------------------------------------------------------------
(* The agent's lines *)

(* logtee.Handle: what a line of Info or above becomes.  It counts as an   *)
(* error when it is WARN or ERROR and carries no test attribute.           *)
Entry(src, n, bad) == [src |-> src, n |-> n, bad |-> bad, time |-> now, via |-> 0]

(* Push: the oldest line makes room. *)
Push(b, e) == Append(IF Len(b) >= BufCap THEN Tail(b) ELSE b, e)

logLine(bad) ==
    /\ buf' = Push(buf, Entry("agent", logged + 1, bad))
    /\ logged' = logged + 1

Handle(bad) ==
    /\ budget.logs > 0 /\ budget' = [budget EXCEPT !.logs = @ - 1]
    /\ logLine(bad)
    /\ UNCHANGED <<now, batch, cur, apc, wire, serverVars, tableVars, historyVars, eval>>

(* Mutant of Drain: the lines stay in the buffer. *)
DrainKeeps(b) == batch' = b /\ buf' = b

Drain(b) == batch' = b /\ buf' = <<>>

(* runStream: the agent registers, says so, and drains the buffer. *)
Connect ==
    LET line == Entry("agent", logged + 1, FALSE) IN
    /\ apc = "down" /\ budget.streams > 0 /\ budget' = [budget EXCEPT !.streams = @ - 1]
    /\ cur' = cur + 1 /\ apc' = "first"
    /\ logged' = logged + 1
    /\ Drain(Push(buf, line))
    /\ UNCHANGED <<now, wire, serverVars, tableVars, historyVars, eval>>

(* sendBufferedLogs: one Send. *)
SendLine ==
    /\ batch # <<>>
    /\ wire' = [wire EXCEPT ![cur] = Append(@, [Head(batch) EXCEPT !.via = cur])]
    /\ batch' = Tail(batch)
    /\ UNCHANGED <<now, logged, buf, cur, apc, serverVars, tableVars, historyVars, eval, budget>>

(* Send fails: the rest of the batch is lost.  The first call's error is   *)
(* not looked at; in the loop the stream ends, and Run says so.            *)
SendLineFails ==
    /\ batch # <<>>
    /\ batch' = <<>>
    /\ IF apc = "first" THEN UNCHANGED <<apc, logged, buf>> ELSE apc' = "down" /\ logLine(TRUE)
    /\ UNCHANGED <<now, cur, wire, serverVars, tableVars, historyVars, eval, budget>>

ShipTick ==
    /\ apc = "loop" /\ batch = <<>> /\ buf # <<>>
    /\ Drain(buf)
    /\ UNCHANGED <<now, logged, cur, apc, wire, serverVars, tableVars, historyVars, eval, budget>>

(* sendStats, once before the loop and then on its ticker: the host is     *)
(* fine, busy (CPU, processes) or overrun; an older build measures nothing *)
(* of itself (uptime 0).  A failing Collect or Send is passed over.        *)
sendStats(load) ==
    /\ apc \in {"first", "loop"} /\ batch = <<>>
    /\ budget.stats > 0 /\ budget' = [budget EXCEPT !.stats = @ - 1]
    /\ wire' = [wire EXCEPT ![cur] = Append(@, [load |-> load, time |-> now])]
    /\ apc' = "loop"
    /\ UNCHANGED <<now, logged, buf, batch, cur, serverVars, tableVars, historyVars, eval>>

noStats ==
    /\ apc = "first" /\ batch = <<>>
    /\ apc' = "loop"
    /\ UNCHANGED <<now, logged, buf, batch, cur, wire, serverVars, tableVars, historyVars, eval, budget>>

(* The send loop returns; Run logs the loss. *)
StreamLost ==
    /\ apc = "loop" /\ batch = <<>>
    /\ apc' = "down" /\ logLine(TRUE)
    /\ UNCHANGED <<now, batch, cur, wire, serverVars, tableVars, historyVars, eval, budget>>

Tick ==
    /\ budget.time > 0 /\ budget' = [budget EXCEPT !.time = @ - 1]
    /\ now' = now + 1
    /\ UNCHANGED <<agentVars, wire, serverVars, tableVars, historyVars, eval>>

-----------------------------------------------------------------------------
(* The log table *)

(* The row an entry becomes, and the pruning: of a source's rows the       *)
(* newest are kept.                                                        *)
Row(e, pos) == [src |-> e.src, n |-> e.n, bad |-> e.bad, time |-> e.time, via |-> e.via, pos |-> pos]
pruned(all, src) ==
    {r \in all : r.src = src => Cardinality({s \in all : s.src = src /\ s.pos > r.pos}) < History}

(* InsertLog in good order. *)
InsertLog(e) ==
    /\ logs' = pruned(logs \cup {Row(e, inserted[e.src] + 1)}, e.src)
    /\ inserted' = [inserted EXCEPT ![e.src] = @ + 1]
    /\ unpruned' = [unpruned EXCEPT ![e.src] = 0]

(* InsertLog fails: the row is not stored, or it is and the pruning fails. *)
InsertLogFails(e) ==
    \/ UNCHANGED <<logs, inserted, unpruned>>
    \/ /\ logs' = logs \cup {Row(e, inserted[e.src] + 1)}
       /\ inserted' = [inserted EXCEPT ![e.src] = @ + 1]
       /\ unpruned' = [unpruned EXCEPT ![e.src] = @ + 1]

(* NewLogTee's sink: a line that finds the channel full is dropped. *)
serverLog ==
    /\ served' = served + 1
    /\ sink' = IF Len(sink) < SinkCap THEN Append(sink, Entry("server", served + 1, FALSE)) ELSE sink

fault == budget.faults > 0 /\ budget' = [budget EXCEPT !.faults = @ - 1]

SinkWrites ==
    /\ sink # <<>> /\ sink' = Tail(sink)
    /\ \/ /\ budget.rows > 0 /\ budget' = [budget EXCEPT !.rows = @ - 1]
          /\ InsertLog(Head(sink))
       \/ fault /\ InsertLogFails(Head(sink))
    /\ UNCHANGED <<now, agentVars, wire, serverVars, served, historyVars, eval>>

(* CountAgentErrors *)
errorCount == Cardinality({r \in logs : r.src = "agent" /\ r.bad /\ r.time >= now - Window})

-----------------------------------------------------------------------------
(* The server's side of the streams *)

(* registerAgent: the agent's record is read. *)
registerAgent(g) ==
    /\ handler[g] = "none" /\ g <= cur
    /\ handler' = [handler EXCEPT ![g] = "registered"]
    /\ mem' = [mem EXCEPT ![g] = record]
    /\ UNCHANGED <<now, agentVars, wire, conn, record, times, count, fresh, tableVars, historyVars, eval, budget>>

(* Mutant of recent: the window's reconnections are the ones pruned. *)
recentInverted(s) ==
    LET kept[i \in 0 .. Len(s)] ==
            IF i = 0 THEN <<>> ELSE IF s[i] > now - Window THEN kept[i - 1] ELSE Append(kept[i - 1], s[i])
    IN  kept[Len(s)]

(* The reconnections of the window. *)
recent(s) ==
    LET kept[i \in 0 .. Len(s)] ==
            IF i = 0 THEN <<>> ELSE IF s[i] > now - Window THEN Append(kept[i - 1], s[i]) ELSE kept[i - 1]
    IN  kept[Len(s)]

(* recordReconnect: the count is taken here and nowhere else. *)
recordReconnect ==
    LET filtered == Append(recent(times), now)
    IN  times' = filtered /\ count' = Len(filtered)

(* ControlStream enters the connection, under the lock, *)
EnterConnected(g) ==
    /\ handler[g] = "registered"
    /\ handler' = [handler EXCEPT ![g] = "entered"] /\ conn' = g
    /\ UNCHANGED <<now, agentVars, wire, record, mem, times, count, fresh, tableVars, historyVars, eval, budget>>

(* and, under another, records the reconnection and goes on to its loop.   *)
Reconnected(g) ==
    /\ handler[g] = "entered"
    /\ handler' = [handler EXCEPT ![g] = "open"]
    /\ recordReconnect /\ serverLog
    /\ joined' = [joined EXCEPT ![g] = now]
    /\ UNCHANGED <<now, agentVars, wire, conn, record, mem, fresh, logs, inserted, unpruned,
                   heard, reread, fineAt, eval, budget>>

(* handleAgentLog: a line of the agent is stored, not logged, unless that  *)
(* fails.                                                                  *)
handleAgentLog(g) ==
    /\ handler[g] = "open" /\ wire[g] # <<>> /\ "src" \in DOMAIN Head(wire[g])
    /\ \/ InsertLog(Head(wire[g])) /\ UNCHANGED <<sink, served, budget>>
       \/ fault /\ InsertLogFails(Head(wire[g])) /\ serverLog
    /\ wire' = [wire EXCEPT ![g] = Tail(@)]
    /\ UNCHANGED <<now, agentVars, serverVars, historyVars, eval>>

(* handleAgentStats: SetAgentStats stores the record, *)
SetAgentStats(g) ==
    /\ handler[g] = "open" /\ wire[g] # <<>> /\ "load" \in DOMAIN Head(wire[g])
    /\ handler' = [handler EXCEPT ![g] = "storing"]
    /\ record' = Head(wire[g])
    /\ fineAt' = IF Head(wire[g]).load = "fine" /\ Head(wire[g]).time > fineAt THEN Head(wire[g]).time ELSE fineAt
    /\ UNCHANGED <<now, agentVars, wire, conn, mem, times, count, fresh, tableVars, joined, heard, reread,
                   eval, budget>>

(* or fails, and the statistics are dropped; *)
SetAgentStatsFails(g) ==
    /\ handler[g] = "open" /\ wire[g] # <<>> /\ "load" \in DOMAIN Head(wire[g])
    /\ fault /\ serverLog
    /\ wire' = [wire EXCEPT ![g] = Tail(@)]
    /\ UNCHANGED <<now, agentVars, serverVars, logs, inserted, unpruned, historyVars, eval>>

(* this connection's copy is next.                                         *)
handleAgentStats(g) ==
    /\ handler[g] = "storing"
    /\ handler' = [handler EXCEPT ![g] = "open"]
    /\ mem' = [mem EXCEPT ![g] = Head(wire[g])]
    /\ heard' = [heard EXCEPT ![g] = Head(wire[g])] /\ reread' = reread \ {g}
    /\ wire' = [wire EXCEPT ![g] = Tail(@)]
    /\ UNCHANGED <<now, agentVars, conn, record, times, count, fresh, tableVars, joined, fineAt, eval, budget>>

(* RefreshAgent reads the record, then puts it in the connection's place;  *)
(* statistics that come in between are lost to the copy.                   *)
RefreshReads ==
    /\ conn # 0 /\ fresh = NoStats
    /\ budget.refreshes > 0 /\ budget' = [budget EXCEPT !.refreshes = @ - 1]
    /\ fresh' = [stats |-> record, of |-> conn]
    /\ UNCHANGED <<now, agentVars, wire, handler, conn, record, mem, times, count, tableVars, historyVars, eval>>

RefreshSets ==
    /\ fresh # NoStats
    /\ mem' = [mem EXCEPT ![fresh.of] = fresh.stats] /\ reread' = reread \cup {fresh.of}
    /\ fresh' = NoStats
    /\ UNCHANGED <<now, agentVars, wire, handler, conn, record, times, count, tableVars, joined, heard,
                   fineAt, eval, budget>>

(* The handler returns, for whatever reason; what it has not received is   *)
(* lost.                                                                   *)
HandlerEnds(g) ==
    /\ handler[g] = "open" /\ (g # cur \/ apc = "down")
    /\ handler' = [handler EXCEPT ![g] = "done"]
    /\ wire' = [wire EXCEPT ![g] = <<>>]
    /\ conn' = IF conn = g THEN 0 ELSE conn
    /\ serverLog
    /\ UNCHANGED <<now, agentVars, record, mem, times, count, fresh, logs, inserted, unpruned, historyVars,
                   eval, budget>>

-----------------------------------------------------------------------------
(* The verdict *)

Order == [healthy |-> 0, degraded |-> 1, unhealthy |-> 2]
updateWorstStatus(current, new) == IF Order[new] > Order[current] THEN new ELSE current

graded(v, limit) == IF v >= limit[2] THEN "unhealthy" ELSE IF v >= limit[1] THEN "degraded" ELSE "healthy"

(* getLatestAgentStats: only while connected. *)
getLatestAgentStats == IF conn = 0 THEN NoStats ELSE mem[conn]

flapsBefore(t) == Cardinality({g \in Links : joined[g] # Never /\ t - Window < joined[g] /\ joined[g] <= t})
lastJoin == CHOOSE t \in {joined[g] : g \in Links} : \A g \in Links : joined[g] <= t

reads(pc, e) == eval.pc = pc /\ eval' = e /\ UNCHANGED <<now, agentVars, wire, serverVars, tableVars, historyVars>>
host == [fine |-> "healthy", busy |-> "degraded", overrun |-> "unhealthy"]

(* EvaluateAgentHealth, for the API or after new statistics: the copy is   *)
(* read, and nothing is said of an agent without one or of an old build;   *)
ReadStats ==
    LET stats == getLatestAgentStats
        told == IF stats = NoStats THEN FALSE ELSE stats.load # "unmeasured"
    IN  /\ budget.verdicts > 0 /\ budget' = [budget EXCEPT !.verdicts = @ - 1]
        /\ reads("idle", IF told THEN [NoVerdictYet EXCEPT !.pc = "age", !.stats = stats, !.level = host[stats.load],
                                                           !.heard = heard[conn], !.given = conn \in reread]
                         ELSE NoVerdictYet)

(* their age counts if the agent is still connected;                       *)
ReadAge ==
    LET stale == graded(now - eval.stats.time, <<StaleAfter[1] + 1, StaleAfter[2] + 1>>) IN
    /\ reads("age", IF conn = 0 THEN [eval EXCEPT !.pc = "flaps"]
                    ELSE [eval EXCEPT !.pc = "flaps", !.level = updateWorstStatus(@, stale), !.age = now - fineAt,
                                      !.late = IF eval.heard = NoStats THEN FALSE
                                               ELSE now - eval.heard.time > StaleAfter[1]])
    /\ UNCHANGED budget

(* then the reconnections are read,                                        *)
ReadFlaps ==
    /\ reads("flaps", [eval EXCEPT !.pc = "errors", !.level = updateWorstStatus(@, graded(count, FlapsFor)),
                                   !.flaps = flapsBefore(now), !.flapped = flapsBefore(lastJoin)])
    /\ UNCHANGED budget

(* and the errors, without which it ends as well.                          *)
ReadErrors ==
    /\ \/ reads("errors", [eval EXCEPT !.pc = "done", !.level = updateWorstStatus(@, graded(errorCount, ErrorsFor)),
                                       !.errors = errorCount])
       \/ reads("errors", [eval EXCEPT !.pc = "done"])
    /\ UNCHANGED budget

(* The verdict is given, and another may be asked for. *)
Judged == reads("done", NoVerdictYet) /\ UNCHANGED budget

EvaluateAgentHealth == ReadStats \/ ReadAge \/ ReadFlaps \/ ReadErrors \/ Judged

ReportsNext ==
    \/ \E bad \in BOOLEAN : Handle(bad)
    \/ Connect \/ SendLine \/ SendLineFails \/ ShipTick \/ noStats \/ StreamLost
    \/ \E load \in budget.loads : sendStats(load)
    \/ Tick \/ SinkWrites \/ RefreshReads \/ RefreshSets \/ EvaluateAgentHealth
    \/ \E g \in Links : \/ registerAgent(g) \/ EnterConnected(g) \/ Reconnected(g)
                        \/ handleAgentLog(g) \/ SetAgentStats(g) \/ SetAgentStatsFails(g)
                        \/ handleAgentStats(g) \/ HandlerEnds(g)

-----------------------------------------------------------------------------
(* Properties *)

places == <<buf, batch>> \o wire
copies(n) == Cardinality({at \in (1 .. Len(places)) \X (1 .. 2 * (BufCap + History)) :
                LET p == places[at[1]] i == at[2] IN
                i <= Len(p) /\ "n" \in DOMAIN p[i] /\ p[i].src = "agent" /\ p[i].n = n})
             + Cardinality({r \in logs : r.src = "agent" /\ r.n = n})
positions(src) == {r.pos : r \in {x \in logs : x.src = src}}

(* A line is shipped at most once, however streams are lost, the buffer is *)
(* drained and store calls fail; the lines of one stream are stored in the *)
(* order they were logged; and a row leaves the table only for newer rows  *)
(* of its own source, so that a chatty agent never pushes out the server's *)
(* lines: the rows of a source are the newest of those inserted, as many   *)
(* as are kept and no more than failed prunings since have added.          *)
ShippedOnce ==
    /\ \A n \in 1 .. logged : copies(n) <= 1
    /\ \A r, s \in logs : r.pos < s.pos /\ r.src = s.src /\ r.via = s.via => r.n < s.n
    /\ \A src \in {"agent", "server"} : \E gone \in 0 .. inserted[src] :
          /\ positions(src) = gone + 1 .. inserted[src]
          /\ gone > 0 => inserted[src] - gone >= History
          /\ inserted[src] - gone <= History + unpruned[src]

(* A verdict rests on evidence, though it is put together from reads at    *)
(* different times.  Healthy: good statistics have been stored, fresh ones *)
(* unless the connection was lost meanwhile, and the agent was not         *)
(* flapping when that was read.  Worse: the last statistics stored of this *)
(* connection, or those it was given from the record, said so, or there    *)
(* were flaps in the window of the last reconnection, or errors.           *)
HealthTrue == eval.pc = "done" =>
    /\ eval.level = "healthy" =>
          fineAt # Never /\ eval.age <= StaleAfter[1] /\ eval.flaps < FlapsFor[1]
    /\ eval.level \in {"degraded", "unhealthy"} =>
          \/ eval.heard = NoStats \/ eval.given \/ eval.late
          \/ eval.heard.load # "fine"
          \/ eval.flapped >= FlapsFor[1] \/ eval.errors >= ErrorsFor[1]

=============================================================================

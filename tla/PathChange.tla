---------------------------- MODULE PathChange ----------------------------
(***************************************************************************)
(* Route-change detection (internal/server/pathchange.go) for one agent    *)
(* and one traceroute test, over the results and path_changes tables       *)
(* (internal/store/pathchanges.go).  A handler ingests a run in three      *)
(* store calls: read the baseline and compare, record an event, store the  *)
(* result.                                                                 *)
(*                                                                         *)
(* A run is its hops, one per TTL, and whether it reached the target, in   *)
(* which case the last hop is the target itself.                           *)
(***************************************************************************)
EXTENDS Integers, Sequences, SequencesExt, FiniteSetsExt

CONSTANTS
    Handlers,           \* ControlStream handlers with results of the test
    Hosts,              \* addresses that answer
    Runs,               \* results the agent may send (see Run)
    BaselineRuns,       \* baselineRuns (20 in the code)
    PathChangesPerTest, \* pathChangesPerTest (500 in the code)
    MaxUnpruned,        \* bound: rows beyond that, left by a prune that failed
    AsnOf,              \* asn.Lookup: [a subset of Hosts -> networks]
    Silent,             \* a hop that did not answer
    Absent

Hop == Hosts \cup {Silent}
Run == [hops : Seq(Hop), reached : BOOLEAN]

(* from or to is Absent where the path grew or shrank. *)
Event == [ttl : Nat, from : Hop \cup {Absent}, to : Hop \cup {Absent},
          scope : {"unknown", "intra-as", "inter-as"}]

ASSUME RunsAssumption == Runs \subseteq Run
ASSUME WindowAssumption ==
    BaselineRuns \in Nat \ {0} /\ PathChangesPerTest \in Nat \ {0} /\ MaxUnpruned \in Nat
ASSUME HopAssumption == Silent \notin Hosts /\ Absent \notin Hosts /\ Absent # Silent
ASSUME AbsentAssumption ==
    Absent \notin [ttl : Nat, from : Hop \cup {Absent}, to : Hop \cup {Absent}] \cup Event

VARIABLES
    results,  \* results table, newest first, as far as the baseline reads
    changes,  \* path_changes table: its number of rows
    hpc,      \* per handler: where handleResult is
    run,      \* per handler: the run being ingested
    found     \* per handler: the event it has detected, if any

pathVars == <<results, changes, hpc, run, found>>

-----------------------------------------------------------------------------
(* The path of a run: its intermediate hops.  pathSignature computes it    *)
(* from the message, tracerouteHosts from the stored payload.              *)
intermediate(r) == IF r.reached /\ r.hops # <<>> THEN Front(r.hops) ELSE r.hops

pathSignature(r) == intermediate(r)

(* Mutant of tracerouteHosts: the destination stays in the baseline. *)
tracerouteHostsAll(r) == r.hops
tracerouteHosts(r) == intermediate(r)

(* TracerouteBaselineFor: the rows it reads, newest first, and their       *)
(* paths.  Runs without hops take up room in the window and say nothing.   *)
window == {k \in 1 .. Min({Len(results), BaselineRuns}) : results[k].hops # <<>>}
paths == [k \in window |-> tracerouteHosts(results[k])]

Lengths == {Len(paths[k]) : k \in DOMAIN paths}

(* Mutant of answered: silence counts as an answer. *)
answeredOrNot(i) == {k \in DOMAIN paths : i <= Len(paths[k])}

(* The runs of the window that have an answer at TTL i. *)
answered(i) == {k \in DOMAIN paths : i <= Len(paths[k]) /\ paths[k][i] # Silent}

(* Mutant of Seen: only the newest answer is remembered. *)
SeenLast(i) == IF answered(i) = {} THEN {} ELSE {paths[Min(answered(i))][i]}
Seen(i) == {paths[k][i] : k \in answered(i)}

baseHosts ==
    [i \in 1 .. Max({0} \cup Lengths) |->
        IF answered(i) = {} THEN Silent ELSE paths[Min(answered(i))][i]]

(* diffSignatures: the TTLs where both name a host and not the same one,   *)
(* and, failing that, the TTL where one path ends.                         *)
contradictions(from, to) ==
    {i \in DOMAIN from \cap DOMAIN to :
        from[i] # Silent /\ to[i] # Silent /\ from[i] # to[i]}

diff(from, to) ==
    LET differ == contradictions(from, to)
        ends == 1 + Min({Len(from), Len(to)})
        hop(path, i) == IF i \in DOMAIN path THEN path[i] ELSE Absent
        at(i) == [ttl |-> i, from |-> hop(from, i), to |-> hop(to, i)]
    IN  IF differ # {} THEN at(Min(differ))
        ELSE IF Len(from) # Len(to) THEN at(ends)
        ELSE Absent

classifyChange(from, to) ==
    IF from \notin DOMAIN AsnOf \/ to \notin DOMAIN AsnOf THEN "unknown"
    ELSE IF AsnOf[from] = AsnOf[to] THEN "intra-as" ELSE "inter-as"

(* An address the window has seen at this TTL, or a length it has seen, is *)
(* alternation.                                                            *)
alternates(d, current) ==
    \/ d.to # Absent /\ d.to \in Seen(d.ttl)
    \/ (d.to = Absent \/ d.from = Absent) /\ Len(current) \in Lengths

(* detectPathChange, the decision: an event or Absent. *)
detect(r) ==
    LET current == pathSignature(r)
        d == diff(baseHosts, current)
    IN  IF \/ r.hops = <<>> \/ baseHosts = <<>> \/ current = <<>>
           \/ d = Absent
           \/ alternates(d, current)
        THEN Absent
        ELSE [ttl |-> d.ttl, from |-> d.from, to |-> d.to,
              scope |-> classifyChange(d.from, d.to)]

-----------------------------------------------------------------------------

PathInit ==
    /\ results = <<>> /\ changes = 0
    /\ hpc = [h \in Handlers |-> "idle"]
    /\ run = [h \in Handlers |-> Absent]
    /\ found = [h \in Handlers |-> Absent]

Detect(h, r) ==
    /\ hpc[h] = "idle"
    /\ run' = [run EXCEPT ![h] = r]
    /\ found' = [found EXCEPT ![h] = detect(r)]
    /\ hpc' = [hpc EXCEPT ![h] = IF detect(r) = Absent THEN "store" ELSE "record"]
    /\ UNCHANGED <<results, changes>>

(* The baseline cannot be read: the run is stored and not compared. *)
BaselineFails(h, r) ==
    /\ hpc[h] = "idle"
    /\ run' = [run EXCEPT ![h] = r]
    /\ hpc' = [hpc EXCEPT ![h] = "unread"]
    /\ UNCHANGED <<results, changes, found>>

(* AddPathChange inserts and prunes.  The insert may fail, or only the     *)
(* prune; either is logged.                                                *)
AddPathChange(h) ==
    /\ hpc[h] = "record"
    /\ \/ changes' = Min({changes + 1, PathChangesPerTest})
       \/ changes' = changes
       \/ changes < PathChangesPerTest + MaxUnpruned /\ changes' = changes + 1
    /\ hpc' = [hpc EXCEPT ![h] = "store"]
    /\ UNCHANGED <<results, run, found>>

(* AddResult inserts the run, or fails and the run is no part of any later *)
(* baseline.                                                               *)
AddResult(h) ==
    /\ hpc[h] \in {"store", "unread"}
    /\ results' \in {SubSeq(<<run[h]>> \o results, 1, Min({BaselineRuns, Len(results) + 1})),
                     results}
    /\ hpc' = [hpc EXCEPT ![h] = "idle"]
    /\ run' = [run EXCEPT ![h] = Absent]
    /\ found' = [found EXCEPT ![h] = Absent]
    /\ UNCHANGED changes

PathNext ==
    \E h \in Handlers :
       \/ \E r \in Runs : Detect(h, r) \/ BaselineFails(h, r)
       \/ AddPathChange(h)
       \/ AddResult(h)

PathSpec == PathInit /\ [][PathNext]_pathVars

-----------------------------------------------------------------------------
(* Properties, for runs as compared with the table before they are stored  *)

Compared(h) == hpc[h] \in {"record", "store"}
Reported(h) == Compared(h) /\ found[h] # Absent
Unreported(h) == Compared(h) /\ found[h] = Absent
path(h) == pathSignature(run[h])

(* The stored runs read off directly: which have an answer at TTL i, the   *)
(* addresses seen there, the newest one, the lengths seen.                 *)
pastPath(k) == pathSignature(results[k])
answersAt(i) ==
    {k \in DOMAIN results : i \in DOMAIN pastPath(k) /\ pastPath(k)[i] # Silent}
seenAt(i) == {pastPath(k)[i] : k \in answersAt(i)}
newestAnswer(i) == pastPath(Min(answersAt(i)))[i]
lengthsSeen == {Len(pastPath(k)) : k \in {j \in DOMAIN results : results[j].hops # <<>>}}

(* The TTLs where the run answers from an address not seen there; those    *)
(* where it contradicts the newest answer.                                 *)
newAt(h) == {i \in DOMAIN path(h) : path(h)[i] \notin seenAt(i) \cup {Silent}}
differsAt(h) ==
    {i \in DOMAIN path(h) :
        answersAt(i) # {} /\ path(h)[i] \notin {newestAnswer(i), Silent}}

(* An event is real news: some hop answered from an address the window has *)
(* not seen at that TTL, or the path has a length it has not seen.  Silent *)
(* hops, alternation and the target's own address report nothing.          *)
(* detectPathChange, pathchange.go 138-180.                                *)
NoFalseAlarm ==
    \A h \in Handlers : Reported(h) =>
       newAt(h) # {} \/ Len(path(h)) \notin lengthsSeen

(* A run that takes the path of the last stored run, hops gone silent and  *)
(* another answer of the target included, reports nothing: a change is     *)
(* reported once.                                                          *)
RepeatIsQuiet ==
    \A h \in Handlers : Reported(h) /\ results # <<>> =>
       ~ /\ Len(pastPath(1)) = Len(path(h))
         /\ \A i \in DOMAIN path(h) : path(h)[i] \in {pastPath(1)[i], Silent}

(* Where the first hop that contradicts the newest answers is a new        *)
(* address, it is reported, at its TTL and with that answer as its         *)
(* predecessor, however long the hop was silent in between.                *)
FirstNewHopReported ==
    \A h \in Handlers : Compared(h) /\ differsAt(h) # {} =>
       LET i == Min(differsAt(h)) IN
       i \in newAt(h) =>
          /\ Reported(h)
          /\ found[h].ttl = i
          /\ found[h].from = newestAnswer(i) /\ found[h].to = path(h)[i]

=============================================================================

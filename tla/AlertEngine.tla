---------------------------- MODULE AlertEngine ----------------------------
(***************************************************************************)
(* The alert engine of the server (internal/server/alerts.go) for one      *)
(* alert key rule|agent|subject.  The handlers are the ControlStream       *)
(* goroutines that hold results of the agent: one, or two while a stream   *)
(* is being replaced.  Between a handler's steps (rules read, hysteresis   *)
(* decided under alertMu, active alert looked up, row written) the other   *)
(* handler, an operator editing or deleting the rule, or a restart of the  *)
(* server can get in.  Rows are in the database and survive a restart, the *)
(* hysteresis counters do not.                                             *)
(***************************************************************************)
EXTENDS Integers, FiniteSets

CONSTANTS
    Handlers,
    Requests,     \* bodies an operator posts for the rule (see Request)
    Samples,      \* results of the test (see Sample)
    GoodSamples,  \* results of a test that has recovered
    Thresholds,   \* the test's [warn, crit, lowerIsWorse], or None
    MaxBad,       \* bound: samples that are not good
    MaxEdits,     \* bound: edits of the rule
    MaxRestarts,  \* bound: restarts of the server
    RunCap,       \* bound: length up to which clearRun counts
    None

validOperators == {">", ">=", "<", "<=", "=="}
Operators == validOperators \cup {""}

Request == [metric : {"unhealthy", "state", "numeric"}, operator : Operators,
            threshold : Int, clearThreshold : Int \cup {None},
            forCount : Int, clearCount : Int]

(* What the store holds: at least one sample each way. *)
Rule == [metric : {"unhealthy", "state", "numeric"}, operator : Operators,
         threshold : Int, clearThreshold : Int \cup {None},
         forCount : Nat \ {0}, clearCount : Nat \ {0}]

(* A failed result has an error; value is the metric, if it has one. *)
Sample == [error : BOOLEAN, ok : BOOLEAN, value : Int \cup {None}]

ASSUME RequestsAssumption == Requests \subseteq Request
ASSUME SamplesAssumption == Samples \subseteq Sample /\ GoodSamples \subseteq Samples
ASSUME AlertBounds == MaxBad \in Nat /\ MaxEdits \in Nat /\ MaxRestarts \in Nat /\ RunCap \in Nat
ASSUME AlertNone == None \notin Rule /\ None \notin Int

VARIABLES
    rule,       \* alert_rules row, None once deleted
    firing,     \* alerts rows of the key in state firing, by id
    nextID,     \* next id of the alerts table
    st,         \* Server.alertStates[key]; absent is the zero state
    hpc,        \* per handler: where evaluateAlerts is
    job,        \* per handler: the evaluation in progress
    target,     \* per handler: the row resolveAlert has looked up
    breachRun,  \* history: breaching samples in a row
    clearRun,   \* history: clearing samples in a row, up to RunCap
    bad, edits, restarts

vars == <<rule, firing, nextID, st, hpc, job, target, breachRun, clearRun,
          bad, edits, restarts>>

Zero == [breaches |-> 0, goods |-> 0]

-----------------------------------------------------------------------------
(* Pure parts *)

(* handleCreateAlertRule and handleUpdateAlertRule: what is refused, ... *)
acceptRule(q) ==
    /\ q.metric = "numeric" => q.operator \in validOperators
    /\ q.metric = "state" => q.threshold \in {1, 2}

atLeastOne(n) == IF n < 1 THEN 1 ELSE n

(* ... and what is stored of the rest. *)
storedRule(q) ==
    [metric |-> q.metric, operator |-> IF q.metric = "state" THEN ">=" ELSE q.operator,
     threshold |-> q.threshold, clearThreshold |-> q.clearThreshold,
     forCount |-> atLeastOne(q.forCount), clearCount |-> atLeastOne(q.clearCount)]

compare(v, op, t) ==
    \/ op = ">"  /\ v > t
    \/ op = ">=" /\ v >= t
    \/ op = "<"  /\ v < t
    \/ op = "<=" /\ v <= t
    \/ op = "==" /\ v = t

(* 0 green, 1 orange, 2 red; a threshold of zero is not set. *)
resultState(x) ==
    IF x.error \/ ~x.ok THEN 2
    ELSE IF Thresholds = None \/ x.value = None THEN 0
    ELSE LET worse(t) == t > 0 /\ IF Thresholds.lowerIsWorse THEN x.value < t
                                                             ELSE x.value > t
         IN  IF worse(Thresholds.crit) THEN 2
             ELSE IF worse(Thresholds.warn) THEN 1 ELSE 0

(* The value a rule looks at, None when the rule does not apply. *)
ruleValue(r, x) ==
    CASE r.metric = "unhealthy" -> 0
      [] r.metric = "state" -> resultState(x)
      [] r.metric = "numeric" -> IF x.error THEN None ELSE x.value

ruleBreach(r, x) ==
    IF r.metric = "unhealthy" THEN ~x.ok
    ELSE compare(ruleValue(r, x), r.operator, r.threshold)

(* A non-breaching value clears on the far side of the clear threshold. *)
clearCondition(r, v) ==
    \/ r.clearThreshold = None
    \/ r.operator \in {">", ">="} /\ v < r.clearThreshold
    \/ r.operator \in {"<", "<="} /\ v > r.clearThreshold
    \/ r.operator \in {"==", ""}

(* Mutant of nextState: clear progress survives a sample in the dead band. *)
nextStateDeadBand(s, r, breach, clears) ==
    CASE breach -> [breaches |-> s.breaches + 1, goods |-> 0]
      [] ~breach /\ ~clears -> [s EXCEPT !.breaches = 0]
      [] OTHER -> IF s.goods + 1 >= r.clearCount THEN Zero
                  ELSE [breaches |-> 0, goods |-> s.goods + 1]

(* decideAlert: the next hysteresis state and the action called for.  A    *)
(* breach resets clear progress, a sample in the dead band resets both,    *)
(* and enough clearing samples start over from zero.                       *)
nextState(s, r, breach, clears) ==
    CASE breach -> [breaches |-> s.breaches + 1, goods |-> 0]
      [] ~breach /\ ~clears -> Zero
      [] OTHER -> IF s.goods + 1 >= r.clearCount THEN Zero
                  ELSE [breaches |-> 0, goods |-> s.goods + 1]

nextAction(s, r, breach, clears) ==
    CASE breach -> IF s.breaches + 1 >= r.forCount THEN "fire" ELSE "none"
      [] ~breach /\ ~clears -> "none"
      [] OTHER -> IF s.goods + 1 >= r.clearCount THEN "resolve" ELSE "none"

-----------------------------------------------------------------------------
(* job: the rule as read, and what the sample means under it. *)
NoJob == [rule |-> None, breach |-> FALSE, clears |-> FALSE, run |-> 0]
Job == [rule : Rule, breach : BOOLEAN, clears : BOOLEAN, run : Nat] \cup {NoJob}

HandlerPC == {"idle", "decide", "fire", "insert", "resolve", "update"}

TypeOK ==
    /\ rule \in Rule \cup {None}
    /\ nextID \in Nat
    /\ firing \subseteq 0..(nextID - 1)
    /\ st \in [breaches : Nat, goods : Nat]
    /\ hpc \in [Handlers -> HandlerPC]
    /\ job \in [Handlers -> Job]
    /\ target \in [Handlers -> Nat \cup {None}]
    /\ breachRun \in Nat
    /\ clearRun \in 0..RunCap
    /\ bad \in 0..MaxBad /\ edits \in 0..MaxEdits /\ restarts \in 0..MaxRestarts

Init ==
    /\ rule \in {storedRule(q) : q \in {p \in Requests : acceptRule(p)}}
    /\ firing = {} /\ nextID = 0
    /\ st = Zero
    /\ hpc = [h \in Handlers |-> "idle"]
    /\ job = [h \in Handlers |-> NoJob]
    /\ target = [h \in Handlers |-> None]
    /\ breachRun = 0 /\ clearRun = 0
    /\ bad = 0 /\ edits = 0 /\ restarts = 0

Goto(h, from, to) == hpc[h] = from /\ hpc' = [hpc EXCEPT ![h] = to]

(* A handler is done with a sample: its locals die. *)
Done(h, from) ==
    /\ Goto(h, from, "idle")
    /\ job' = [job EXCEPT ![h] = NoJob]
    /\ target' = [target EXCEPT ![h] = None]

Clears(r, x) == ~ruleBreach(r, x) /\ clearCondition(r, ruleValue(r, x))

(* evaluateAlerts up to the lock: RulesForTest and evalRule.  A rule that  *)
(* does not apply to the result is skipped.                                *)
Receive(h, x) ==
    /\ rule # None
    /\ ruleValue(rule, x) # None
    /\ Goto(h, "idle", "decide")
    /\ job' = [job EXCEPT ![h] = [rule |-> rule, breach |-> ruleBreach(rule, x),
                                  clears |-> Clears(rule, x), run |-> 0]]
    /\ \/ x \in GoodSamples /\ UNCHANGED bad
       \/ x \notin GoodSamples /\ bad < MaxBad /\ bad' = bad + 1
    /\ UNCHANGED <<rule, firing, nextID, st, target, breachRun, clearRun, edits, restarts>>

(* decideAlert under alertMu. *)
Decide(h) ==
    LET j == job[h]
        action == nextAction(st, j.rule, j.breach, j.clears)
        newBreachRun == IF j.breach THEN breachRun + 1 ELSE 0
        newClearRun == IF ~j.clears THEN 0
                       ELSE IF clearRun < RunCap THEN clearRun + 1 ELSE RunCap
    IN  /\ hpc[h] = "decide"
        /\ st' = nextState(st, j.rule, j.breach, j.clears)
        /\ breachRun' = newBreachRun
        /\ clearRun' = newClearRun
        /\ \/ action = "none" /\ Done(h, "decide")
           \/ /\ action # "none"
              /\ Goto(h, "decide", action)
              /\ job' = [job EXCEPT ![h] =
                    [rule |-> j.rule, breach |-> j.breach, clears |-> j.clears,
                     run |-> IF action = "fire" THEN newBreachRun ELSE newClearRun]]
              /\ UNCHANGED target
        /\ UNCHANGED <<rule, firing, nextID, bad, edits, restarts>>

(* Mutant of FireLookup: fire without looking. *)
FireUnchecked(h) ==
    /\ Goto(h, "fire", "insert")
    /\ UNCHANGED <<rule, firing, nextID, st, job, target, breachRun, clearRun, bad, edits,
                   restarts>>

(* fireAlert: nothing to do if an alert is active, ... *)
FireLookup(h) ==
    /\ firing = {}
    /\ Goto(h, "fire", "insert")
    /\ UNCHANGED <<rule, firing, nextID, st, job, target, breachRun, clearRun, bad, edits,
                   restarts>>

AlreadyFiring(h) ==
    /\ firing # {}
    /\ Done(h, "fire")
    /\ UNCHANGED <<rule, firing, nextID, st, breachRun, clearRun, bad, edits, restarts>>

(* ... else a new row, which the foreign key refuses once the rule is gone *)
(* (StoreFails).                                                           *)
FireAlert(h) ==
    /\ rule # None
    /\ Done(h, "insert")
    /\ firing' = firing \cup {nextID}
    /\ nextID' = nextID + 1
    /\ UNCHANGED <<rule, st, breachRun, clearRun, bad, edits, restarts>>

Newest(i) == \A k \in firing : k <= i

(* Mutant of ResolveLookup: only a server that remembers the breach        *)
(* resolves it.                                                            *)
ResolveLookupIfFiredHere(h) ==
    /\ restarts = 0
    /\ Goto(h, "resolve", "update")
    /\ \E i \in firing : Newest(i) /\ target' = [target EXCEPT ![h] = i]
    /\ UNCHANGED <<rule, firing, nextID, st, job, breachRun, clearRun, bad, edits, restarts>>

(* resolveAlert: the newest firing row, if any, ... *)
ResolveLookup(h) ==
    /\ Goto(h, "resolve", "update")
    /\ \E i \in firing : Newest(i) /\ target' = [target EXCEPT ![h] = i]
    /\ UNCHANGED <<rule, firing, nextID, st, job, breachRun, clearRun, bad, edits, restarts>>

NotFiring(h) ==
    /\ firing = {}
    /\ Done(h, "resolve")
    /\ UNCHANGED <<rule, firing, nextID, st, breachRun, clearRun, bad, edits, restarts>>

(* ... is resolved by its id. *)
ResolveAlert(h) ==
    /\ Done(h, "update")
    /\ firing' = firing \ {target[h]}
    /\ UNCHANGED <<rule, nextID, st, breachRun, clearRun, bad, edits, restarts>>

(* A lookup, insert or update that fails is logged and the sample is over. *)
StoreFails(h) ==
    /\ \E from \in {"fire", "insert", "resolve", "update"} : Done(h, from)
    /\ UNCHANGED <<rule, firing, nextID, st, breachRun, clearRun, bad, edits, restarts>>

(* handleUpdateAlertRule: the counters are not reset. *)
UpdateAlertRule(q) ==
    /\ rule # None /\ edits < MaxEdits
    /\ acceptRule(q)
    /\ rule' = storedRule(q)
    /\ edits' = edits + 1
    /\ UNCHANGED <<firing, nextID, st, hpc, job, target, breachRun, clearRun, bad, restarts>>

(* handleDeleteAlertRule: the rule's alerts are cascaded away. *)
DeleteAlertRule ==
    /\ rule # None /\ edits < MaxEdits
    /\ rule' = None
    /\ firing' = {}
    /\ edits' = edits + 1
    /\ UNCHANGED <<nextID, st, hpc, job, target, breachRun, clearRun, bad, restarts>>

(* The server stops at any point and starts again: memory is gone. *)
Restart ==
    /\ restarts < MaxRestarts
    /\ restarts' = restarts + 1
    /\ st' = Zero
    /\ hpc' = [h \in Handlers |-> "idle"]
    /\ job' = [h \in Handlers |-> NoJob]
    /\ target' = [h \in Handlers |-> None]
    /\ UNCHANGED <<rule, firing, nextID, breachRun, clearRun, bad, edits>>

Handler(h) ==
    \/ Decide(h)
    \/ FireLookup(h) \/ AlreadyFiring(h) \/ FireAlert(h)
    \/ ResolveLookup(h) \/ NotFiring(h) \/ ResolveAlert(h)

Operator == DeleteAlertRule \/ \E q \in Requests : UpdateAlertRule(q)

Next ==
    \/ \E h \in Handlers : Handler(h) \/ StoreFails(h) \/ \E x \in Samples : Receive(h, x)
    \/ Operator
    \/ Restart

Spec == Init /\ [][Next]_vars

(* The problem is over: good results keep coming on some stream, handlers  *)
(* run, and the store does not fail for ever.                              *)
Recovery ==
    /\ WF_vars(\E h \in Handlers, x \in GoodSamples : Receive(h, x))
    /\ \A h \in Handlers :
          /\ WF_vars(Handler(h) \/ StoreFails(h))
          /\ SF_vars(ResolveLookup(h))
          /\ SF_vars(ResolveAlert(h))

RecoverySpec == Spec /\ Recovery

-----------------------------------------------------------------------------
(* Properties *)

(* A handler on its way to fire has seen forCount breaching samples in a   *)
(* row, and one on its way to resolve clearCount clearing samples in a row *)
(* with no breach and no dead-band sample between them (as far as clearRun *)
(* counts), restarts and rule edits included.  decideAlert, alerts.go 80.  *)
ActsOnFullStreak ==
    \A h \in Handlers :
       /\ hpc[h] \in {"fire", "insert"} => job[h].run >= job[h].rule.forCount
       /\ hpc[h] \in {"resolve", "update"} =>
             job[h].run >= IF job[h].rule.clearCount < RunCap
                           THEN job[h].rule.clearCount ELSE RunCap

(* At most one alert of the key is firing: fireAlert checks for an active  *)
(* alert first.                                                            *)
OneFiringAlert == Cardinality(firing) <= 1

(* The engine implements AlertLifecycle: no second alert while one is      *)
(* firing, nothing resolved that is not firing, nothing after the rule has *)
(* been deleted.                                                           *)
lifecycleState ==
    IF rule = None THEN "retired" ELSE IF firing = {} THEN "clear" ELSE "firing"

Lifecycle == INSTANCE AlertLifecycle WITH state <- lifecycleState, episodes <- nextID
ImplementsLifecycle == Lifecycle!Spec

(* Once only clearing results arrive, every alert of the rule is resolved, *)
(* those left by an earlier run of the server or doubled by two handlers   *)
(* included.                                                               *)
EventuallyResolved == <>[](firing = {})

=============================================================================

------------------------- MODULE AlertEngineProofs -------------------------
(***************************************************************************)
(* AlertEngine proved for any rules, results and bounds: with any number   *)
(* of handlers the engine acts only on full streaks; with a single handler *)
(* it keeps one firing alert and implements AlertLifecycle.                *)
(***************************************************************************)
EXTENDS AlertEngine, FiniteSetTheorems, TLAPS

-----------------------------------------------------------------------------
(* What a handler knows at each step, and how the counters relate to the   *)
(* samples that were really seen.                                          *)
Counted ==
    /\ \A h \in Handlers : hpc[h] # "idle" => job[h].rule \in Rule
    /\ \A h \in Handlers : hpc[h] = "update" => target[h] \in Nat
    /\ \A h \in Handlers : job[h].breach => ~job[h].clears
    /\ st.breaches <= breachRun
    /\ st.goods <= clearRun \/ clearRun = RunCap

EngineInv == TypeOK /\ Counted /\ ActsOnFullStreak

(* Lemma: what the API stores of an accepted body is a rule of the store.  *)
LEMMA StoredIsRule ==
    ASSUME NEW q \in Requests PROVE storedRule(q) \in Rule
<1>1. q \in Request
  BY RequestsAssumption
<1>2. atLeastOne(q.forCount) \in Nat \ {0} /\ atLeastOne(q.clearCount) \in Nat \ {0}
  BY <1>1 DEF Request, atLeastOne
<1>3. (IF q.metric = "state" THEN ">=" ELSE q.operator) \in Operators
  BY <1>1 DEF Request, Operators, validOperators
<1>. QED
  BY <1>1, <1>2, <1>3 DEF storedRule, Request, Rule

(* Lemma: the state machine of decideAlert keeps natural counters.         *)
LEMMA DecideType ==
    ASSUME NEW s \in [breaches : Nat, goods : Nat], NEW r \in Rule,
           NEW b \in BOOLEAN, NEW c \in BOOLEAN
    PROVE  /\ nextState(s, r, b, c) \in [breaches : Nat, goods : Nat]
           /\ nextAction(s, r, b, c) \in {"none", "fire", "resolve"}
BY DEF nextState, nextAction, Zero

(* Lemma: an action means a full count, and the next counters count only   *)
(* samples of the current streak.                                          *)
LEMMA DecideCounts ==
    ASSUME NEW s \in [breaches : Nat, goods : Nat], NEW r \in Rule,
           NEW b \in BOOLEAN, NEW c \in BOOLEAN, b => ~c
    PROVE  /\ nextAction(s, r, b, c) = "fire" => b /\ s.breaches + 1 >= r.forCount
           /\ nextAction(s, r, b, c) = "resolve" => c /\ s.goods + 1 >= r.clearCount
           /\ nextState(s, r, b, c).breaches <= IF b THEN s.breaches + 1 ELSE 0
           /\ nextState(s, r, b, c).goods <= IF c THEN s.goods + 1 ELSE 0
BY DEF nextState, nextAction, Zero

(* The initial state. *)
LEMMA InitEngine == Init => EngineInv
<1> SUFFICES ASSUME Init PROVE EngineInv
  OBVIOUS
<1>1. rule \in Rule
  BY StoredIsRule DEF Init
<1>2. TypeOK
  BY <1>1, AlertBounds DEF Init, TypeOK, Zero, HandlerPC, Job, NoJob
<1>3. Counted /\ ActsOnFullStreak
  BY AlertBounds DEF Init, Counted, ActsOnFullStreak, Zero, NoJob
<1> QED BY <1>2, <1>3 DEF EngineInv

(* A step that only ends an evaluation keeps the invariant. *)
LEMMA DoneEngine ==
  ASSUME EngineInv, NEW h \in Handlers, NEW from, from # "idle", Done(h, from),
         UNCHANGED <<rule, st, breachRun, clearRun, bad, edits, restarts>>,
         nextID' \in Nat, firing' \subseteq 0..(nextID' - 1)
  PROVE  EngineInv'
<1>1. /\ hpc' = [hpc EXCEPT ![h] = "idle"]
      /\ job' = [job EXCEPT ![h] = NoJob]
      /\ target' = [target EXCEPT ![h] = None]
  BY DEF Done, Goto
<1>2. TypeOK'
  BY <1>1 DEF EngineInv, TypeOK, HandlerPC, Job
<1>3. Counted'
  BY <1>1 DEF EngineInv, TypeOK, Counted, NoJob
<1>4. ActsOnFullStreak'
  BY <1>1 DEF EngineInv, TypeOK, ActsOnFullStreak, NoJob
<1> QED BY <1>2, <1>3, <1>4 DEF EngineInv

(* A step that only moves a handler on, without a new row or decision.     *)
LEMMA MoveEngine ==
  ASSUME EngineInv, NEW h \in Handlers,
         \/ /\ Goto(h, "fire", "insert")
            /\ UNCHANGED target
         \/ /\ Goto(h, "resolve", "update")
            /\ \E i \in Nat : target' = [target EXCEPT ![h] = i],
         UNCHANGED <<rule, firing, nextID, st, job, breachRun, clearRun, bad, edits, restarts>>
  PROVE  EngineInv'
<1>1. TypeOK'
  BY DEF EngineInv, TypeOK, HandlerPC, Goto
<1>2. Counted'
  BY DEF EngineInv, TypeOK, Counted, Goto
<1>3. ActsOnFullStreak'
  BY DEF EngineInv, TypeOK, ActsOnFullStreak, Goto
<1> QED BY <1>1, <1>2, <1>3 DEF EngineInv

(* Receive hands over a rule of the store and what the sample means.       *)
LEMMA ReceiveEngine ==
  ASSUME EngineInv, NEW h \in Handlers, NEW x \in Samples, Receive(h, x)
  PROVE  EngineInv'
<1> DEFINE j == [rule |-> rule, breach |-> ruleBreach(rule, x),
                 clears |-> Clears(rule, x), run |-> 0]
<1>1. rule \in Rule
  BY DEF Receive, EngineInv, TypeOK
<1>2. ruleBreach(rule, x) \in BOOLEAN /\ Clears(rule, x) \in BOOLEAN
  BY DEF ruleBreach, Clears, compare
<1>3. j \in Job /\ j.rule \in Rule /\ (j.breach => ~j.clears)
  BY <1>1, <1>2 DEF Job, Clears
<1>4. job' = [job EXCEPT ![h] = j] /\ hpc' = [hpc EXCEPT ![h] = "decide"]
  BY DEF Receive, Goto
<1> HIDE DEF j
<1>5. UNCHANGED <<rule, firing, nextID, st, target, breachRun, clearRun, edits, restarts>>
      /\ bad' \in 0..MaxBad
  BY AlertBounds DEF Receive, EngineInv, TypeOK
<1>6. TypeOK'
  BY <1>3, <1>4, <1>5 DEF EngineInv, TypeOK, HandlerPC
<1>7. Counted'
  BY <1>3, <1>4, <1>5 DEF EngineInv, TypeOK, Counted
<1>8. ActsOnFullStreak'
  BY <1>4, <1>5 DEF EngineInv, TypeOK, ActsOnFullStreak
<1> QED BY <1>6, <1>7, <1>8 DEF EngineInv

(* Decide acts on a full streak: what the counters count was really seen,  *)
(* whichever handlers saw it and whatever a restart made them forget.      *)
LEMMA DecideEngine ==
  ASSUME EngineInv, NEW h \in Handlers, Decide(h)
  PROVE  EngineInv'
<1> DEFINE j == job[h]
           action == nextAction(st, j.rule, j.breach, j.clears)
           newBreachRun == IF j.breach THEN breachRun + 1 ELSE 0
           newClearRun == IF ~j.clears THEN 0
                          ELSE IF clearRun < RunCap THEN clearRun + 1 ELSE RunCap
           run == IF action = "fire" THEN newBreachRun ELSE newClearRun
<1>1. /\ j.rule \in Rule /\ j.breach \in BOOLEAN /\ j.clears \in BOOLEAN
      /\ j.breach => ~j.clears
  <2>1. j \in Job /\ hpc[h] # "idle"
    BY DEF EngineInv, TypeOK, Decide
  <2>2. j.rule \in Rule /\ (j.breach => ~j.clears)
    BY <2>1 DEF EngineInv, Counted
  <2>3. CASE j = NoJob
    BY <2>2, <2>3 DEF NoJob
  <2>4. CASE j \in [rule : Rule, breach : BOOLEAN, clears : BOOLEAN, run : Nat]
    BY <2>2, <2>4
  <2> QED BY <2>1, <2>3, <2>4 DEF Job
<1>2. st \in [breaches : Nat, goods : Nat] /\ breachRun \in Nat /\ clearRun \in 0..RunCap
  BY DEF EngineInv, TypeOK
<1>3. newBreachRun \in Nat /\ newClearRun \in 0..RunCap
  BY <1>2, AlertBounds
<1>4. /\ st' \in [breaches : Nat, goods : Nat]
      /\ action \in {"none", "fire", "resolve"}
  BY <1>1, <1>2, DecideType DEF Decide
<1>5. /\ action = "fire" => newBreachRun >= j.rule.forCount
      /\ action = "resolve" => newClearRun >= j.rule.clearCount \/ newClearRun = RunCap
      /\ st'.breaches <= newBreachRun
      /\ st'.goods <= newClearRun \/ newClearRun = RunCap
  <2>1. st.breaches <= breachRun /\ (st.goods <= clearRun \/ clearRun = RunCap)
    BY DEF EngineInv, Counted
  <2>2. st' = nextState(st, j.rule, j.breach, j.clears)
    BY DEF Decide
  <2>3. j.rule.forCount \in Nat /\ j.rule.clearCount \in Nat
    BY <1>1 DEF Rule
  <2> HIDE DEF j
  <2> QED BY <1>1, <1>2, <1>4, <2>1, <2>2, <2>3, DecideCounts, AlertBounds
<1>6. /\ breachRun' = newBreachRun /\ clearRun' = newClearRun
      /\ UNCHANGED <<rule, firing, nextID, bad, edits, restarts>>
  BY DEF Decide
<1>7. CASE action = "none"
  <2>1. /\ hpc' = [hpc EXCEPT ![h] = "idle"]
        /\ job' = [job EXCEPT ![h] = NoJob]
        /\ target' = [target EXCEPT ![h] = None]
    BY <1>7 DEF Decide, Done, Goto
  <2>2. TypeOK'
    BY <1>3, <1>4, <1>6, <2>1 DEF EngineInv, TypeOK, HandlerPC, Job
  <2>3. Counted'
    BY <1>5, <1>6, <2>1 DEF EngineInv, TypeOK, Counted, NoJob
  <2>4. ActsOnFullStreak'
    BY <2>1 DEF EngineInv, TypeOK, ActsOnFullStreak, NoJob
  <2> QED BY <2>2, <2>3, <2>4 DEF EngineInv
<1>8. CASE action # "none"
  <2> DEFINE k == [rule |-> j.rule, breach |-> j.breach, clears |-> j.clears, run |-> run]
  <2>1. /\ hpc' = [hpc EXCEPT ![h] = action]
        /\ job' = [job EXCEPT ![h] = k]
        /\ UNCHANGED target
    BY <1>8 DEF Decide, Goto
  <2>2. k \in Job /\ k.rule \in Rule /\ (k.breach => ~k.clears) /\ run \in Nat
    BY <1>1, <1>3, AlertBounds DEF Job
  <2>3. /\ action = "fire" => k.run >= k.rule.forCount
        /\ action = "resolve" =>
              k.run >= IF k.rule.clearCount < RunCap THEN k.rule.clearCount ELSE RunCap
    <3>1. k.rule = j.rule /\ k.run = run /\ j.rule.clearCount \in Nat
      BY <1>1 DEF Rule
    <3>2. CASE action = "fire"
      BY <3>1, <3>2, <1>5
    <3>3. CASE action = "resolve"
      <4> HIDE DEF newClearRun, k
      <4> QED BY <3>1, <3>3, <1>3, <1>5, AlertBounds
    <3> QED BY <1>4, <1>8, <3>2, <3>3
  <2> HIDE DEF k, action
  <2>4. TypeOK'
    BY <1>3, <1>4, <1>6, <1>8, <2>1, <2>2 DEF EngineInv, TypeOK, HandlerPC
  <2>5. Counted'
    BY <1>4, <1>5, <1>6, <2>1, <2>2 DEF EngineInv, TypeOK, Counted
  <2>6. ActsOnFullStreak'
    BY <1>4, <1>8, <2>1, <2>3 DEF EngineInv, TypeOK, ActsOnFullStreak
  <2> QED BY <2>4, <2>5, <2>6 DEF EngineInv
<1> QED BY <1>7, <1>8

(* Operators change the rule, a restart forgets the counters. *)
LEMMA OutsideEngine ==
  ASSUME EngineInv, Operator \/ Restart
  PROVE  EngineInv'
<1>1. CASE Restart
  <2>1. TypeOK'
    BY <1>1, AlertBounds DEF Restart, EngineInv, TypeOK, HandlerPC, Job, Zero
  <2>2. Counted'
    BY <1>1 DEF Restart, EngineInv, TypeOK, Counted, Zero, NoJob
  <2>3. ActsOnFullStreak'
    BY <1>1 DEF Restart, ActsOnFullStreak
  <2> QED BY <2>1, <2>2, <2>3 DEF EngineInv
<1>2. CASE Operator
  <2>1. /\ UNCHANGED <<nextID, st, hpc, job, target, breachRun, clearRun, bad, restarts>>
        /\ edits < MaxEdits /\ edits' = edits + 1
        /\ firing' \subseteq firing
    BY <1>2 DEF Operator, DeleteAlertRule, UpdateAlertRule
  <2>2. rule' \in Rule \cup {None}
    BY <1>2, StoredIsRule DEF Operator, DeleteAlertRule, UpdateAlertRule
  <2>3. TypeOK'
    BY <2>1, <2>2, AlertBounds DEF EngineInv, TypeOK
  <2>4. Counted' /\ ActsOnFullStreak'
    BY <2>1 DEF EngineInv, Counted, ActsOnFullStreak
  <2> QED BY <2>3, <2>4 DEF EngineInv
<1> QED BY <1>1, <1>2

(* Every step keeps the invariant. *)
LEMMA NextEngine == EngineInv /\ [Next]_vars => EngineInv'
<1> SUFFICES ASSUME EngineInv, [Next]_vars PROVE EngineInv'
  OBVIOUS
<1>0. CASE UNCHANGED vars
  BY <1>0 DEF vars, EngineInv, TypeOK, Counted, ActsOnFullStreak
<1>1. ASSUME NEW h \in Handlers, Handler(h) \/ StoreFails(h) PROVE EngineInv'
  <2>1. nextID \in Nat /\ firing \subseteq 0..(nextID - 1)
    BY DEF EngineInv, TypeOK
  <2>2. CASE Decide(h)
    BY <2>2, DecideEngine
  <2>3. CASE FireLookup(h)
    BY <2>3, MoveEngine DEF FireLookup
  <2>4. CASE ResolveLookup(h)
    <3>1. Goto(h, "resolve", "update") /\ \E i \in Nat : target' = [target EXCEPT ![h] = i]
      <4>1. firing \subseteq Nat
        BY <2>1
      <4> QED BY <2>4, <4>1 DEF ResolveLookup
    <3>2. UNCHANGED <<rule, firing, nextID, st, job, breachRun, clearRun, bad, edits,
                      restarts>>
      BY <2>4 DEF ResolveLookup
    <3> QED BY <3>1, <3>2, MoveEngine
  <2>5. CASE AlreadyFiring(h)
    BY <2>1, <2>5, DoneEngine DEF AlreadyFiring
  <2>6. CASE NotFiring(h)
    BY <2>1, <2>6, DoneEngine DEF NotFiring
  <2>7. CASE FireAlert(h)
    <3>1. nextID' \in Nat /\ firing' \subseteq 0..(nextID' - 1)
      BY <2>1, <2>7 DEF FireAlert
    <3> QED BY <2>7, <3>1, DoneEngine DEF FireAlert
  <2>8. CASE ResolveAlert(h)
    <3>1. nextID' \in Nat /\ firing' \subseteq 0..(nextID' - 1)
      BY <2>1, <2>8 DEF ResolveAlert
    <3> QED BY <2>8, <3>1, DoneEngine DEF ResolveAlert
  <2>9. CASE StoreFails(h)
    BY <2>1, <2>9, DoneEngine DEF StoreFails
  <2> QED BY <1>1, <2>2, <2>3, <2>4, <2>5, <2>6, <2>7, <2>8, <2>9 DEF Handler
<1>2. ASSUME NEW h \in Handlers, NEW x \in Samples, Receive(h, x) PROVE EngineInv'
  BY <1>2, ReceiveEngine
<1>3. CASE Operator \/ Restart
  BY <1>3, OutsideEngine
<1> QED BY <1>0, <1>1, <1>2, <1>3 DEF Next

(* The inductive invariant of the engine holds in every state. *)
LEMMA Engine == Spec => []EngineInv
BY InitEngine, NextEngine, PTL DEF Spec

(* The state of the engine stays in its type. *)
THEOREM EngineTypeCorrect == Spec => []TypeOK
<1>1. EngineInv => TypeOK
  BY DEF EngineInv
<1> QED BY <1>1, Engine, PTL

(* Any number of streams, restarts and rule edits: an alert is fired or    *)
(* resolved only after as many samples in a row as the rule asks for.      *)
THEOREM FullStreaks == Spec => []ActsOnFullStreak
<1>1. EngineInv => ActsOnFullStreak
  BY DEF EngineInv
<1> QED BY <1>1, Engine, PTL

-----------------------------------------------------------------------------
(* A single handler: what it looked up still holds when it writes, unless  *)
(* the rule was deleted in between.                                        *)
LookupsHold ==
    /\ rule = None => firing = {}
    /\ \A i, k \in firing : i = k
    /\ \A h \in Handlers : hpc[h] = "insert" => firing = {}
    /\ \A h \in Handlers : hpc[h] = "update" /\ rule # None => firing = {target[h]}

(* The initial state and every step keep LookupsHold. *)
LEMMA InitLookups == Init => LookupsHold
<1>1. None \notin Rule
  BY AlertNone
<1> QED BY <1>1, StoredIsRule DEF Init, LookupsHold

(* With one handler, nothing opens or resolves an alert between the lookup of a result and its write. *)
LEMMA NextLookups ==
  ASSUME \A g, h \in Handlers : g = h
  PROVE  EngineInv /\ LookupsHold /\ [Next]_vars => LookupsHold'
<1> SUFFICES ASSUME EngineInv, LookupsHold, [Next]_vars PROVE LookupsHold'
  OBVIOUS
<1> USE DEF LookupsHold
<1>0. CASE UNCHANGED vars
  BY <1>0 DEF vars
<1>a. hpc \in [Handlers -> HandlerPC] /\ target \in [Handlers -> Nat \cup {None}]
  BY DEF EngineInv, TypeOK
<1>1. ASSUME NEW h \in Handlers, Handler(h) \/ StoreFails(h) PROVE LookupsHold'
  <2>2. CASE Decide(h)
    <3>1. hpc'[h] \notin {"insert", "update"}
      <4>1. job[h].rule \in Rule /\ job[h] \in Job /\ st \in [breaches : Nat, goods : Nat]
        BY <2>2 DEF Decide, EngineInv, TypeOK, Counted
      <4>2. nextAction(st, job[h].rule, job[h].breach, job[h].clears)
               \in {"none", "fire", "resolve"}
        BY DEF nextAction
      <4> QED BY <1>a, <2>2, <4>2 DEF Decide, Done, Goto
    <3> QED BY <2>2, <3>1 DEF Decide
  <2>3. CASE FireLookup(h)
    BY <1>a, <2>3 DEF FireLookup, Goto
  <2>4. CASE ResolveLookup(h)
    BY <1>a, <2>4 DEF ResolveLookup, Goto
  <2>5. CASE AlreadyFiring(h) \/ NotFiring(h) \/ StoreFails(h)
    BY <1>a, <2>5 DEF AlreadyFiring, NotFiring, StoreFails, Done, Goto
  <2>6. CASE FireAlert(h)
    BY <1>a, <2>6 DEF FireAlert, Done, Goto
  <2>7. CASE ResolveAlert(h)
    BY <1>a, <2>7 DEF ResolveAlert, Done, Goto
  <2> QED BY <1>1, <2>2, <2>3, <2>4, <2>5, <2>6, <2>7 DEF Handler
<1>2. ASSUME NEW h \in Handlers, NEW x \in Samples, Receive(h, x) PROVE LookupsHold'
  BY <1>a, <1>2 DEF Receive, Goto
<1>3. CASE Restart
  BY <1>3 DEF Restart
<1>4. CASE Operator
  <2>1. CASE DeleteAlertRule
    BY <2>1 DEF DeleteAlertRule
  <2>2. ASSUME NEW q \in Requests, UpdateAlertRule(q) PROVE LookupsHold'
    <3>1. rule' # None
      BY <2>2, StoredIsRule, AlertNone DEF UpdateAlertRule
    <3> QED BY <2>2, <3>1 DEF UpdateAlertRule
  <2> QED BY <1>4, <2>1, <2>2 DEF Operator
<1> QED BY <1>0, <1>1, <1>2, <1>3, <1>4 DEF Next

(* With one handler, what the lookup found is still true whenever the handler acts on it. *)
LEMMA Lookups ==
  ASSUME \A g, h \in Handlers : g = h
  PROVE  Spec => [](EngineInv /\ LookupsHold)
<1>1. EngineInv /\ LookupsHold /\ [Next]_vars => (EngineInv /\ LookupsHold)'
  BY NextEngine, NextLookups
<1>2. Init => EngineInv /\ LookupsHold
  BY InitEngine, InitLookups
<1> QED BY <1>1, <1>2, PTL DEF Spec

(* With one stream at a time, restarts and rule edits at any point, the    *)
(* lookup before the insert keeps a single firing alert.                   *)
THEOREM OneStreamOneAlert ==
  ASSUME \A g, h \in Handlers : g = h
  PROVE  Spec => []OneFiringAlert
<1>1. LookupsHold => OneFiringAlert
  <2> SUFFICES ASSUME LookupsHold PROVE Cardinality(firing) <= 1
    BY DEF OneFiringAlert
  <2>1. firing = {} \/ \E i : firing = {i}
    BY DEF LookupsHold
  <2> QED BY <2>1, FS_EmptySet, FS_Singleton
<1> QED BY <1>1, Lookups, PTL

(* Every step of the engine is a step of AlertLifecycle or none. *)
LEMMA StepsImplement ==
  ASSUME EngineInv, LookupsHold, LookupsHold', [Next]_vars
  PROVE  [Lifecycle!Next]_<<lifecycleState, nextID>>
<1> USE DEF lifecycleState
<1>0. CASE UNCHANGED <<rule, firing, nextID>>
  BY <1>0
<1>1. ASSUME NEW h \in Handlers, FireAlert(h) PROVE Lifecycle!Fire
  <2>1. rule # None /\ rule' = rule /\ firing = {}
    BY <1>1 DEF FireAlert, Done, Goto, LookupsHold
  <2>2. firing' = {nextID} /\ nextID' = nextID + 1
    BY <1>1, <2>1 DEF FireAlert
  <2> QED BY <2>1, <2>2 DEF Lifecycle!Fire
<1>2. ASSUME NEW h \in Handlers, ResolveAlert(h)
      PROVE  Lifecycle!Resolve \/ UNCHANGED <<lifecycleState, nextID>>
  <2>1. rule' = rule /\ firing' = firing \ {target[h]} /\ nextID' = nextID
    BY <1>2 DEF ResolveAlert
  <2>2. CASE rule = None
    BY <2>1, <2>2
  <2>3. CASE rule # None
    <3>1. firing = {target[h]}
      BY <1>2, <2>3 DEF ResolveAlert, Done, Goto, LookupsHold
    <3>2. firing # {} /\ firing' = {}
      BY <2>1, <3>1
    <3> QED BY <2>1, <2>3, <3>2 DEF Lifecycle!Resolve
  <2> QED BY <2>2, <2>3
<1>3. ASSUME DeleteAlertRule PROVE Lifecycle!Retire
  BY <1>3 DEF DeleteAlertRule, Lifecycle!Retire
<1>4. ASSUME NEW q \in Requests, UpdateAlertRule(q)
      PROVE  UNCHANGED <<lifecycleState, nextID>>
  <2>1. rule' # None
    BY <1>4, StoredIsRule, AlertNone DEF UpdateAlertRule
  <2> QED BY <1>4, <2>1 DEF UpdateAlertRule
<1>5. CASE UNCHANGED vars
  BY <1>0, <1>5 DEF vars
<1>6. CASE Restart
  BY <1>0, <1>6 DEF Restart
<1>7. ASSUME NEW h \in Handlers, NEW x \in Samples, Receive(h, x)
      PROVE  UNCHANGED <<rule, firing, nextID>>
  BY <1>7 DEF Receive
<1>8. ASSUME NEW h \in Handlers,
             Decide(h) \/ FireLookup(h) \/ AlreadyFiring(h) \/ ResolveLookup(h)
                \/ NotFiring(h) \/ StoreFails(h)
      PROVE  UNCHANGED <<rule, firing, nextID>>
  BY <1>8 DEF Decide, FireLookup, AlreadyFiring, ResolveLookup, NotFiring, StoreFails
<1> QED
  BY <1>0, <1>1, <1>2, <1>3, <1>4, <1>5, <1>6, <1>7, <1>8
     DEF Next, Handler, Operator, Lifecycle!Next

(* With one stream at a time the engine implements AlertLifecycle.         *)
THEOREM EngineImplementsLifecycle ==
  ASSUME \A g, h \in Handlers : g = h
  PROVE  Spec => ImplementsLifecycle
<1>1. Init => Lifecycle!Init
  BY StoredIsRule, AlertNone DEF Init, Lifecycle!Init, lifecycleState
<1>2. EngineInv /\ LookupsHold /\ (EngineInv /\ LookupsHold)' /\ [Next]_vars
         => [Lifecycle!Next]_<<lifecycleState, nextID>>
  BY StepsImplement
<1> QED BY <1>1, <1>2, Lookups, PTL DEF Spec, ImplementsLifecycle, Lifecycle!Spec

=============================================================================

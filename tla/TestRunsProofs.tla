--------------------------- MODULE TestRunsProofs ---------------------------
(***************************************************************************)
(* Proofs about TestRuns, for every set of tests, mix of their types and   *)
(* bound.  What a run has reported is followed from item to item while its *)
(* context is good; what a cancelled measurement may be handed on as, from *)
(* the probe to the channel; and the radio, from the mutex to the deferred *)
(* calls that put it back.                                                 *)
(*                                                                         *)
(* And about WlanSightings, what a wlan_passive test, whose runs those     *)
(* are, knows of the air, for any finite sets of access points and         *)
(* stations, any channels and any retention: what the loop over the frames *)
(* of a channel leaves, and from it what the sweeps hear and retain.       *)
(***************************************************************************)
EXTENDS TestRuns, WlanSightings, FiniteSetTheorems, TLAPS

Modes == {"managed", "monitor"}
Outcomes == {"ok", "failed", "cut", "error"}
OffHome == {"air", "route", "load", "off"}
Active == OffHome \cup {"switch", "iface", "lock", "probe", "send", "skip"}
Frank == {"perfmon", "traceroute"} \cup Wlan
Parts == {"mode", "up", "addr", "route"}

TypeOK ==
    /\ live \in BOOLEAN /\ cur \in Nat
    /\ pc \in [Runs -> Active \cup {"none", "idle", "done"}]
    /\ pos \in [Runs -> Nat] /\ said \in [Runs -> Seq(Nat)]
    /\ res \in [Runs -> Outcomes \cup {None}]
    /\ results \in Seq([run : Runs, item : Nat, how : Outcomes \cup {None}])
    /\ mu \in Runs \cup {None}
    /\ radio \in Radios /\ home \in Modes
    /\ prev \in [Runs -> Modes \cup {None}]
    /\ route \in [Runs -> {"none", "set", "err"}]
    /\ left \in SUBSET Parts

(* The items a pass has reported when it is at item n + 1. *)
upTo(n) == [i \in 1 .. n |-> i]

(* A context that is yet to come has no run; a run whose context is good   *)
(* has reported exactly the items before the one it is at; one that waits  *)
(* for its ticker has reported all.                                        *)
Progress ==
    \A p \in Runs :
       /\ pc[p] # "none" => p[2] <= cur
       /\ pc[p] \in Active /\ ~cancelled(p) =>
             pos[p] \in 1 .. itemsOf(p) /\ said[p] = upTo(pos[p] - 1)
       /\ pc[p] = "idle" /\ ~cancelled(p) => said[p] = upTo(itemsOf(p))

(* A run that holds a measurement cut short is of a type that reports it;  *)
(* only a connection test has a route or a download.                       *)
CutHeld ==
    \A p \in Runs : /\ res[p] = "cut" => kind[p[1]] \in Frank
                    /\ pc[p] \in {"route", "load"} => kind[p[1]] = "wlan_active"

(* A run on the air holds the mutex. *)
AirHeld == \A p \in Runs : pc[p] \in OffHome \cup {"switch"} => mu = p

(* A run has something to restore only while it is on the air, and a route *)
(* only once it has set one up.                                            *)
Owed ==
    \A p \in Runs : /\ pc[p] \notin OffHome => prev[p] = None
                    /\ pc[p] \notin {"load", "off"} => route[p] = "none"

(* With what a run remembers, its previous mode and whether it has set a   *)
(* route, an interface r can be put back as it was, but for the parts l.   *)
Mends(r, pv, rt, h, l) ==
    /\ "up" \notin l => r.up = TRUE
    /\ "addr" \notin l => (rt = "set" => r.addr = TRUE) /\ (rt # "set" => r.addr = FALSE)
    /\ "route" \notin l => (rt = "set" => r.route = TRUE) /\ (rt # "set" => r.route = FALSE)
    /\ "mode" \notin l => (pv = None => r.mode = h) /\ (pv # None => pv = h)

(* But for the parts that failed commands have left, what a run on the air *)
(* will put back is all that keeps the interface from being as it was      *)
(* found.                                                                  *)
WillRestore ==
    \A p \in Runs : pc[p] \in OffHome => Mends(radio, prev[p], route[p], home, left)

(* An interface is as it was found but for the parts l. *)
HomeBut(r, h, l) ==
    /\ "mode" \notin l => r.mode = h
    /\ "up" \notin l => r.up = TRUE
    /\ "addr" \notin l => r.addr = FALSE
    /\ "route" \notin l => r.route = FALSE

(* The part of the invariant about the radio. *)
RadioInv == AirHeld /\ Owed /\ WillRestore /\ RadioRestored

IInv == TypeOK /\ Progress /\ CutHeld /\ CancelIsNoFailure /\ RadioInv

-----------------------------------------------------------------------------
(* Lists of items *)

(* An empty list has reported nothing. *)
LEMMA UpToNothing == upTo(0) = <<>>
  BY DEF upTo

(* A report adds the next item to the list. *)
LEMMA UpToAppend ==
  ASSUME NEW n \in Nat
  PROVE  /\ upTo(n) \in Seq(Nat)
         /\ Append(upTo(n), n + 1) = upTo(n + 1)
  <1>1. upTo(n) \in Seq(Nat) /\ Len(upTo(n)) = n
    BY DEF upTo
  <1>2. upTo(n + 1) \in Seq(Nat) /\ Len(upTo(n + 1)) = n + 1
    BY DEF upTo
  <1> DEFINE s == Append(upTo(n), n + 1)
  <1>3. s \in Seq(Nat) /\ Len(s) = n + 1
    BY <1>1
  <1>4. \A i \in 1 .. n + 1 : s[i] = upTo(n + 1)[i]
    <2> SUFFICES ASSUME NEW i \in 1 .. n + 1
                 PROVE  s[i] = upTo(n + 1)[i]
      OBVIOUS
    <2>1. upTo(n + 1)[i] = i
      BY DEF upTo
    <2>2. CASE i = n + 1
      BY <1>1, <2>1, <2>2
    <2>3. CASE i # n + 1
      <3>1. i \in 1 .. n
        BY <2>3
      <3>2. s[i] = upTo(n)[i]
        BY <1>1, <3>1
      <3>3. upTo(n)[i] = i
        BY <3>1 DEF upTo
      <3> QED BY <2>1, <3>2, <3>3
    <2> QED BY <2>2, <2>3
  <1>5. s = upTo(n + 1)
    <2> HIDE DEF s
    <2> QED BY <1>2, <1>3, <1>4
  <1> QED BY <1>1, <1>5

(* Every test has an item, whatever its type. *)
LEMMA ItemsPositive ==
  ASSUME NEW p \in Runs
  PROVE  itemsOf(p) \in Nat \ {0}
  BY RunsBounds DEF itemsOf

(* Runs are pairs, and none of them is None. *)
LEMMA RunsArePairs ==
  /\ None \notin Runs
  /\ None \notin Modes \cup Outcomes
  /\ \A p \in Runs : p[2] \in Nat
  BY RunsNone, RunsBounds DEF Runs, Modes, Outcomes

-----------------------------------------------------------------------------
(* Frames *)

(* Nothing but the scheduler and the stream cancels a context. *)
LEMMA CancelledKept ==
  ASSUME UNCHANGED schedVars
  PROVE  \A p : /\ cancelled(p)' <=> cancelled(p)
                /\ itemsOf(p)' = itemsOf(p)
                /\ kind'[p[1]] = kind[p[1]]
  BY DEF schedVars, cancelled, itemsOf

(* A run that goes on within a pass, or gives up because its context is    *)
(* done, keeps the account of what was reported.                           *)
LEMMA WalkKeepsProgress ==
  ASSUME TypeOK, Progress, UNCHANGED schedVars, UNCHANGED <<pos, said>>,
         NEW p \in Runs, NEW w, pc[p] \in Active,
         pc' = [pc EXCEPT ![p] = w],
         w \in Active \/ (cancelled(p) /\ w \in {"none", "idle", "done"})
  PROVE  Progress'
  <1> SUFFICES ASSUME NEW q \in Runs
               PROVE  /\ pc'[q] # "none" => q[2] <= cur'
                      /\ pc'[q] \in Active /\ ~cancelled(q)' =>
                            pos'[q] \in 1 .. itemsOf(q)' /\ said'[q] = upTo(pos'[q] - 1)
                      /\ pc'[q] = "idle" /\ ~cancelled(q)' => said'[q] = upTo(itemsOf(q)')
    BY Zenon DEF Progress
  <1>1. /\ pc[q] # "none" => q[2] <= cur
        /\ pc[q] \in Active /\ ~cancelled(q) => pos[q] \in 1 .. itemsOf(q) /\ said[q] = upTo(pos[q] - 1)
        /\ pc[q] = "idle" /\ ~cancelled(q) => said[q] = upTo(itemsOf(q))
    BY DEF Progress
  <1>2. /\ cancelled(q)' <=> cancelled(q)
        /\ itemsOf(q)' = itemsOf(q) /\ cur' = cur /\ pos' = pos /\ said' = said
    BY CancelledKept DEF schedVars
  <1>3. CASE q # p
    <2>1. pc'[q] = pc[q]
      BY <1>3 DEF TypeOK
    <2> QED BY <1>1, <1>2, <2>1
  <1>4. CASE q = p
    <2>1. pc'[q] = w /\ pc[q] \in Active /\ pc[q] # "none"
      BY <1>4 DEF TypeOK, Active, OffHome
    <2>2. w \in Active => w # "idle"
      BY DEF Active, OffHome
    <2>3. w \in {"none", "idle", "done"} => w \notin Active
      BY DEF Active, OffHome
    <2> QED BY <1>1, <1>2, <1>4, <2>1, <2>2, <2>3
  <1> QED BY <1>3, <1>4

(* Where a run returns to. *)
LEMMA ReturnsTo ==
  ASSUME NEW p
  PROVE  return(p) \in {"none", "idle"}
  BY DEF return

(* A pass that moves on after its item was reported, or after its context  *)
(* is done, keeps the account.                                             *)
LEMMA MoveOnKeepsProgress ==
  ASSUME TypeOK, Progress, UNCHANGED schedVars, NEW p \in Runs, pc[p] \in Active,
         moveOn(p),
         \/ said' = [said EXCEPT ![p] = Append(@, pos[p])]
         \/ said' = said /\ cancelled(p)
  PROVE  Progress' /\ pos' \in [Runs -> Nat] /\ said' \in [Runs -> Seq(Nat)]
  <1> DEFINE more == pos[p] < itemsOf(p) /\ ~(kind[p[1]] = "saas" /\ cancelled(p))
             w == IF more THEN "probe" ELSE return(p)
             n == IF more THEN pos[p] + 1 ELSE pos[p]
  <1>1. pc' = [pc EXCEPT ![p] = w] /\ pos' = [pos EXCEPT ![p] = n]
    BY DEF moveOn, Goes
  <1>2. pos[p] \in Nat /\ said[p] \in Seq(Nat) /\ itemsOf(p) \in Nat \ {0}
    BY ItemsPositive DEF TypeOK
  <1>3. pos' \in [Runs -> Nat] /\ said' \in [Runs -> Seq(Nat)]
    <2>1. n \in Nat
      BY <1>2
    <2>2. Append(said[p], pos[p]) \in Seq(Nat)
      BY <1>2
    <2> HIDE DEF n
    <2> QED BY <1>1, <2>1, <2>2 DEF TypeOK
  <1>4. SUFFICES ASSUME NEW q \in Runs
               PROVE  /\ pc'[q] # "none" => q[2] <= cur'
                      /\ pc'[q] \in Active /\ ~cancelled(q)' =>
                            pos'[q] \in 1 .. itemsOf(q)' /\ said'[q] = upTo(pos'[q] - 1)
                      /\ pc'[q] = "idle" /\ ~cancelled(q)' => said'[q] = upTo(itemsOf(q)')
    BY <1>3, Zenon DEF Progress
  <1>5. /\ pc[q] # "none" => q[2] <= cur
        /\ pc[q] \in Active /\ ~cancelled(q) => pos[q] \in 1 .. itemsOf(q) /\ said[q] = upTo(pos[q] - 1)
        /\ pc[q] = "idle" /\ ~cancelled(q) => said[q] = upTo(itemsOf(q))
    BY DEF Progress
  <1>6. /\ cancelled(q)' <=> cancelled(q)
        /\ itemsOf(q)' = itemsOf(q) /\ cur' = cur
    BY CancelledKept DEF schedVars
  <1>7. CASE q # p
    <2>1. pc'[q] = pc[q] /\ pos'[q] = pos[q] /\ said'[q] = said[q]
      BY <1>1, <1>7 DEF TypeOK
    <2> QED BY <1>5, <1>6, <2>1
  <1>8. CASE q = p
    <2>1. pc'[p] = w /\ pos'[p] = n /\ pc[p] # "none"
      BY <1>1 DEF TypeOK, Active, OffHome
    <2>2. CASE cancelled(p)
      BY <1>5, <1>6, <1>8, <2>1, <2>2
    <2>3. CASE ~cancelled(p)
      <3>1. said'[p] = Append(said[p], pos[p])
        BY <2>3 DEF TypeOK
      <3>2. pos[p] \in 1 .. itemsOf(p) /\ said[p] = upTo(pos[p] - 1)
        BY <1>5, <1>8, <2>3
      <3>3. said'[p] = upTo(pos[p])
        <4>1. pos[p] - 1 \in Nat /\ (pos[p] - 1) + 1 = pos[p]
          BY <1>2, <3>2
        <4> QED BY <3>1, <3>2, <4>1, UpToAppend
      <3>4. CASE pos[p] < itemsOf(p)
        <4>1. w = "probe" /\ n = pos[p] + 1
          BY <2>3, <3>4
        <4>2. n \in 1 .. itemsOf(p) /\ n - 1 = pos[p]
          BY <1>2, <3>2, <3>4, <4>1
        <4> HIDE DEF w, n
        <4> QED BY <1>5, <1>6, <1>8, <2>1, <3>3, <4>1, <4>2 
      <3>5. CASE ~(pos[p] < itemsOf(p))
        <4>1. pos[p] = itemsOf(p)
          BY <1>2, <3>2, <3>5
        <4>2. w \in {"none", "idle"}
          BY <3>5, ReturnsTo
        <4>3. w \notin Active
          BY <4>2 DEF Active, OffHome
        <4> HIDE DEF w, n
        <4> QED BY <1>5, <1>6, <1>8, <2>1, <3>3, <4>1, <4>3
      <3> QED BY <3>4, <3>5
    <2> QED BY <2>2, <2>3
  <1> QED BY <1>7, <1>8

(* Passes that start, of runs that are not in one, keep the account, also  *)
(* when they come with a new configuration.                                *)
LEMMA StartsKeepsProgress ==
  ASSUME TypeOK, Progress, NEW ps, Starts(ps), kind' = kind, live' = live,
         \/ cur' = cur /\ \A p \in Runs \cap ps : p[2] <= cur
         \/ cur' = cur + 1 /\ \A p \in Runs \cap ps : p[2] = cur + 1
  PROVE  Progress' /\ pos' \in [Runs -> Nat] /\ said' \in [Runs -> Seq(Nat)]
  <1>1. /\ pc' = [p \in Runs |-> IF p \in ps THEN runTest(p) ELSE pc[p]]
        /\ pos' = [p \in Runs |-> IF p \in ps THEN 1 ELSE pos[p]]
        /\ said' = [p \in Runs |-> IF p \in ps THEN <<>> ELSE said[p]]
    BY DEF Starts
  <1>2. pos' \in [Runs -> Nat] /\ said' \in [Runs -> Seq(Nat)]
    BY <1>1 DEF TypeOK
  <1>3. SUFFICES ASSUME NEW q \in Runs
               PROVE  /\ pc'[q] # "none" => q[2] <= cur'
                      /\ pc'[q] \in Active /\ ~cancelled(q)' =>
                            pos'[q] \in 1 .. itemsOf(q)' /\ said'[q] = upTo(pos'[q] - 1)
                      /\ pc'[q] = "idle" /\ ~cancelled(q)' => said'[q] = upTo(itemsOf(q)')
    BY <1>2, Zenon DEF Progress
  <1>4. /\ pc[q] # "none" => q[2] <= cur
        /\ pc[q] \in Active /\ ~cancelled(q) => pos[q] \in 1 .. itemsOf(q) /\ said[q] = upTo(pos[q] - 1)
        /\ pc[q] = "idle" /\ ~cancelled(q) => said[q] = upTo(itemsOf(q))
    BY DEF Progress
  <1>5. itemsOf(q)' = itemsOf(q) /\ itemsOf(q) \in Nat \ {0}
    BY ItemsPositive DEF itemsOf
  <1>6. cur \in Nat /\ q[2] \in Nat
    BY RunsArePairs DEF TypeOK
  <1>7. CASE q \in ps
    <2>1. pc'[q] = runTest(q) /\ pos'[q] = 1 /\ said'[q] = <<>>
      BY <1>1, <1>7
    <2>2. pc'[q] # "idle"
      BY <2>1 DEF runTest
    <2>3. pos'[q] - 1 = 0 /\ 1 \in 1 .. itemsOf(q)
      BY <1>5, <2>1
    <2>4. q[2] <= cur'
      BY <1>6, <1>7
    <2> QED BY <1>5, <2>1, <2>2, <2>3, <2>4, UpToNothing
  <1>8. CASE q \notin ps
    <2>1. pc'[q] = pc[q] /\ pos'[q] = pos[q] /\ said'[q] = said[q]
      BY <1>1, <1>8
    <2>2. pc[q] # "none" => (cancelled(q) => cancelled(q)')
      BY <1>4, <1>6 DEF cancelled
    <2>3. "none" \notin Active /\ "none" # "idle"
      BY DEF Active, OffHome
    <2>4. q[2] <= cur => q[2] <= cur'
      BY <1>6
    <2> QED BY <1>4, <1>5, <2>1, <2>2, <2>3, <2>4
  <1> QED BY <1>7, <1>8

-----------------------------------------------------------------------------
(* The parts about outcomes and the radio *)

(* A run that neither enters the air nor leaves it leaves the radio alone. *)
LEMMA WalkKeepsRadio ==
  ASSUME TypeOK, RadioInv, UNCHANGED <<mu, radio, home, prev, route, left>>,
         NEW p \in Runs, NEW w,
         pc[p] \notin OffHome \cup {"switch"}, w \notin OffHome \cup {"switch"},
         pc' = [pc EXCEPT ![p] = w]
  PROVE  RadioInv'
  <1>1. \A q \in Runs : /\ q # p => pc'[q] = pc[q]
                        /\ q = p => pc'[q] = w
    BY DEF TypeOK
  <1>2. \A q \in Runs : /\ pc'[q] \in OffHome <=> pc[q] \in OffHome
                        /\ pc'[q] = "switch" <=> pc[q] = "switch"
                        /\ pc'[q] \in {"load", "off"} <=> pc[q] \in {"load", "off"}
    BY <1>1 DEF OffHome
  <1>3. AirHeld'
    BY <1>2 DEF RadioInv, AirHeld
  <1>4. Owed'
    BY <1>2 DEF RadioInv, Owed
  <1>5. WillRestore'
    BY <1>2 DEF RadioInv, WillRestore
  <1>6. RadioRestored'
    BY <1>2 DEF RadioInv, RadioRestored, atHome, OffHome
  <1> QED BY <1>3, <1>4, <1>5, <1>6 DEF RadioInv

(* So do passes that start, of runs that are not in one. *)
LEMMA StartsKeepsRadio ==
  ASSUME TypeOK, RadioInv, UNCHANGED <<mu, radio, home, prev, route, left>>,
         NEW ps, Starts(ps), \A p \in Runs \cap ps : pc[p] \notin Active
  PROVE  RadioInv'
  <1>1. \A q \in Runs : /\ q \notin ps => pc'[q] = pc[q]
                        /\ q \in ps => pc'[q] \in {"iface", "probe"} /\ pc[q] \notin Active
    BY DEF Starts, runTest
  <1>2. \A q \in Runs : /\ pc'[q] \in OffHome <=> pc[q] \in OffHome
                        /\ pc'[q] = "switch" <=> pc[q] = "switch"
                        /\ pc'[q] \in {"load", "off"} <=> pc[q] \in {"load", "off"}
    BY <1>1 DEF OffHome, Active
  <1>3. AirHeld'
    BY <1>2 DEF RadioInv, AirHeld
  <1>4. Owed'
    BY <1>2 DEF RadioInv, Owed
  <1>5. WillRestore'
    BY <1>2 DEF RadioInv, WillRestore
  <1>6. RadioRestored'
    BY <1>2 DEF RadioInv, RadioRestored, atHome, OffHome
  <1> QED BY <1>3, <1>4, <1>5, <1>6 DEF RadioInv

(* What a run is given to report keeps to the rule about cancellations. *)
LEMMA GoesKeepsCuts ==
  ASSUME TypeOK, CutHeld, CancelIsNoFailure, kind' = kind,
         NEW p \in Runs, NEW w \in Active \cup {"none", "idle", "done"},
         NEW o \in Outcomes \cup {None},
         Goes(p, w, o),
         o = "cut" => kind[p[1]] \in Frank,
         w \in {"route", "load"} => kind[p[1]] = "wlan_active"
  PROVE  /\ CutHeld' /\ (results' = results => CancelIsNoFailure')
         /\ pc' \in [Runs -> Active \cup {"none", "idle", "done"}]
         /\ res' \in [Runs -> Outcomes \cup {None}]
  <1>1. /\ pc' = [pc EXCEPT ![p] = w] /\ res' = [res EXCEPT ![p] = o]
    BY DEF Goes
  <1>2. \A q \in Runs : /\ q # p => pc'[q] = pc[q] /\ res'[q] = res[q]
                        /\ q = p => pc'[q] = w /\ res'[q] = o
    BY <1>1 DEF TypeOK
  <1>3. CutHeld'
    BY <1>2 DEF CutHeld
  <1>4. results' = results => CancelIsNoFailure'
    BY DEF CancelIsNoFailure, Frank
  <1> QED BY <1>1, <1>3, <1>4 DEF TypeOK

(* A run on the air moves on there: it is alone, so only what it remembers *)
(* and what it did to the interface counts.                                *)
LEMMA AirWalk ==
  ASSUME TypeOK, RadioInv, UNCHANGED <<mu, home>>,
         NEW p \in Runs, NEW w, pc[p] \in OffHome \cup {"switch"}, w \in OffHome,
         pc' = [pc EXCEPT ![p] = w],
         NEW pv, prev' = [prev EXCEPT ![p] = pv],
         NEW rt, route' = [route EXCEPT ![p] = rt],
         w \notin {"load", "off"} => rt = "none",
         Mends(radio', pv, rt, home, left')
  PROVE  RadioInv'
  <1>1. \A q \in Runs : /\ q # p => pc'[q] = pc[q] /\ prev'[q] = prev[q] /\ route'[q] = route[q]
                        /\ q = p => pc'[q] = w /\ prev'[q] = pv /\ route'[q] = rt
    BY DEF TypeOK
  <1>2. mu = p
    BY DEF RadioInv, AirHeld
  <1>3. \A q \in Runs : q # p => pc[q] \notin OffHome \cup {"switch"}
    BY <1>2 DEF RadioInv, AirHeld
  <1>4. AirHeld'
    BY <1>1, <1>2, <1>3 DEF AirHeld
  <1>5. Owed'
    BY <1>1 DEF RadioInv, Owed
  <1>6. WillRestore'
    BY <1>1, <1>3 DEF WillRestore
  <1>7. pc'[p] \in {"air", "route", "load", "off"}
    BY <1>1 DEF OffHome
  <1>8. RadioRestored'
    BY <1>7 DEF RadioRestored
  <1> QED BY <1>4, <1>5, <1>6, <1>8 DEF RadioInv

(* The property, part by part. *)
LEMMA HomeByParts ==
  ASSUME NEW r \in Radios, NEW mode, NEW l
  PROVE  (\A part \in DOMAIN r \ l : r[part] = atHome(mode)[part]) <=> HomeBut(r, mode, l)
  <1>1. DOMAIN r = Parts
    BY DEF Radios, Parts
  <1>2. /\ atHome(mode)["mode"] = mode /\ atHome(mode)["up"] = TRUE
        /\ atHome(mode)["addr"] = FALSE /\ atHome(mode)["route"] = FALSE
    BY DEF atHome
  <1>3. (\A part \in Parts \ l : r[part] = atHome(mode)[part]) <=>
           /\ "mode" \notin l => r["mode"] = atHome(mode)["mode"]
           /\ "up" \notin l => r["up"] = atHome(mode)["up"]
           /\ "addr" \notin l => r["addr"] = atHome(mode)["addr"]
           /\ "route" \notin l => r["route"] = atHome(mode)["route"]
    BY DEF Parts
  <1> QED BY <1>1, <1>2, <1>3 DEF HomeBut

(* Two interfaces differ in the parts that differ. *)
LEMMA DifferInParts ==
  ASSUME NEW r \in Radios, NEW s \in Radios
  PROVE  /\ differ(r, s) \in SUBSET Parts
         /\ "mode" \notin differ(r, s) => r.mode = s.mode
         /\ "up" \notin differ(r, s) => r.up = s.up
         /\ "addr" \notin differ(r, s) => r.addr = s.addr
         /\ "route" \notin differ(r, s) => r.route = s.route
  <1>1. DOMAIN r = Parts
    BY DEF Radios, Parts
  <1>2. differ(r, s) = {part \in Parts : r[part] # s[part]}
    BY <1>1 DEF differ
  <1> QED BY <1>2 DEF Parts

(* The deferred calls put back what can be put back. *)
LEMMA RestoredIsHome ==
  ASSUME TypeOK, NEW p \in Runs, Mends(radio, prev[p], route[p], home, left)
  PROVE  restored(p) \in Radios /\ HomeBut(restored(p), home, left)
  <1> DEFINE r == teardownTestRoute(p)
  <1>1. radio \in Radios /\ home \in Modes /\ prev[p] \in Modes \cup {None}
    BY DEF TypeOK
  <1>2. /\ r \in Radios /\ r.up = radio.up /\ r.mode = radio.mode
        /\ route[p] = "set" => r.addr = FALSE /\ r.route = FALSE
        /\ route[p] # "set" => r.addr = radio.addr /\ r.route = radio.route
    BY <1>1 DEF teardownTestRoute, Radios
  <1> HIDE DEF r
  <1>3. CASE prev[p] = None
    <2>1. restored(p) = r
      BY <1>3 DEF restored, r
    <2>2. HomeBut(r, home, left)
      BY <1>2, <1>3 DEF Mends, HomeBut
    <2> QED BY <1>2, <2>1, <2>2
  <1>4. CASE prev[p] # None
    <2> DEFINE s == [r EXCEPT !.mode = prev[p], !.up = TRUE]
    <2>1. restored(p) = s
      BY <1>4 DEF restored, r
    <2>2. prev[p] \in Modes
      BY <1>1, <1>4
    <2>3. s \in Radios /\ s.up = TRUE /\ s.mode = prev[p] /\ s.addr = r.addr /\ s.route = r.route
      BY <1>2, <2>2 DEF Radios, Modes
    <2> HIDE DEF s
    <2>4. HomeBut(s, home, left)
      BY <1>2, <1>4, <2>3 DEF Mends, HomeBut
    <2> QED BY <2>1, <2>3, <2>4
  <1> QED BY <1>3, <1>4

(* What a failing one leaves is a part that has failed. *)
LEMMA DeferredIsHome ==
  ASSUME TypeOK, NEW p \in Runs, Mends(radio, prev[p], route[p], home, left), DeferredCalls(p)
  PROVE  /\ radio' \in Radios /\ left' \in SUBSET Parts
         /\ HomeBut(radio', home, left')
  <1>1. restored(p) \in Radios /\ HomeBut(restored(p), home, left)
    BY RestoredIsHome
  <1>2. left \in SUBSET Parts /\ radio \in Radios
    BY DEF TypeOK
  <1>3. CASE radio' = restored(p) /\ left' = left
    BY <1>1, <1>2, <1>3
  <1>4. CASE radio' \in restoredPartly(p) /\ left' = left \cup differ(radio', restored(p))
    <2>1. radio' \in Radios
      <3>1. \A q \in {restored(p), radio} : /\ q.mode \in Modes /\ q.up \in BOOLEAN
                                          /\ q.addr \in BOOLEAN /\ q.route \in BOOLEAN
        BY <1>1, <1>2 DEF Radios, Modes
      <3> DEFINE M == {restored(p).mode, radio.mode}
                 U == {restored(p).up, radio.up} \cup (IF prev[p] = None THEN {} ELSE {FALSE})
                 A == {restored(p).addr, radio.addr}
                 R == {restored(p).route, radio.route}
      <3>2. restoredPartly(p) = {[mode |-> m, up |-> u, addr |-> a, route |-> r] : m \in M, u \in U, a \in A, r \in R}
        BY DEF restoredPartly
      <3>3. M \subseteq Modes /\ U \subseteq BOOLEAN /\ A \subseteq BOOLEAN /\ R \subseteq BOOLEAN
        BY <3>1
      <3> HIDE DEF M, U, A, R
      <3>4. \A m \in M, u \in U, a \in A, r \in R : [mode |-> m, up |-> u, addr |-> a, route |-> r] \in Radios
        BY <3>3 DEF Radios, Modes
      <3> QED BY <1>4, <3>2, <3>4
    <2> DEFINE d == differ(radio', restored(p))
    <2>2. /\ d \in SUBSET Parts
          /\ "mode" \notin d => radio'.mode = restored(p).mode
          /\ "up" \notin d => radio'.up = restored(p).up
          /\ "addr" \notin d => radio'.addr = restored(p).addr
          /\ "route" \notin d => radio'.route = restored(p).route
      BY <1>1, <2>1, DifferInParts
    <2> HIDE DEF d
    <2>3. left' = left \cup d
      BY <1>4 DEF d
    <2>4. HomeBut(radio', home, left')
      BY <1>1, <2>2, <2>3 DEF HomeBut
    <2> QED BY <1>2, <2>1, <2>2, <2>3, <2>4
  <1> QED BY <1>3, <1>4 DEF DeferredCalls

-----------------------------------------------------------------------------
(* One lemma per kind of step *)

Ground == Active \ (OffHome \cup {"switch"})

(* A run away from the radio goes on, or gives up. *)
LEMMA GroundStep ==
  ASSUME IInv, UNCHANGED <<schedVars, pos, said, results, mu, radioVars>>,
         NEW p \in Runs, NEW w, NEW o \in Outcomes \cup {None}, Goes(p, w, o),
         pc[p] \in Ground,
         w \in Ground \/ (cancelled(p) /\ w = return(p)),
         o = "cut" => kind[p[1]] \in Frank
  PROVE  IInv'
  <1>1. TypeOK /\ Progress /\ CutHeld /\ CancelIsNoFailure /\ RadioInv
    BY DEF IInv
  <1>2. pc' = [pc EXCEPT ![p] = w]
    BY DEF Goes
  <1>3. w \in Ground \/ (cancelled(p) /\ w \in {"none", "idle", "done"})
    BY ReturnsTo
  <1>4. /\ pc[p] \in Active /\ pc[p] \notin OffHome \cup {"switch"}
        /\ w \notin OffHome \cup {"switch"} /\ w \notin {"route", "load"}
        /\ w \in Active \/ (cancelled(p) /\ w \in {"none", "idle", "done"})
    BY <1>3 DEF Ground, OffHome
  <1>5. UNCHANGED schedVars /\ UNCHANGED <<pos, said>> /\ UNCHANGED <<mu, radio, home, prev, route, left>>
        /\ kind' = kind /\ results' = results
    BY DEF schedVars, radioVars
  <1>6. Progress'
    BY <1>1, <1>2, <1>4, <1>5, WalkKeepsProgress
  <1>7. RadioInv'
    BY <1>1, <1>2, <1>4, <1>5, WalkKeepsRadio
  <1>8. /\ CutHeld' /\ CancelIsNoFailure'
        /\ pc' \in [Runs -> Active \cup {"none", "idle", "done"}]
        /\ res' \in [Runs -> Outcomes \cup {None}]
    BY <1>1, <1>4, <1>5, GoesKeepsCuts
  <1>9. TypeOK'
    BY <1>1, <1>5, <1>8 DEF TypeOK, schedVars
  <1> QED BY <1>6, <1>7, <1>8, <1>9 DEF IInv

(* A run on the air goes on there: it goes to w with outcome o, remembers  *)
(* pv and rt, and can still put the interface back.                        *)
AirMove(p, w, o, pv, rt) ==
    /\ UNCHANGED <<schedVars, pos, said, results, mu, home>>
    /\ o \in Outcomes \cup {None} /\ Goes(p, w, o)
    /\ pc[p] \in OffHome \cup {"switch"} /\ w \in OffHome
    /\ o = "cut" => kind[p[1]] \in Frank
    /\ w \in {"route", "load"} => kind[p[1]] = "wlan_active"
    /\ left' \in SUBSET Parts /\ radio' \in Radios
    /\ pv \in Modes \cup {None} /\ prev' = [prev EXCEPT ![p] = pv]
    /\ rt \in {"none", "set", "err"} /\ route' = [route EXCEPT ![p] = rt]
    /\ w \notin {"load", "off"} => rt = "none"
    /\ Mends(radio', pv, rt, home, left')

(* A run that moves on the air, whatever it leaves of the route and the radio, keeps the invariant. *)
LEMMA AirStep ==
  ASSUME IInv, NEW p \in Runs, NEW w, NEW o, NEW pv, NEW rt, AirMove(p, w, o, pv, rt)
  PROVE  IInv'
  <1> USE DEF AirMove
  <1>1. TypeOK /\ Progress /\ CutHeld /\ CancelIsNoFailure /\ RadioInv
    BY DEF IInv
  <1>2. pc' = [pc EXCEPT ![p] = w]
    BY DEF Goes
  <1>3. pc[p] \in Active /\ w \in Active
    BY DEF Active
  <1>4. UNCHANGED schedVars /\ UNCHANGED <<pos, said>> /\ UNCHANGED <<mu, home>> /\ kind' = kind /\ results' = results
    BY DEF schedVars
  <1>5. Progress'
    BY <1>1, <1>2, <1>3, <1>4, WalkKeepsProgress
  <1>6. RadioInv'
    BY <1>1, <1>2, <1>4, AirWalk
  <1>7. /\ CutHeld' /\ CancelIsNoFailure'
        /\ pc' \in [Runs -> Active \cup {"none", "idle", "done"}]
        /\ res' \in [Runs -> Outcomes \cup {None}]
    BY <1>1, <1>3, <1>4, GoesKeepsCuts
  <1>8. prev' \in [Runs -> Modes \cup {None}] /\ route' \in [Runs -> {"none", "set", "err"}]
    BY <1>1 DEF TypeOK
  <1>9. TypeOK'
    BY <1>1, <1>4, <1>7, <1>8 DEF TypeOK, schedVars
  <1> QED BY <1>5, <1>6, <1>7, <1>9 DEF IInv

(* A probe ends: its outcome goes to the channel, or the run gives up.     *)
LEMMA ProbeEnds ==
  ASSUME IInv, NEW p \in Runs, Probe(p)
  PROVE  IInv'
  <1> DEFINE Gives(w, o) ==
               /\ pc[p] = "probe"
               /\ UNCHANGED <<schedVars, pos, said, results, mu, radioVars>>
               /\ Goes(p, w, o) /\ o \in Outcomes \cup {None}
               /\ w \in {"send", "skip"} \/ (cancelled(p) /\ w = return(p))
               /\ o = "cut" => kind[p[1]] \in Frank
  <1>1. \E w, o : Gives(w, o)
    <2>1. PICK how \in {"ok", "failed", "cut"} :
             \/ runPings(p, how) \/ runDNS(p, how) \/ runHTTP(p, how) \/ runTCP(p, how)
             \/ runSpeedtest(p, how) \/ runPerfmon(p, how) \/ runTraceroute(p, how)
             \/ \E endpoint \in {"https", "tcp", "other"} : runSaas(p, how, endpoint)
      BY DEF Probe
    <2>2. /\ how \in Outcomes /\ None # "cut"
          /\ how = "cut" /\ how \in measures(p) => cancelled(p)
          /\ how = "cut" /\ how \in DNSQuery(p) => cancelled(p)
      BY RunsArePairs DEF Outcomes, measures, DNSQuery
    <2>3. CASE runPings(p, how)
      <3>1. how = "cut" => cancelled(p)
        BY <2>2, <2>3 DEF runPings, Probed, Ping
      <3>2. PICK err \in PingErrors(how) :
               IF err /\ cancelled(p) THEN Goes(p, return(p), None) ELSE Goes(p, "send", how)
        BY <2>3 DEF runPings
      <3>3. how = "cut" => err = TRUE
        BY <3>2, Zenon DEF PingErrors
      <3>4. Gives(return(p), None) \/ Gives("send", how)
        BY <2>2, <2>3, <3>1, <3>2, <3>3 DEF runPings, Probed
      <3> QED BY <3>4
    <2>4. CASE runDNS(p, how)
      <3>1. Gives(return(p), None) \/ Gives("send", how)
        BY <2>2, <2>4 DEF runDNS, Probed
      <3> QED BY <3>1
    <2>5. CASE runHTTP(p, how)
      <3>1. how = "cut" => cancelled(p)
        BY <2>2, <2>5 DEF runHTTP, Probed, HTTPCheck
      <3>2. Gives(return(p), None) \/ Gives("send", how)
        BY <2>2, <2>5, <3>1 DEF runHTTP, Probed
      <3> QED BY <3>2
    <2>6. CASE runTCP(p, how)
      <3>1. how = "cut" => cancelled(p)
        BY <2>2, <2>6 DEF runTCP, Probed, TCPConnect
      <3>2. Gives(return(p), None) \/ Gives("send", how)
        BY <2>2, <2>6, <3>1 DEF runTCP, Probed
      <3> QED BY <3>2
    <2>7. CASE runSpeedtest(p, how)
      <3>1. how = "cut" => cancelled(p)
        BY <2>2, <2>7 DEF runSpeedtest, Probed
      <3>2. Gives(return(p), None) \/ Gives("send", how)
        BY <2>2, <2>7, <3>1 DEF runSpeedtest, Probed
      <3> QED BY <3>2
    <2>8. CASE runPerfmon(p, how)
      <3>1. Gives("send", how)
        BY <2>2, <2>8 DEF runPerfmon, Probed, Frank
      <3> QED BY <3>1
    <2>9. CASE runTraceroute(p, how)
      <3>1. Gives(return(p), None) \/ Gives("send", how)
        BY <2>2, <2>9 DEF runTraceroute, Probed, Frank
      <3> QED BY <3>1
    <2>10. ASSUME NEW endpoint \in {"https", "tcp", "other"}, runSaas(p, how, endpoint)
           PROVE  \E w, o : Gives(w, o)
      <3>1. how = "cut" => cancelled(p)
        BY <2>2, <2>10 DEF runSaas, Probed, TCPConnect, HTTPCheck
      <3>2. Gives(return(p), None) \/ Gives("skip", None) \/ Gives("send", how)
        BY <2>2, <2>10, <3>1 DEF runSaas, Probed
      <3> QED BY <3>2
    <2> QED BY <2>1, <2>3, <2>4, <2>5, <2>6, <2>7, <2>8, <2>9, <2>10
  <1>2. PICK w, o : Gives(w, o)
    BY <1>1
  <1>3. pc[p] \in Ground /\ (w \in Ground \/ (cancelled(p) /\ w = return(p)))
    BY <1>2 DEF Ground, Active, OffHome
  <1> QED BY <1>2, <1>3, GroundStep

(* A pass moves on to its next item, or ends.                              *)
LEMMA MoveOnStep ==
  ASSUME IInv, UNCHANGED <<schedVars, mu, radioVars>>, NEW p \in Runs, pc[p] \in Ground, moveOn(p),
         \/ said' = [said EXCEPT ![p] = Append(@, pos[p])]
         \/ said' = said /\ cancelled(p),
         results' \in Seq([run : Runs, item : Nat, how : Outcomes \cup {None}]),
         CancelIsNoFailure'
  PROVE  IInv'
  <1>1. TypeOK /\ Progress /\ CutHeld /\ CancelIsNoFailure /\ RadioInv
    BY DEF IInv
  <1>2. PICK w \in {"probe", return(p)} : Goes(p, w, None)
    BY DEF moveOn
  <1>3. pc' = [pc EXCEPT ![p] = w] /\ w \in {"probe", "none", "idle"}
    BY <1>2, ReturnsTo DEF Goes
  <1>4. /\ pc[p] \in Active /\ pc[p] \notin OffHome \cup {"switch"}
        /\ w \notin OffHome \cup {"switch"} /\ w \notin {"route", "load"}
        /\ w \in Active \cup {"none", "idle", "done"}
    BY <1>3 DEF Ground, Active, OffHome
  <1>5. UNCHANGED schedVars /\ UNCHANGED <<mu, radio, home, prev, route, left>> /\ kind' = kind
    BY DEF schedVars, radioVars
  <1>6. Progress' /\ pos' \in [Runs -> Nat] /\ said' \in [Runs -> Seq(Nat)]
    BY <1>1, <1>4, <1>5, MoveOnKeepsProgress
  <1>7. RadioInv'
    BY <1>1, <1>3, <1>4, <1>5, WalkKeepsRadio
  <1>8. /\ CutHeld'
        /\ pc' \in [Runs -> Active \cup {"none", "idle", "done"}]
        /\ res' \in [Runs -> Outcomes \cup {None}]
    BY <1>1, <1>2, <1>4, <1>5, GoesKeepsCuts, RunsArePairs DEF Outcomes
  <1>9. TypeOK'
    BY <1>1, <1>5, <1>6, <1>8 DEF TypeOK, schedVars
  <1> QED BY <1>6, <1>7, <1>8, <1>9 DEF IInv

(* A result is sent, or dropped, or there is none.                         *)
LEMMA ReportStep ==
  ASSUME IInv, NEW p \in Runs, Report(p)
  PROVE  IInv'
  <1> DEFINE Result == [run : Runs, item : Nat, how : Outcomes \cup {None}]
             r == [run |-> p, item |-> pos[p], how |-> res[p]]
  <1>1. TypeOK /\ CutHeld /\ CancelIsNoFailure /\ results \in Seq(Result)
    BY DEF IInv, TypeOK
  <1>2. results' = results /\ kind' = kind => CancelIsNoFailure'
    BY <1>1 DEF CancelIsNoFailure
  <1>3. CASE sendResult(p)
    <2>1. /\ pc[p] = "send" /\ moveOn(p) /\ UNCHANGED <<schedVars, mu, radioVars>>
          /\ results' = Append(results, r) /\ said' = [said EXCEPT ![p] = Append(@, pos[p])]
      BY <1>3 DEF sendResult
    <2>2. r \in Result /\ r.how = res[p] /\ r.run = p
      BY <1>1 DEF TypeOK
    <2>3. r.how = "cut" => kind[r.run[1]] \in Frank
      BY <1>1, <2>2 DEF CutHeld
    <2> HIDE DEF r, Result
    <2>4. results' \in Seq(Result) /\ Len(results') = Len(results) + 1
      BY <1>1, <2>1, <2>2
    <2>5. \A i \in 1 .. Len(results') : (results'[i] = results[i] /\ i \in 1 .. Len(results)) \/ results'[i] = r
      BY <1>1, <2>1, <2>2
    <2>6. CancelIsNoFailure'
      <3> SUFFICES ASSUME NEW i \in 1 .. Len(results'), results'[i].how = "cut"
                   PROVE  kind'[results'[i].run[1]] \in Frank
        BY DEF CancelIsNoFailure, Frank
      <3>1. kind' = kind
        BY <2>1 DEF schedVars
      <3>2. CASE results'[i] = r
        BY <2>3, <3>1, <3>2
      <3>3. CASE results'[i] = results[i] /\ i \in 1 .. Len(results)
        BY <1>1, <3>1, <3>3 DEF CancelIsNoFailure, Frank
      <3> QED BY <2>5, <3>2, <3>3
    <2>7. pc[p] \in Ground
      BY <2>1 DEF Ground, Active, OffHome
    <2> QED BY <2>1, <2>4, <2>6, <2>7, MoveOnStep DEF Result
  <1>4. CASE dropResult(p)
    <2>1. pc[p] \in Ground
      BY <1>4 DEF dropResult, Ground, Active, OffHome
    <2>2. /\ moveOn(p) /\ UNCHANGED <<schedVars, mu, radioVars>> /\ results' = results
          /\ said' = said /\ cancelled(p) /\ kind' = kind
      BY <1>4 DEF dropResult, schedVars
    <2> QED BY <1>1, <1>2, <2>1, <2>2, MoveOnStep
  <1>5. CASE Skip(p)
    <2>1. pc[p] \in Ground
      BY <1>5 DEF Skip, Ground, Active, OffHome
    <2>2. /\ moveOn(p) /\ UNCHANGED <<schedVars, mu, radioVars>> /\ results' = results
          /\ said' = [said EXCEPT ![p] = Append(@, pos[p])] /\ kind' = kind
      BY <1>5 DEF Skip, schedVars
    <2> QED BY <1>1, <1>2, <2>1, <2>2, MoveOnStep
  <1> QED BY <1>3, <1>4, <1>5 DEF Report

(* A run looks for an interface.                                           *)
LEMMA ChooseStep ==
  ASSUME IInv, NEW p \in Runs, Choose(p)
  PROVE  IInv'
  <1>1. /\ pc[p] = "iface" /\ UNCHANGED <<schedVars, pos, said, results, mu, radioVars>>
        /\ kind[p[1]] \in Wlan
        /\ \E w \in {"lock", "send"}, o \in {None, "failed", "cut"} : Goes(p, w, o)
    BY DEF Choose, runWlanPassive, runWlanActive, chooseInterface, measures, Wlan
  <1>2. pc[p] \in Ground /\ {"lock", "send"} \subseteq Ground
        /\ {None, "failed", "cut"} \subseteq Outcomes \cup {None}
    BY <1>1 DEF Ground, Active, OffHome, Outcomes
  <1>3. PICK w \in {"lock", "send"}, o \in {None, "failed", "cut"} : Goes(p, w, o)
    BY <1>1
  <1>4. kind[p[1]] \in Frank /\ o \in Outcomes \cup {None} /\ w \in Ground
    BY <1>1, <1>2, <1>3 DEF Frank
  <1> QED BY <1>1, <1>2, <1>3, <1>4, GroundStep

(* A run gets the radio, which is as it was found.                         *)
LEMMA LockStep ==
  ASSUME IInv, NEW p \in Runs, lockRadio(p)
  PROVE  IInv'
  <1>1. TypeOK /\ Progress /\ CutHeld /\ CancelIsNoFailure /\ RadioInv
    BY DEF IInv
  <1>2. /\ pc[p] = "lock" /\ mu = None /\ mu' = p /\ pc' = [pc EXCEPT ![p] = "switch"]
        /\ UNCHANGED <<schedVars, pos, res, said, results, radioVars, passes>>
    BY DEF lockRadio
  <1>3. UNCHANGED schedVars /\ UNCHANGED <<pos, said>> /\ kind' = kind /\ results' = results
        /\ UNCHANGED <<radio, home, prev, route, left>> /\ res' = res
    BY <1>2 DEF schedVars, radioVars
  <1>4. pc[p] \in Active /\ "switch" \in Active /\ "switch" \notin OffHome /\ pc[p] \notin OffHome
    BY <1>2 DEF Active, OffHome
  <1>5. Progress'
    BY <1>1, <1>2, <1>3, <1>4, WalkKeepsProgress
  <1>6. \A q \in Runs : /\ q # p => pc'[q] = pc[q]
                        /\ q = p => pc'[q] = "switch"
    BY <1>1, <1>2 DEF TypeOK
  <1>7. \A q \in Runs : pc[q] \notin OffHome \cup {"switch"}
    BY <1>1, <1>2, RunsArePairs DEF RadioInv, AirHeld
  <1>8. \A q \in Runs : pc'[q] \notin OffHome
    BY <1>4, <1>6, <1>7
  <1>9. RadioInv'
    <2>1. AirHeld'
      BY <1>2, <1>6, <1>7 DEF AirHeld
    <2>2. Owed'
      BY <1>1, <1>2, <1>3, <1>6, <1>7 DEF RadioInv, Owed, OffHome
    <2>3. WillRestore'
      BY <1>8 DEF WillRestore
    <2>4. RadioRestored'
      BY <1>1, <1>3, <1>7 DEF RadioInv, RadioRestored, OffHome, atHome
    <2> QED BY <2>1, <2>2, <2>3, <2>4 DEF RadioInv
  <1>10. CutHeld' /\ CancelIsNoFailure'
    BY <1>1, <1>3, <1>6 DEF CutHeld, CancelIsNoFailure
  <1>11. TypeOK'
    <2>1. pc' \in [Runs -> Active \cup {"none", "idle", "done"}]
      BY <1>1, <1>2, <1>4 DEF TypeOK
    <2> QED BY <1>1, <1>2, <1>3, <2>1 DEF TypeOK, schedVars
  <1> QED BY <1>5, <1>9, <1>10, <1>11 DEF IInv

(* The run that has the mutex and has not switched yet finds the interface *)
(* as it was, and remembers nothing.                                       *)
LEMMA AtSwitch ==
  ASSUME IInv, NEW p \in Runs, pc[p] = "switch"
  PROVE  HomeBut(radio, home, left) /\ prev[p] = None /\ route[p] = "none"
  <1>1. mu = p
    BY DEF IInv, RadioInv, AirHeld
  <1>2. \A q \in Runs : pc[q] \notin OffHome
    BY <1>1 DEF IInv, RadioInv, AirHeld, OffHome
  <1>3. \A part \in DOMAIN radio \ left : radio[part] = atHome(home)[part]
    BY <1>2 DEF IInv, RadioInv, RadioRestored, OffHome
  <1>4. radio \in Radios
    BY DEF IInv, TypeOK
  <1>5. HomeBut(radio, home, left)
    BY <1>3, <1>4, HomeByParts
  <1>6. prev[p] = None /\ route[p] = "none"
    BY <1>2 DEF IInv, RadioInv, Owed
  <1> QED BY <1>5, <1>6

(* A run on the air can put the interface back.                            *)
LEMMA OnTheAir ==
  ASSUME IInv, NEW p \in Runs, pc[p] \in OffHome
  PROVE  /\ Mends(radio, prev[p], route[p], home, left)
         /\ pc[p] \notin {"load", "off"} => route[p] = "none"
  BY DEF IInv, RadioInv, WillRestore, Owed

(* Rewriting a remembered value by itself changes nothing. *)
LEMMA Remembered ==
  ASSUME IInv, NEW p \in Runs
  PROVE  /\ prev = [prev EXCEPT ![p] = prev[p]] /\ prev[p] \in Modes \cup {None}
         /\ route = [route EXCEPT ![p] = route[p]] /\ route[p] \in {"none", "set", "err"}
         /\ radio \in Radios /\ home \in Modes /\ left \in SUBSET Parts /\ radio.mode \in Modes
         /\ res[p] \in Outcomes \cup {None} /\ res = [res EXCEPT ![p] = res[p]]
  BY DEF IInv, TypeOK, Radios, Modes

(* The mode is switched, or was right.                                     *)
LEMMA SwitchStep ==
  ASSUME IInv, NEW p \in Runs, switchMode(p)
  PROVE  IInv'
  <1>1. /\ pc[p] = "switch" /\ Goes(p, "air", None)
        /\ prev' = [prev EXCEPT ![p] = IF radio.mode = wanted(p) THEN None ELSE radio.mode]
        /\ radio' = IF radio.mode = wanted(p) THEN radio ELSE setInterfaceType(wanted(p))
        /\ UNCHANGED <<schedVars, pos, said, results, mu, home>> /\ route' = route /\ left' = left
    BY DEF switchMode
  <1>2. /\ HomeBut(radio, home, left)
        /\ prev[p] = None /\ route[p] = "none"
    BY <1>1, AtSwitch
  <1>3. wanted(p) \in Modes
    BY DEF wanted, Modes
  <1>4. radio \in Radios /\ radio.mode \in Modes /\ left \in SUBSET Parts /\ home # None
        /\ route = [route EXCEPT ![p] = "none"]
    BY <1>2, Remembered, RunsArePairs
  <1>5. "air" \in OffHome /\ "air" \notin {"route", "load"} /\ None # "cut"
        /\ None \in Outcomes \cup {None} /\ None \in Modes \cup {None}
    BY RunsArePairs DEF OffHome, Outcomes
  <1>6. CASE radio.mode = wanted(p)
    <2>1. prev' = [prev EXCEPT ![p] = None] /\ radio' = radio
      BY <1>1, <1>6
    <2>2. Mends(radio, None, "none", home, left)
      BY <1>2 DEF Mends, HomeBut
    <2>3. left' \in SUBSET Parts /\ Mends(radio', None, "none", home, left')
          /\ radio' \in Radios /\ route' = [route EXCEPT ![p] = "none"]
      BY <1>1, <1>4, <2>1, <2>2
    <2>4. AirMove(p, "air", None, None, "none")
      BY <1>1, <1>5, <2>1, <2>3 DEF AirMove
    <2> QED BY <2>4, AirStep
  <1>7. CASE radio.mode # wanted(p)
    <2> DEFINE s == [radio EXCEPT !.up = TRUE, !.mode = wanted(p)]
    <2>1. prev' = [prev EXCEPT ![p] = radio.mode] /\ radio' = s
      BY <1>1, <1>7 DEF setInterfaceType
    <2>2. s \in Radios /\ s.up = TRUE /\ s.addr = radio.addr /\ s.route = radio.route
      BY <1>3, <1>4 DEF Radios, Modes
    <2> HIDE DEF s
    <2>3. Mends(s, radio.mode, "none", home, left)
      BY <1>2, <1>4, <2>2 DEF Mends, HomeBut
    <2>4. left' \in SUBSET Parts /\ Mends(radio', radio.mode, "none", home, left')
          /\ radio' \in Radios /\ route' = [route EXCEPT ![p] = "none"]
      BY <1>1, <1>4, <2>1, <2>2, <2>3
    <2>5. AirMove(p, "air", None, radio.mode, "none")
      BY <1>1, <1>4, <1>5, <2>1, <2>4 DEF AirMove
    <2> QED BY <2>5, AirStep
  <1> QED BY <1>6, <1>7

(* It could not be switched: nothing was done, or it failed half-way.      *)
LEMMA SwitchFailsStep ==
  ASSUME IInv, NEW p \in Runs, switchModeFails(p)
  PROVE  IInv'
  <1>1. /\ pc[p] = "switch" /\ Goes(p, "off", "error")
        /\ UNCHANGED <<schedVars, pos, said, results, mu, home>> /\ route' = route /\ prev' = prev
        /\ radio' = radio \/ radio' \in setInterfaceTypeFails(wanted(p))
        /\ left' = left \cup differ(radio', radio)
    BY DEF switchModeFails
  <1>2. /\ HomeBut(radio, home, left)
        /\ prev[p] = None /\ route[p] = "none"
    BY <1>1, AtSwitch
  <1>3. wanted(p) \in Modes
    BY DEF wanted, Modes
  <1>4. /\ radio \in Radios /\ left \in SUBSET Parts
        /\ route' = [route EXCEPT ![p] = "none"] /\ prev' = [prev EXCEPT ![p] = None]
    BY <1>1, <1>2, Remembered
  <1>5. radio' \in Radios
    <2>1. \A u \in {radio.up, FALSE}, m \in {radio.mode, wanted(p)} :
             [radio EXCEPT !.up = u, !.mode = m] \in Radios
      BY <1>3, <1>4 DEF Radios, Modes
    <2> QED BY <1>1, <1>4, <2>1 DEF setInterfaceTypeFails
  <1>6. left' \in SUBSET Parts /\ Mends(radio', None, "none", home, left')
    <2> DEFINE d == differ(radio', radio)
    <2>1. /\ d \in SUBSET Parts
          /\ "mode" \notin d => radio'.mode = radio.mode
          /\ "up" \notin d => radio'.up = radio.up
          /\ "addr" \notin d => radio'.addr = radio.addr
          /\ "route" \notin d => radio'.route = radio.route
      BY <1>4, <1>5, DifferInParts
    <2> HIDE DEF d
    <2>2. left' = left \cup d
      BY <1>1 DEF d
    <2> QED BY <1>2, <1>4, <2>1, <2>2 DEF Mends, HomeBut
  <1>7. AirMove(p, "off", "error", None, "none")
    BY <1>1, <1>4, <1>5, <1>6 DEF AirMove, OffHome, Outcomes
  <1> QED BY <1>7, AirStep

(* On the air nothing changes on the interface, until the test's route.    *)
LEMMA AirOnlyStep ==
  ASSUME IInv, UNCHANGED <<schedVars, pos, said, results, mu, radio, home, prev, route, left>>,
         NEW p \in Runs, pc[p] \in OffHome,
         NEW w \in {"route", "off"}, NEW o \in Outcomes \cup {None}, Goes(p, w, o),
         w = "route" => pc[p] = "air" /\ kind[p[1]] = "wlan_active",
         o = "cut" => kind[p[1]] \in Frank
  PROVE  IInv'
  <1>1. /\ Mends(radio, prev[p], route[p], home, left)
        /\ pc[p] \notin {"load", "off"} => route[p] = "none"
    BY OnTheAir
  <1>2. /\ prev' = [prev EXCEPT ![p] = prev[p]] /\ prev[p] \in Modes \cup {None}
        /\ route' = [route EXCEPT ![p] = route[p]] /\ route[p] \in {"none", "set", "err"}
        /\ radio' \in Radios /\ left' \in SUBSET Parts
    BY Remembered
  <1>3. w \in OffHome /\ (w \notin {"load", "off"} => route[p] = "none")
        /\ (w \in {"route", "load"} => kind[p[1]] = "wlan_active")
    BY <1>1 DEF OffHome
  <1>4. Mends(radio', prev[p], route[p], home, left')
    BY <1>1
  <1>5. UNCHANGED <<schedVars, pos, said, results, mu, home>> /\ pc[p] \in OffHome \cup {"switch"}
    OBVIOUS
  <1>6. AirMove(p, w, o, prev[p], route[p])
    BY <1>2, <1>3, <1>4, <1>5 DEF AirMove
  <1> QED BY <1>6, AirStep

(* The steps of a WLAN test between joining the network and giving the radio back. *)
LEMMA AirSteps ==
  ASSUME IInv, NEW p \in Runs,
         \/ senseImpl(p) \/ wlanActiveConnects(p)
         \/ \E how \in {"failed", "cut", "error"} : wlanActiveFails(p, how)
         \/ \E asked \in BOOLEAN, how \in {"ok", "failed", "cut"} : downloadVia(p, asked, how)
  PROVE  IInv'
  <1>1. CASE senseImpl(p)
    <2>1. /\ pc[p] \in OffHome /\ UNCHANGED <<schedVars, pos, said, results, mu, radio, home, prev, route, left>>
          /\ Goes(p, "off", "ok") \/ Goes(p, "off", "error")
      BY <1>1 DEF senseImpl, OffHome, radioVars
    <2> QED BY <2>1, AirOnlyStep DEF Outcomes
  <1>2. CASE wlanActiveConnects(p)
    <2>1. /\ pc[p] \in OffHome /\ UNCHANGED <<schedVars, pos, said, results, mu, radio, home, prev, route, left>>
          /\ pc[p] = "air" /\ kind[p[1]] = "wlan_active"
          /\ pc' = [pc EXCEPT ![p] = "route"] /\ res' = res
      BY <1>2 DEF wlanActiveConnects, OffHome, radioVars
    <2>2. res[p] \in Outcomes \cup {None} /\ Goes(p, "route", res[p])
      BY <2>1, Remembered DEF Goes
    <2> QED BY <2>1, <2>2, AirOnlyStep DEF Frank, Wlan
  <1>3. ASSUME NEW how \in {"failed", "cut", "error"}, wlanActiveFails(p, how)
        PROVE  IInv'
    <2>1. /\ pc[p] \in OffHome /\ UNCHANGED <<schedVars, pos, said, results, mu, radio, home, prev, route, left>>
          /\ kind[p[1]] \in Frank /\ Goes(p, "off", how) /\ how \in Outcomes \cup {None}
      BY <1>3 DEF wlanActiveFails, OffHome, Frank, Wlan, Outcomes
    <2> QED BY <2>1, AirOnlyStep
  <1>4. ASSUME NEW asked \in BOOLEAN, NEW how \in {"ok", "failed", "cut"}, downloadVia(p, asked, how)
        PROVE  IInv'
    <2> DEFINE o == IF ~asked THEN "ok" ELSE IF route[p] = "err" THEN "failed" ELSE how
    <2>1. /\ pc[p] = "load" /\ UNCHANGED <<schedVars, pos, said, results, mu, radio, home, prev, route, left>>
          /\ Goes(p, "off", o)
      BY <1>4 DEF downloadVia, radioVars
    <2>2. o \in Outcomes \cup {None}
      BY DEF Outcomes
    <2>3. pc[p] \in OffHome /\ kind[p[1]] \in Frank
      BY <2>1 DEF IInv, CutHeld, OffHome, Frank, Wlan
    <2> HIDE DEF o
    <2> QED BY <2>1, <2>2, <2>3, AirOnlyStep
  <1> QED BY <1>1, <1>2, <1>3, <1>4

(* The test's route is set, or there is no gateway.                        *)
LEMMA RouteStep ==
  ASSUME IInv, NEW p \in Runs, NEW gateway \in BOOLEAN, setupTestRoute(p, gateway)
  PROVE  IInv'
  <1>1. /\ pc[p] = "route" /\ Goes(p, "load", None)
        /\ radio' = IF gateway THEN [radio EXCEPT !.addr = TRUE, !.route = TRUE] ELSE radio
        /\ route' = [route EXCEPT ![p] = IF gateway THEN "set" ELSE "none"]
        /\ UNCHANGED <<schedVars, pos, said, results, mu, home>> /\ prev' = prev /\ left' = left
    BY DEF setupTestRoute
  <1>2. pc[p] \in OffHome /\ kind[p[1]] = "wlan_active"
    BY <1>1 DEF IInv, CutHeld, OffHome
  <1>3. Mends(radio, prev[p], route[p], home, left) /\ route[p] = "none"
    BY <1>1, <1>2, OnTheAir
  <1>4. /\ radio \in Radios /\ left \in SUBSET Parts /\ prev[p] \in Modes \cup {None}
        /\ prev' = [prev EXCEPT ![p] = prev[p]]
    BY <1>1, Remembered
  <1>5. "load" \in OffHome /\ None # "cut" /\ None \in Outcomes \cup {None} /\ "load" \in {"load", "off"}
    BY RunsArePairs DEF OffHome, Outcomes
  <1>6. CASE gateway
    <2> DEFINE s == [radio EXCEPT !.addr = TRUE, !.route = TRUE]
    <2>1. radio' = s /\ route' = [route EXCEPT ![p] = "set"]
      BY <1>1, <1>6
    <2>2. s \in Radios /\ s.up = radio.up /\ s.mode = radio.mode /\ s.addr = TRUE /\ s.route = TRUE
      BY <1>4 DEF Radios
    <2> HIDE DEF s
    <2>3. Mends(s, prev[p], "set", home, left)
      BY <1>3, <2>2 DEF Mends
    <2>4. /\ radio' \in Radios /\ Mends(radio', prev[p], "set", home, left')
          /\ left' \in SUBSET Parts
      BY <1>1, <1>4, <2>1, <2>2, <2>3
    <2>5. AirMove(p, "load", None, prev[p], "set")
      BY <1>1, <1>2, <1>4, <1>5, <2>1, <2>4 DEF AirMove
    <2> QED BY <2>5, AirStep
  <1>7. CASE ~gateway
    <2>1. radio' = radio /\ route' = [route EXCEPT ![p] = "none"]
      BY <1>1, <1>7
    <2>2. /\ radio' \in Radios /\ Mends(radio', prev[p], "none", home, left')
          /\ left' \in SUBSET Parts
      BY <1>1, <1>3, <1>4, <2>1
    <2>3. AirMove(p, "load", None, prev[p], "none")
      BY <1>1, <1>2, <1>4, <1>5, <2>1, <2>2 DEF AirMove
    <2> QED BY <2>3, AirStep
  <1> QED BY <1>6, <1>7

(* Setting it fails: nothing was done, or it failed half-way.              *)
LEMMA RouteFailsStep ==
  ASSUME IInv, NEW p \in Runs, setupTestRouteFails(p)
  PROVE  IInv'
  <1>1. /\ pc[p] = "route" /\ Goes(p, "load", None)
        /\ \/ radio' = radio
           \/ radio' = [radio EXCEPT !.addr = TRUE]
           \/ radio' = [radio EXCEPT !.addr = TRUE, !.route = TRUE]
        /\ left' = left \cup differ(radio', radio)
        /\ route' = [route EXCEPT ![p] = "err"]
        /\ UNCHANGED <<schedVars, pos, said, results, mu, home>> /\ prev' = prev
    BY DEF setupTestRouteFails
  <1>2. pc[p] \in OffHome /\ kind[p[1]] = "wlan_active"
    BY <1>1 DEF IInv, CutHeld, OffHome
  <1>3. Mends(radio, prev[p], route[p], home, left) /\ route[p] = "none"
    BY <1>1, <1>2, OnTheAir
  <1>4. /\ radio \in Radios /\ left \in SUBSET Parts /\ prev[p] \in Modes \cup {None}
        /\ prev' = [prev EXCEPT ![p] = prev[p]]
    BY <1>1, Remembered
  <1>5. "load" \in OffHome /\ None # "cut" /\ None \in Outcomes \cup {None} /\ "load" \in {"load", "off"}
    BY RunsArePairs DEF OffHome, Outcomes
  <1>6. radio' \in Radios
    <2>1. [radio EXCEPT !.addr = TRUE] \in Radios
      BY <1>4 DEF Radios
    <2>2. [radio EXCEPT !.addr = TRUE, !.route = TRUE] \in Radios
      BY <1>4 DEF Radios
    <2> QED BY <1>1, <1>4, <2>1, <2>2
  <1> DEFINE d == differ(radio', radio)
  <1>7. /\ d \in SUBSET Parts
        /\ "mode" \notin d => radio'.mode = radio.mode
        /\ "up" \notin d => radio'.up = radio.up
        /\ "addr" \notin d => radio'.addr = radio.addr
        /\ "route" \notin d => radio'.route = radio.route
    BY <1>4, <1>6, DifferInParts
  <1> HIDE DEF d
  <1>8. left' \in SUBSET Parts /\ Mends(radio', prev[p], "err", home, left')
    <2>1. left' = left \cup d
      BY <1>1 DEF d
    <2> QED BY <1>3, <1>4, <1>7, <2>1 DEF Mends
  <1>9. AirMove(p, "load", None, prev[p], "err")
    BY <1>1, <1>2, <1>4, <1>5, <1>6, <1>7, <1>8 DEF AirMove
  <1> QED BY <1>9, AirStep

(* The deferred calls leave the interface as it was found, and the mutex   *)
(* to the next run.                                                        *)
LEMMA LeaveStep ==
  ASSUME IInv, NEW p \in Runs, leaveRadio(p)
  PROVE  IInv'
  <1>1. TypeOK /\ Progress /\ CutHeld /\ CancelIsNoFailure /\ RadioInv
    BY DEF IInv
  <1> DEFINE Leaves(w, o) == /\ Goes(p, w, o) /\ o \in {None, "failed", res[p]}
                             /\ w = "send" \/ (cancelled(p) /\ w \in {"none", "idle"})
  <1>2. /\ pc[p] = "off" /\ mu' = None /\ DeferredCalls(p) /\ home' = home
        /\ prev' = [prev EXCEPT ![p] = None] /\ route' = [route EXCEPT ![p] = "none"]
        /\ UNCHANGED schedVars /\ UNCHANGED <<pos, said>> /\ results' = results
    BY DEF leaveRadio
  <1>3. \E w, o : Leaves(w, o)
    <2>1. CASE res[p] = "error" /\ cancelled(p)
      <3>1. Leaves(return(p), None)
        BY <2>1, ReturnsTo DEF leaveRadio
      <3> QED BY <3>1
    <2>2. CASE ~(res[p] = "error" /\ cancelled(p))
      <3>1. Leaves("send", "failed") \/ Leaves("send", res[p])
        BY <2>2 DEF leaveRadio
      <3> QED BY <3>1
    <2> QED BY <2>1, <2>2
  <1>4. PICK w, o : Leaves(w, o)
    BY <1>3
  <1>5. /\ pc' = [pc EXCEPT ![p] = w] /\ pc[p] \in Active /\ pc[p] \in OffHome
        /\ w \notin OffHome \cup {"switch"} /\ w \notin {"route", "load"}
        /\ w \in Active \/ (cancelled(p) /\ w \in {"none", "idle", "done"})
        /\ w \in Active \cup {"none", "idle", "done"}
    BY <1>2, <1>4 DEF Goes, Active, OffHome
  <1>6. Progress'
    BY <1>1, <1>2, <1>5, WalkKeepsProgress
  <1>7. o \in Outcomes \cup {None} /\ (o = "cut" => kind[p[1]] \in Frank) /\ kind' = kind
    <2>1. res[p] \in Outcomes \cup {None} /\ (res[p] = "cut" => kind[p[1]] \in Frank)
      BY <1>1 DEF TypeOK, CutHeld
    <2>2. None # "cut" /\ "failed" \in Outcomes
      BY RunsArePairs DEF Outcomes
    <2> QED BY <1>2, <1>4, <2>1, <2>2 DEF schedVars
  <1>8. /\ CutHeld' /\ CancelIsNoFailure'
        /\ pc' \in [Runs -> Active \cup {"none", "idle", "done"}]
        /\ res' \in [Runs -> Outcomes \cup {None}]
    BY <1>1, <1>2, <1>4, <1>5, <1>7, GoesKeepsCuts
  <1>9. radio' \in Radios /\ left' \in SUBSET Parts /\ HomeBut(radio', home, left')
    <2>1. Mends(radio, prev[p], route[p], home, left)
      BY <1>5, OnTheAir
    <2> QED BY <1>1, <1>2, <2>1, DeferredIsHome
  <1>10. TypeOK'
    <2>1. prev' \in [Runs -> Modes \cup {None}] /\ route' \in [Runs -> {"none", "set", "err"}]
      BY <1>1, <1>2 DEF TypeOK
    <2> QED BY <1>1, <1>2, <1>8, <1>9, <2>1 DEF TypeOK, schedVars
  <1>11. RadioInv'
    <2>1. \A q \in Runs : /\ q # p => pc'[q] = pc[q] /\ prev'[q] = prev[q] /\ route'[q] = route[q]
                          /\ q = p => pc'[q] = w /\ prev'[q] = None /\ route'[q] = "none"
      BY <1>1, <1>2, <1>5 DEF TypeOK
    <2>2. mu = p
      BY <1>1, <1>5 DEF RadioInv, AirHeld
    <2>3. \A q \in Runs : q # p => pc[q] \notin OffHome \cup {"switch"}
      BY <1>1, <2>2 DEF RadioInv, AirHeld
    <2>4. \A q \in Runs : pc'[q] \notin OffHome \cup {"switch"}
      BY <1>5, <2>1, <2>3
    <2>5. AirHeld'
      BY <2>4 DEF AirHeld
    <2>6. Owed'
      BY <1>1, <2>1 DEF RadioInv, Owed
    <2>7. WillRestore'
      BY <2>4 DEF WillRestore
    <2>8. RadioRestored'
      <3>1. \A part \in DOMAIN radio' \ left' : radio'[part] = atHome(home)[part]
        BY <1>9, HomeByParts
      <3>2. home' = home
        BY <1>2
      <3> QED BY <3>1, <3>2 DEF RadioRestored, atHome
    <2> QED BY <2>5, <2>6, <2>7, <2>8 DEF RadioInv
  <1> QED BY <1>6, <1>8, <1>10, <1>11 DEF IInv

(* Passes start, with a configuration, by a command or on a tick.          *)
LEMMA StartsStep ==
  ASSUME IInv, NEW ps, Starts(ps), UNCHANGED <<results, mu, radioVars>>,
         kind' = kind, live' = live,
         \A p \in Runs \cap ps : pc[p] \notin Active,
         \/ cur' = cur /\ \A p \in Runs \cap ps : p[2] <= cur
         \/ cur' = cur + 1 /\ \A p \in Runs \cap ps : p[2] = cur + 1
  PROVE  IInv'
  <1>1. TypeOK /\ Progress /\ CutHeld /\ CancelIsNoFailure /\ RadioInv
    BY DEF IInv
  <1>2. UNCHANGED <<mu, radio, home, prev, route, left>> /\ results' = results
    BY DEF radioVars
  <1>3. Progress' /\ pos' \in [Runs -> Nat] /\ said' \in [Runs -> Seq(Nat)]
    BY <1>1, StartsKeepsProgress
  <1>4. RadioInv'
    BY <1>1, <1>2, StartsKeepsRadio
  <1>5. \A q \in Runs : /\ q \in ps => pc'[q] \in {"iface", "probe"} /\ res'[q] = None
                        /\ q \notin ps => pc'[q] = pc[q] /\ res'[q] = res[q]
    BY DEF Starts, runTest
  <1>6. CutHeld' /\ CancelIsNoFailure'
    BY <1>1, <1>2, <1>5, RunsArePairs DEF CutHeld, CancelIsNoFailure, Outcomes
  <1>7. TypeOK'
    <2>1. \A q \in Runs : pc'[q] \in Active \cup {"none", "idle", "done"} /\ res'[q] \in Outcomes \cup {None}
      BY <1>1, <1>5 DEF TypeOK, Active
    <2>2. pc' \in [Runs -> Active \cup {"none", "idle", "done"}] /\ res' \in [Runs -> Outcomes \cup {None}]
      <3>1. pc' = [q \in Runs |-> pc'[q]] /\ res' = [q \in Runs |-> res'[q]]
        BY DEF Starts
      <3> QED BY <2>1, <3>1
    <2> QED BY <1>1, <1>2, <1>3, <2>2 DEF TypeOK
  <1> QED BY <1>3, <1>4, <1>6, <1>7 DEF IInv

(* Steps that move no run.                                                 *)
LEMMA OtherStep ==
  ASSUME IInv, UNCHANGED <<runVars, mu, radioVars>>, kind' = kind, cur' = cur,
         live' = live \/ live' = FALSE,
         results' = results \/ (results # <<>> /\ results' = Tail(results))
  PROVE  IInv'
  <1>1. TypeOK /\ Progress /\ CutHeld /\ CancelIsNoFailure /\ RadioInv
    BY DEF IInv
  <1>2. UNCHANGED <<pc, pos, res, said>> /\ UNCHANGED <<radio, home, prev, route, left>>
    BY DEF runVars, radioVars
  <1>3. \A p : (cancelled(p) => cancelled(p)') /\ itemsOf(p)' = itemsOf(p)
    BY <1>1 DEF cancelled, itemsOf, TypeOK
  <1>4. Progress'
    BY <1>1, <1>2, <1>3 DEF Progress
  <1>5. RadioInv' /\ CutHeld'
    BY <1>1, <1>2 DEF RadioInv, AirHeld, Owed, WillRestore, RadioRestored, CutHeld, Mends, atHome
  <1>6. CancelIsNoFailure' /\ results' \in Seq([run : Runs, item : Nat, how : Outcomes \cup {None}])
    <2> DEFINE Result == [run : Runs, item : Nat, how : Outcomes \cup {None}]
    <2>1. results \in Seq(Result)
      BY <1>1 DEF TypeOK
    <2> HIDE DEF Result
    <2>2. CASE results' = results
      BY <1>1, <2>1, <2>2 DEF CancelIsNoFailure, Result
    <2>3. CASE results # <<>> /\ results' = Tail(results)
      <3>1. results' \in Seq(Result) /\ Len(results') = Len(results) - 1
            /\ \A i \in 1 .. Len(results') : results'[i] = results[i + 1] /\ i + 1 \in 1 .. Len(results)
        BY <2>1, <2>3
      <3>2. CancelIsNoFailure'
        BY <1>1, <3>1 DEF CancelIsNoFailure
      <3> QED BY <3>1, <3>2 DEF Result
    <2> QED BY <2>2, <2>3
  <1>7. TypeOK'
    BY <1>1, <1>2, <1>6 DEF TypeOK
  <1> QED BY <1>4, <1>5, <1>6, <1>7 DEF IInv

(* A ticker whose context is done ends.                                    *)
LEMMA TickerEndsStep ==
  ASSUME IInv, NEW p \in Runs, TickerEnds(p)
  PROVE  IInv'
  <1>1. TypeOK /\ Progress /\ CutHeld /\ CancelIsNoFailure /\ RadioInv
    BY DEF IInv
  <1>2. /\ pc[p] = "idle" /\ Goes(p, "done", None) /\ pc' = [pc EXCEPT ![p] = "done"]
        /\ said' = [said EXCEPT ![p] = <<>>] /\ pos' = [pos EXCEPT ![p] = 1]
        /\ UNCHANGED schedVars /\ UNCHANGED <<mu, radio, home, prev, route, left>> /\ results' = results
        /\ kind' = kind
    BY DEF TickerEnds, Goes, radioVars, schedVars
  <1>3. /\ pc[p] \notin OffHome \cup {"switch"} /\ "done" \notin OffHome \cup {"switch"}
        /\ "done" \notin Active /\ "done" \notin {"route", "load"}
    BY <1>2 DEF OffHome, Active
  <1>4. RadioInv'
    BY <1>1, <1>2, <1>3, WalkKeepsRadio
  <1>5. /\ CutHeld' /\ CancelIsNoFailure'
        /\ pc' \in [Runs -> Active \cup {"none", "idle", "done"}]
        /\ res' \in [Runs -> Outcomes \cup {None}]
    BY <1>1, <1>2, <1>3, GoesKeepsCuts, RunsArePairs DEF Outcomes
  <1>6. Progress'
    <2>1. \A q \in Runs : /\ q # p => pc'[q] = pc[q] /\ pos'[q] = pos[q] /\ said'[q] = said[q]
                          /\ q = p => pc'[q] = "done" /\ pc[q] # "none"
      BY <1>1, <1>2 DEF TypeOK
    <2>2. \A q \in Runs : (cancelled(q)' <=> cancelled(q)) /\ itemsOf(q)' = itemsOf(q) /\ cur' = cur
      BY <1>2, CancelledKept DEF schedVars
    <2> QED BY <1>1, <1>3, <2>1, <2>2 DEF Progress
  <1>7. TypeOK'
    <2>1. pos' \in [Runs -> Nat] /\ said' \in [Runs -> Seq(Nat)]
      BY <1>1, <1>2 DEF TypeOK
    <2> QED BY <1>1, <1>2, <1>5, <2>1 DEF TypeOK, schedVars
  <1> QED BY <1>4, <1>5, <1>6, <1>7 DEF IInv

-----------------------------------------------------------------------------
(* The theorems *)

(* Initially no run is in a pass and the radio is at home.                 *)
LEMMA InitIInv == Init => IInv
  <1> SUFFICES ASSUME Init PROVE IInv
    OBVIOUS
  <1>1. /\ live = TRUE /\ cur = 0
        /\ pc = [p \in Runs |-> "none"] /\ pos = [p \in Runs |-> 1]
        /\ res = [p \in Runs |-> None] /\ said = [p \in Runs |-> <<>>]
        /\ results = <<>> /\ mu = None /\ home \in Modes /\ radio = atHome(home)
        /\ prev = [p \in Runs |-> None] /\ route = [p \in Runs |-> "none"] /\ left = {}
    BY DEF Init, Modes
  <1>2. \A p \in Runs : pc[p] = "none" /\ res[p] = None /\ prev[p] = None /\ route[p] = "none"
    BY <1>1
  <1>3. "none" \notin Active /\ "none" \notin OffHome /\ None # "cut"
    BY RunsArePairs DEF Active, OffHome, Outcomes
  <1>4. atHome(home) \in Radios
    BY <1>1 DEF atHome, Radios, Modes
  <1>5. TypeOK
    <2>1. /\ pc \in [Runs -> Active \cup {"none", "idle", "done"}]
          /\ pos \in [Runs -> Nat] /\ said \in [Runs -> Seq(Nat)]
          /\ res \in [Runs -> Outcomes \cup {None}]
      BY <1>1
    <2>2. /\ prev \in [Runs -> Modes \cup {None}] /\ route \in [Runs -> {"none", "set", "err"}]
          /\ results \in Seq([run : Runs, item : Nat, how : Outcomes \cup {None}])
      BY <1>1
    <2> QED BY <1>1, <1>4, <2>1, <2>2 DEF TypeOK
  <1>6. Progress
    BY <1>2, <1>3 DEF Progress
  <1>7. CutHeld /\ CancelIsNoFailure
    BY <1>1, <1>2, <1>3 DEF CutHeld, CancelIsNoFailure
  <1>8. RadioInv
    BY <1>1, <1>2, <1>3 DEF RadioInv, AirHeld, Owed, WillRestore, RadioRestored
  <1> QED BY <1>5, <1>6, <1>7, <1>8 DEF IInv

(* Every step of the scheduler, the stream and the runs keeps it.          *)
LEMMA NextIInv == IInv /\ [Next]_vars => IInv'
  <1> SUFFICES ASSUME IInv, [Next]_vars PROVE IInv'
    OBVIOUS
  <1>1. CASE StreamEnds
    <2>1. /\ UNCHANGED <<runVars, mu, radioVars>> /\ kind' = kind /\ cur' = cur
          /\ live' = FALSE /\ results' = results
      BY <1>1 DEF StreamEnds
    <2> QED BY <2>1, OtherStep
  <1>2. CASE TakeResult
    <2>1. /\ UNCHANGED <<runVars, mu, radioVars>> /\ kind' = kind /\ cur' = cur /\ live' = live
          /\ results # <<>> /\ results' = Tail(results)
      BY <1>2 DEF TakeResult, schedVars
    <2> QED BY <2>1, OtherStep
  <1>3. CASE setWlanIface \/ SchedulerEnds
    <2>1. /\ UNCHANGED <<runVars, mu, radioVars>> /\ kind' = kind /\ cur' = cur
          /\ live' = live /\ results' = results
      BY <1>3 DEF setWlanIface, SchedulerEnds
    <2> QED BY <2>1, OtherStep
  <1>4. ASSUME NEW tests \in SUBSET DOMAIN kind, TakeConfig(tests)
        PROVE  IInv'
    <2> DEFINE ps == tests \X {cur + 1}
    <2>1. /\ cur' = cur + 1 /\ Starts(ps) /\ kind' = kind /\ live' = live
          /\ UNCHANGED <<results, mu, radioVars>>
      BY <1>4 DEF TakeConfig
    <2>2. \A p \in Runs \cap ps : p[2] = cur + 1
      OBVIOUS
    <2>3. \A p \in Runs \cap ps : pc[p] \notin Active
      <3> SUFFICES ASSUME NEW p \in Runs \cap ps PROVE pc[p] \notin Active
        OBVIOUS
      <3>1. cur \in Nat /\ p[2] = cur + 1 /\ ~(p[2] <= cur)
        BY <2>2 DEF IInv, TypeOK
      <3>2. pc[p] = "none"
        BY <3>1 DEF IInv, Progress
      <3> QED BY <3>2 DEF Active, OffHome
    <2> HIDE DEF ps
    <2> QED BY <2>1, <2>2, <2>3, StartsStep
  <1>5. ASSUME NEW test \in Tests, TakeCommand(test)
        PROVE  IInv'
    <2> DEFINE ps == {<<test, 0>>}
    <2>1. /\ Starts(ps) /\ kind' = kind /\ live' = live /\ cur' = cur
          /\ UNCHANGED <<results, mu, radioVars>>
      BY <1>5 DEF TakeCommand, schedVars
    <2>2. \A p \in Runs \cap ps : pc[p] \notin Active /\ p[2] <= cur
      <3>1. pc[<<test, 0>>] = "none" /\ cur \in Nat
        BY <1>5 DEF TakeCommand, IInv, TypeOK
      <3>2. "none" \notin Active /\ 0 <= cur
        BY <3>1 DEF Active, OffHome
      <3> QED BY <3>1, <3>2
    <2> HIDE DEF ps
    <2> QED BY <2>1, <2>2, StartsStep
  <1>6. ASSUME NEW p \in Runs, Tick(p)
        PROVE  IInv'
    <2>1. /\ Starts({p}) /\ kind' = kind /\ live' = live /\ cur' = cur
          /\ UNCHANGED <<results, mu, radioVars>>
      BY <1>6 DEF Tick, schedVars
    <2>2. \A q \in Runs \cap {p} : pc[q] \notin Active /\ q[2] <= cur
      BY <1>6 DEF Tick, Active, OffHome, IInv, Progress
    <2> QED BY <2>1, <2>2, StartsStep
  <1>7. ASSUME NEW p \in Runs, TickerEnds(p)
        PROVE  IInv'
    BY <1>7, TickerEndsStep
  <1>8. ASSUME NEW p \in Runs, Run(p)
        PROVE  IInv'
    <2>1. CASE OnAir(p)
      BY <2>1, SwitchStep, SwitchFailsStep, AirSteps, RouteStep, RouteFailsStep, LeaveStep DEF OnAir
    <2> QED BY <1>8, <2>1, ProbeEnds, ReportStep, ChooseStep, LockStep DEF Run
  <1>9. CASE UNCHANGED vars
    <2>1. /\ UNCHANGED <<runVars, mu, radioVars>> /\ kind' = kind /\ cur' = cur
          /\ live' = live /\ results' = results
      BY <1>9 DEF vars, schedVars
    <2> QED BY <2>1, OtherStep
  <1> QED BY <1>1, <1>2, <1>3, <1>4, <1>5, <1>6, <1>7, <1>8, <1>9 DEF Next, Scheduler

(* The account of the reports, of the outcomes and of the radio is kept by *)
(* every step of an agent's runs.                                          *)
THEOREM Invariance == Spec => []IInv
  BY InitIInv, NextIInv, PTL DEF Spec

(* A pass that ends under a good context has reported every item once and  *)
(* in order, for any number of items, tests and configurations.            *)
THEOREM PassesComplete == Spec => []PassIsComplete
  <1>1. IInv => PassIsComplete
    BY DEF IInv, Progress, PassIsComplete, upTo
  <1> QED BY <1>1, Invariance, PTL

(* No measurement cut short by a cancellation is reported as a failure,    *)
(* but by the types whose probes give an outcome for it and by the         *)
(* wireless ones, whose look for an interface may be what was cut short.   *)
THEOREM CancelsAreNoFailures == Spec => []CancelIsNoFailure
  <1>1. IInv => CancelIsNoFailure
    BY DEF IInv
  <1> QED BY <1>1, Invariance, PTL

(* With no run on the air each part of the radio is as the agent found it, *)
(* unless a command failed and left that part: between the commands of one *)
(* step, or when the radio was put back, where errors are ignored.         *)
THEOREM RadioComesHome == Spec => []RadioRestored
  <1>1. IInv => RadioRestored
    BY DEF IInv, RadioInv
  <1> QED BY <1>1, Invariance, PTL

(* One run at a time is on the air. *)
OneOnAir == \A p, q \in Runs : pc[p] \in OffHome /\ pc[q] \in OffHome => p = q

(* wlanMu keeps the runs that change the radio apart.                      *)
THEOREM RadioExclusive == Spec => []OneOnAir
  <1>1. IInv => OneOnAir
    BY DEF IInv, RadioInv, AirHeld, OneOnAir
  <1> QED BY <1>1, Invariance, PTL

-----------------------------------------------------------------------------
(* What the sweeps know of the air *)

SightTyped ==
    /\ chan \in [Bssids -> Channels] /\ onFor \in [Bssids -> Nat \cup {Nil}]
    /\ assoc \in [Macs -> Bssids \cup {Nil}]
    /\ state \in wlanPassiveState \cup {Nil} /\ sweep \in Sweep \cup {Nil}
    /\ deaf \subseteq Bssids /\ cut \subseteq Macs /\ met \in [Macs -> Bssids \cup {"blank", Nil}]

(* A sweep has no result yet and is not over its time; what it has heard   *)
(* is no older than it is, and a network heard at full strength is on the  *)
(* channel it was heard on.  A narrow one has a state to go by.            *)
SweepFresh ==
    sweep # Nil =>
       /\ result = Nil /\ sweep.age <= Dwell
       /\ ~sweep.full => state # Nil
       /\ \A b \in Bssids : sweep.nets[b] # Nil =>
             /\ sweep.nets[b].age <= sweep.age
             /\ sweep.nets[b].rssi = 2 => sweep.nets[b].ch = chan[b]
       /\ \A m \in Macs : sweep.stas[m] # Nil => sweep.stas[m].age <= sweep.age

(* Until the next full sweep is due, the channel of an access point that   *)
(* was on before the last one began is among the channels of interest,     *)
(* unless a sweep has missed it.                                           *)
Watched ==
    state # Nil /\ state.full < Retention =>
       \A b \in Bssids \ deaf : onFor[b] # Nil /\ onFor[b] > state.full + Dwell => chan[b] \in state.chans

(* An access point that was on before the sweep began, and whose channel   *)
(* the sweep is to visit, is still to be visited or has been heard, unless *)
(* the sweep missed it.                                                    *)
Listened ==
    sweep # Nil =>
       \A b \in Bssids \ sweep.dull :
          onFor[b] # Nil /\ onFor[b] > sweep.age /\ (sweep.full \/ chan[b] \in state.chans)
             => chan[b] \in sweep.todo \/ (sweep.nets[b] # Nil /\ sweep.nets[b].rssi = 2)

(* A narrow sweep visits every access point that was on for the retention  *)
(* and the length of a sweep before it began.                              *)
Narrowed ==
    sweep # Nil =>
       \A b \in Bssids \ deaf :
          onFor[b] # Nil /\ onFor[b] - sweep.age >= Retention + Dwell /\ ~sweep.full
             => chan[b] \in state.chans

(* The sweep's sightings have the BSSID each station was heard with.       *)
Talked ==
    sweep # Nil =>
       \A m \in Macs : /\ sweep.talk[m] = Nil => sweep.stas[m] = Nil
                       /\ sweep.talk[m] \in Bssids =>
                             sweep.stas[m] # Nil /\ sweep.stas[m].bssid = sweep.talk[m]

(* And so do the sightings retained, of a station that is listed whenever  *)
(* it is heard.                                                            *)
Recalled ==
    \A m \in Macs \ cut :
       /\ met[m] = Nil => state = Nil \/ state.stas[m] = Nil
       /\ met[m] \in Bssids => state # Nil /\ state.stas[m] # Nil /\ state.stas[m].bssid = met[m]

SightInv == /\ SightTyped /\ SweepFresh /\ Watched /\ Listened /\ Narrowed
            /\ Talked /\ Recalled

-----------------------------------------------------------------------------
(* The frames of one channel *)

Less == {p \in Nat \X Nat : p[1] < p[2]}

(* A set with 0 in it that is closed under successor has every number.     *)
LEMMA SetInduction ==
  ASSUME NEW P \in SUBSET Nat, 0 \in P, \A n \in P : n + 1 \in P
  PROVE  P = Nat
<1> SUFFICES ASSUME Nat \ P # {} PROVE FALSE
  OBVIOUS
<1>1. OpToRel(<, Nat) = Less
  BY DEF OpToRel, Less
<1>2. \E m \in Nat \ P : \A n \in Nat \ P : ~ (<<n, m>> \in OpToRel(<, Nat))
  BY WFMin, NatLessThanWellFounded
<1>3. PICK m \in Nat \ P : \A n \in Nat \ P : ~ (<<n, m>> \in Less)
  BY <1>1, <1>2
<1>4. \A n \in Nat \ P : ~ (n < m)
  BY <1>3 DEF Less
<1>5. m # 0 /\ m - 1 \in Nat /\ m - 1 \in P
  BY <1>3, <1>4
<1> QED BY <1>3, <1>5

(* The list made of a finite set has all of its members and no others.     *)
LEMMA Listed ==
  ASSUME NEW S, IsFiniteSet(S)
  PROVE  /\ SetToSeq(S) \in Seq(S)
         /\ \A x \in S : \E i \in 1 .. Len(SetToSeq(S)) : SetToSeq(S)[i] = x
<1>1. PICK n \in Nat : ExistsBijection(1 .. n, S)
  BY FS_NatBijection
<1>2. Cardinality(S) = n
  BY <1>1, FS_CountingElements
<1> DEFINE q == SetToSeq(S)
<1>3. q \in [1 .. n -> S] /\ IsInjective(q)
  <2>1. \E f \in [1 .. n -> S] : IsInjective(f)
    BY <1>1 DEF ExistsBijection, Bijection, Injection
  <2> QED BY <1>2, <2>1 DEF SetToSeq
<1> HIDE DEF q
<1>4. q \in Injection(1 .. n, S)
  BY <1>3 DEF Injection
<1>5. IsFiniteSet(1 .. n) /\ Cardinality(1 .. n) = n
  BY FS_Interval
<1>6. q \in Surjection(1 .. n, S)
  BY <1>2, <1>4, <1>5, FS_Injection
<1>7. q \in Seq(S) /\ Len(q) = n
  BY <1>3
<1>8. \A x \in S : \E i \in 1 .. n : q[i] = x
  BY <1>6 DEF Surjection
<1> QED BY <1>7, <1>8 DEF q

(* The frames of a channel: each access point's beacons have one signal,   *)
(* each station's data one BSSID, and who probes does so before it talks.  *)
Orderly(fr, R, A, P) ==
    /\ \A i \in 1 .. Len(fr) : \/ \E b \in Bssids : fr[i] = Beacon(b, R[b])
                               \/ \E m \in P : fr[i] = ProbeReq(m)
                               \/ \E m \in Macs : fr[i] = Data(m, A[m])
    /\ \A j \in 1 .. Len(fr) : \A m \in P :
          fr[j] = Data(m, A[m]) => \E i \in 1 .. j - 1 : fr[i] = ProbeReq(m)

Named(fr, R, k, b) == \E j \in 1 .. k : fr[j] = Beacon(b, R[b])
Spoke(fr, A, k, m) == \E j \in 1 .. k : fr[j] = ProbeReq(m) \/ fr[j] = Data(m, A[m])

(* What the first k of them leave. *)
Caught(fr, R, A, P, k) ==
    [nets |-> [b \in Bssids |-> IF Named(fr, R, k, b)
                                THEN [rssi |-> R[b], age |-> 0, ch |-> 0] ELSE Nil],
     stas |-> [m \in Macs |-> IF Spoke(fr, A, k, m)
                              THEN [bssid |-> IF m \in P THEN Nil ELSE A[m], age |-> 0] ELSE Nil]]

(* Frames of different kinds differ, and frames of one kind by whom they   *)
(* are of.                                                                 *)
LEMMA FramesDiffer ==
  /\ \A b, r, m : Beacon(b, r) # ProbeReq(m)
  /\ \A b, r, m, c : Beacon(b, r) # Data(m, c)
  /\ \A m, n, c : ProbeReq(m) # Data(n, c)
  /\ \A b, r, c, s : Beacon(b, r) = Beacon(c, s) => b = c
  /\ \A m, n : ProbeReq(m) = ProbeReq(n) => m = n
  /\ \A m, n, b, c : Data(m, b) = Data(n, c) => m = n
BY DEF Beacon, ProbeReq, Data

(* processFrame, a kind of frame at a time.                                *)
LEMMA OfFrames ==
  ASSUME NEW cap
  PROVE  /\ \A b, r : processFrame(cap, Beacon(b, r)) =
                         [cap EXCEPT !.nets = recordNetwork(@, Beacon(b, r))]
         /\ \A m : processFrame(cap, ProbeReq(m)) =
                      IF cap.stas[m] # Nil THEN cap
                      ELSE [cap EXCEPT !.stas[m] = [bssid |-> Nil, age |-> 0]]
         /\ \A m, b : processFrame(cap, Data(m, b)) =
                         IF cap.stas[m] # Nil THEN [cap EXCEPT !.stas[m].age = 0]
                         ELSE [cap EXCEPT !.stas[m] = [bssid |-> b, age |-> 0]]
<1>1. \A b, r : Beacon(b, r).type = "beacon"
  BY DEF Beacon
<1>2. \A m : ProbeReq(m).type = "probe" /\ ProbeReq(m).mac = m
  BY DEF ProbeReq
<1>3. \A m, b : Data(m, b).type = "data" /\ Data(m, b).mac = m /\ Data(m, b).bssid = b
  BY DEF Data
<1>4. \A b, r : processFrame(cap, Beacon(b, r)) = [cap EXCEPT !.nets = recordNetwork(@, Beacon(b, r))]
  BY <1>1 DEF processFrame
<1>5. ASSUME NEW m
      PROVE  processFrame(cap, ProbeReq(m)) =
                      IF cap.stas[m] # Nil THEN cap
                      ELSE [cap EXCEPT !.stas[m] = [bssid |-> Nil, age |-> 0]]
  BY <1>2 DEF processFrame
<1>6. ASSUME NEW m, NEW b
      PROVE  processFrame(cap, Data(m, b)) =
                         IF cap.stas[m] # Nil THEN [cap EXCEPT !.stas[m].age = 0]
                         ELSE [cap EXCEPT !.stas[m] = [bssid |-> b, age |-> 0]]
  BY <1>3 DEF processFrame
<1> QED BY <1>4, <1>5, <1>6

(* One frame more. *)
LEMMA OneMore ==
  ASSUME NEW fr, Len(fr) \in Nat, NEW R \in [Bssids -> 1 .. 2], NEW A \in [Macs -> Bssids \cup {Nil}],
         NEW P \in SUBSET Macs, Orderly(fr, R, A, P), NEW k \in 1 .. Len(fr)
  PROVE  Caught(fr, R, A, P, k) = processFrame(Caught(fr, R, A, P, k - 1), fr[k])
<1> DEFINE c == Caught(fr, R, A, P, k - 1)
           d == Caught(fr, R, A, P, k)
           N(b) == Named(fr, R, k - 1, b)
           S(m) == Spoke(fr, A, k - 1, m)
           net(b) == [rssi |-> R[b], age |-> 0, ch |-> 0]
           sta(m) == [bssid |-> IF m \in P THEN Nil ELSE A[m], age |-> 0]
<1>1. \A j : j \in 1 .. k <=> j \in 1 .. k - 1 \/ j = k
  OBVIOUS
<1>2. \A b \in Bssids : Named(fr, R, k, b) <=> N(b) \/ fr[k] = Beacon(b, R[b])
  BY <1>1 DEF Named
<1>3. \A m \in Macs : Spoke(fr, A, k, m) <=> S(m) \/ fr[k] = ProbeReq(m) \/ fr[k] = Data(m, A[m])
  BY <1>1 DEF Spoke
<1>4. /\ c.nets = [b \in Bssids |-> IF N(b) THEN net(b) ELSE Nil]
      /\ c.stas = [m \in Macs |-> IF S(m) THEN sta(m) ELSE Nil]
      /\ c = [nets |-> c.nets, stas |-> c.stas]
  BY DEF Caught
<1>5. d = [nets |-> [b \in Bssids |-> IF N(b) \/ fr[k] = Beacon(b, R[b]) THEN net(b) ELSE Nil],
           stas |-> [m \in Macs |-> IF S(m) \/ fr[k] = ProbeReq(m) \/ fr[k] = Data(m, A[m])
                                    THEN sta(m) ELSE Nil]]
  BY <1>2, <1>3 DEF Caught
<1>6. \A m \in Macs : sta(m) # Nil
  BY SightNil DEF Station
<1> HIDE DEF c, d, N, S
<1>8. CASE \E b \in Bssids : fr[k] = Beacon(b, R[b])
  <2>1. PICK b \in Bssids : fr[k] = Beacon(b, R[b])
    BY <1>8
  <2>2. \A x \in Bssids : fr[k] = Beacon(x, R[x]) <=> x = b
    BY <2>1, FramesDiffer
  <2>3. \A m \in Macs : ~ (fr[k] = ProbeReq(m) \/ fr[k] = Data(m, A[m]))
    BY <2>1, FramesDiffer
  <2>4. recordNetwork(c.nets, fr[k]) = [c.nets EXCEPT ![b] = net(b)]
    <3>1. fr[k].bssid = b /\ fr[k].rssi = R[b]
      BY <2>1 DEF Beacon
    <3>2. c.nets[b] # Nil => c.nets[b].rssi = R[b]
      BY <1>4
    <3>3. R[b] \in Nat
      OBVIOUS
    <3> QED BY <3>1, <3>2, <3>3 DEF recordNetwork
  <2>5. processFrame(c, fr[k]) = [c EXCEPT !.nets = [c.nets EXCEPT ![b] = net(b)]]
    BY <2>1, <2>4, OfFrames
  <2>6. [c.nets EXCEPT ![b] = net(b)] =
           [x \in Bssids |-> IF N(x) \/ x = b THEN net(x) ELSE Nil]
    BY <1>4
  <2>7. d = [nets |-> [x \in Bssids |-> IF N(x) \/ x = b THEN net(x) ELSE Nil], stas |-> c.stas]
    BY <1>4, <1>5, <2>2, <2>3
  <2>8. d = processFrame(c, fr[k])
    BY <1>4, <2>5, <2>6, <2>7
  <2> QED BY <2>8 DEF c, d
<1>9. ASSUME NEW m \in Macs, fr[k] = ProbeReq(m) \/ fr[k] = Data(m, A[m]),
             processFrame(c, fr[k]) = [c EXCEPT !.stas = [c.stas EXCEPT ![m] = sta(m)]]
      PROVE  d = processFrame(c, fr[k])
  <2>1. \A x \in Macs : fr[k] = ProbeReq(x) \/ fr[k] = Data(x, A[x]) <=> x = m
    BY <1>9, FramesDiffer
  <2>2. \A b \in Bssids : ~ (fr[k] = Beacon(b, R[b]))
    BY <1>9, FramesDiffer
  <2>3. [c.stas EXCEPT ![m] = sta(m)] =
           [x \in Macs |-> IF S(x) \/ x = m THEN sta(x) ELSE Nil]
    BY <1>4
  <2>4. d = [nets |-> c.nets, stas |-> [x \in Macs |-> IF S(x) \/ x = m THEN sta(x) ELSE Nil]]
    BY <1>4, <1>5, <2>1, <2>2
  <2> QED BY <1>4, <1>9, <2>3, <2>4
<1>10. \A m \in Macs : c.stas[m] = IF S(m) THEN sta(m) ELSE Nil
  BY <1>4
<1>11. \A m \in Macs : S(m) => c = [c EXCEPT !.stas = [c.stas EXCEPT ![m] = sta(m)]]
  BY <1>4
<1>12. CASE \E m \in P : fr[k] = ProbeReq(m)
  <2>1. PICK m \in P : fr[k] = ProbeReq(m)
    BY <1>12
  <2>2. m \in Macs /\ sta(m) = [bssid |-> Nil, age |-> 0]
    OBVIOUS
  <2>3. processFrame(c, fr[k]) = IF S(m) THEN c ELSE [c EXCEPT !.stas = [c.stas EXCEPT ![m] = sta(m)]]
    <3>1. processFrame(c, fr[k]) = IF c.stas[m] # Nil THEN c
                                   ELSE [c EXCEPT !.stas[m] = [bssid |-> Nil, age |-> 0]]
      BY <2>1, OfFrames
    <3> QED BY <1>6, <1>10, <2>2, <3>1
  <2>4. processFrame(c, fr[k]) = [c EXCEPT !.stas = [c.stas EXCEPT ![m] = sta(m)]]
    BY <1>11, <2>2, <2>3
  <2> QED BY <1>9, <2>1, <2>2, <2>4 DEF c, d
<1>13. CASE \E m \in Macs : fr[k] = Data(m, A[m])
  <2>1. PICK m \in Macs : fr[k] = Data(m, A[m])
    BY <1>13
  <2>2. m \in P => S(m)
    BY <2>1 DEF Orderly, S, Spoke
  <2>3. processFrame(c, fr[k]) = IF c.stas[m] # Nil THEN [c EXCEPT !.stas[m].age = 0]
                                 ELSE [c EXCEPT !.stas[m] = [bssid |-> A[m], age |-> 0]]
    BY <2>1, OfFrames
  <2>4. CASE S(m)
    <3>1. c.stas[m] = sta(m) /\ sta(m) # Nil
      BY <1>6, <1>10, <2>4
    <3>2. [c EXCEPT !.stas[m].age = 0] = [c EXCEPT !.stas = [c.stas EXCEPT ![m] = sta(m)]]
      BY <1>4, <3>1
    <3> QED BY <1>9, <2>1, <2>3, <3>1, <3>2 DEF c, d
  <2>5. CASE ~S(m)
    <3>1. m \notin P /\ c.stas[m] = Nil
      BY <1>10, <2>2, <2>5
    <3>2. processFrame(c, fr[k]) = [c EXCEPT !.stas = [c.stas EXCEPT ![m] = sta(m)]]
      BY <1>4, <2>3, <3>1
    <3> QED BY <1>9, <2>1, <3>2 DEF c, d
  <2> QED BY <2>4, <2>5
<1> QED BY <1>8, <1>12, <1>13 DEF Orderly

(* The whole list.  The function that follows the loop is the one that     *)
(* tells what the first frames leave.                                      *)
LEMMA CaptureIs ==
  ASSUME NEW fr, Len(fr) \in Nat, NEW R \in [Bssids -> 1 .. 2], NEW A \in [Macs -> Bssids \cup {Nil}],
         NEW P \in SUBSET Macs, Orderly(fr, R, A, P)
  PROVE  captureOnChannel(fr) = Caught(fr, R, A, P, Len(fr))
<1> DEFINE Rec(f) == f = [i \in 0 .. Len(fr) |-> IF i = 0 THEN Nothing ELSE processFrame(f[i - 1], fr[i])]
           F == CHOOSE f : Rec(f)
           V(i) == Caught(fr, R, A, P, i)
           W == [i \in 0 .. Len(fr) |-> V(i)]
           Q == {i \in Nat : i <= Len(fr) => F[i] = W[i]}
<1>1. captureOnChannel(fr) = F[Len(fr)]
  BY DEF captureOnChannel
<1>2. V(0) = Nothing
  <2>1. (\A b : ~Named(fr, R, 0, b)) /\ (\A m : ~Spoke(fr, A, 0, m))
    BY DEF Named, Spoke
  <2> QED BY <2>1 DEF Caught, Nothing, Empty
<1>3. \A i \in 1 .. Len(fr) : V(i) = processFrame(V(i - 1), fr[i])
  BY OneMore
<1> HIDE DEF V
<1>4. \A i \in 0 .. Len(fr) : W[i] = V(i)
  OBVIOUS
<1>5. \A i \in 0 .. Len(fr) : i # 0 => i \in 1 .. Len(fr) /\ i - 1 \in 0 .. Len(fr)
  OBVIOUS
<1>6. Rec(W)
  <2>1. \A i \in 0 .. Len(fr) : V(i) = IF i = 0 THEN Nothing ELSE processFrame(W[i - 1], fr[i])
    BY <1>2, <1>3, <1>4, <1>5
  <2> QED BY <2>1
<1>7. Rec(F)
  BY <1>6
<1>8. \A i \in 0 .. Len(fr) : F[i] = IF i = 0 THEN Nothing ELSE processFrame(F[i - 1], fr[i])
  BY <1>7
<1> HIDE DEF F, W
<1>9. 0 \in Q
  BY <1>2, <1>4, <1>8
<1>10. ASSUME NEW n \in Q PROVE n + 1 \in Q
  <2> SUFFICES ASSUME n + 1 <= Len(fr) PROVE F[n + 1] = W[n + 1]
    OBVIOUS
  <2>1. /\ n \in Nat /\ F[n] = W[n] /\ n + 1 \in 1 .. Len(fr) /\ (n + 1) - 1 = n
        /\ n + 1 \in 0 .. Len(fr) /\ n \in 0 .. Len(fr) /\ n + 1 # 0
    OBVIOUS
  <2>2. F[n + 1] = processFrame(F[n], fr[n + 1])
    BY <1>8, <2>1
  <2>3. V(n + 1) = processFrame(V(n), fr[n + 1])
    BY <1>3, <2>1
  <2> QED BY <1>4, <2>1, <2>2, <2>3
<1>11. Q = Nat
  BY <1>9, <1>10, SetInduction
<1>12. Len(fr) \in 0 .. Len(fr)
  OBVIOUS
<1>13. F[Len(fr)] = V(Len(fr))
  BY <1>4, <1>11, <1>12
<1> QED BY <1>1, <1>13 DEF V

(* Two lists one after another. *)
LEMMA TwoLists ==
  ASSUME NEW S, NEW s \in Seq(S), NEW t \in Seq(S)
  PROVE  /\ s \o t \in Seq(S) /\ Len(s) \in Nat /\ Len(t) \in Nat
         /\ Len(s \o t) = Len(s) + Len(t)
         /\ \A i \in 1 .. Len(s) + Len(t) : (s \o t)[i] = IF i <= Len(s) THEN s[i] ELSE t[i - Len(s)]
OBVIOUS

(* A list made of three: where each element comes from.                    *)
MadeOf(fr, s, t, u) ==
    /\ Len(fr) = Len(s) + Len(t) + Len(u) /\ Len(fr) \in Nat
    /\ \A i \in 1 .. Len(s) : fr[i] = s[i]
    /\ \A i \in 1 .. Len(t) : fr[Len(s) + i] = t[i]
    /\ \A i \in 1 .. Len(u) : fr[Len(s) + Len(t) + i] = u[i]
    /\ \A j \in 1 .. Len(fr) : \/ j \in 1 .. Len(s)
                               \/ \E i \in 1 .. Len(t) : j = Len(s) + i
                               \/ \E i \in 1 .. Len(u) : j = Len(s) + Len(t) + i

(* Three lists one after another. *)
LEMMA ThreeLists ==
  ASSUME NEW S, NEW s \in Seq(S), NEW t \in Seq(S), NEW u \in Seq(S)
  PROVE  MadeOf(s \o t \o u, s, t, u)
<1> DEFINE fr == s \o t \o u
<1> DEFINE x == s \o t
<1>0. fr = x \o u
  OBVIOUS
<1>1. /\ x \in Seq(S) /\ Len(x) = Len(s) + Len(t) /\ Len(s) \in Nat /\ Len(t) \in Nat /\ Len(u) \in Nat
      /\ \A i \in 1 .. Len(s) + Len(t) : x[i] = IF i <= Len(s) THEN s[i] ELSE t[i - Len(s)]
  BY TwoLists
<1> HIDE DEF x
<1>2. x \in Seq(S)
  BY <1>1
<1>3. /\ x \o u \in Seq(S) /\ Len(x) \in Nat /\ Len(u) \in Nat
      /\ Len(x \o u) = Len(x) + Len(u)
      /\ \A i \in 1 .. Len(x) + Len(u) : (x \o u)[i] = IF i <= Len(x) THEN x[i] ELSE u[i - Len(x)]
  BY <1>2, TwoLists, Zenon
<1>4. /\ Len(fr) = Len(x) + Len(u)
      /\ \A i \in 1 .. Len(x) + Len(u) : fr[i] = IF i <= Len(x) THEN x[i] ELSE u[i - Len(x)]
  BY <1>0, <1>3
<1> HIDE DEF fr
<1>5. \A i \in 1 .. Len(s) : fr[i] = s[i]
  BY <1>1, <1>4
<1>6. ASSUME NEW i \in 1 .. Len(t) PROVE fr[Len(s) + i] = t[i]
  <2>1. Len(s) + i \in 1 .. Len(s) + Len(t) /\ ~ (Len(s) + i <= Len(s)) /\ (Len(s) + i) - Len(s) = i
        /\ Len(s) + i \in 1 .. Len(x) + Len(u) /\ Len(s) + i <= Len(x)
    BY <1>1
  <2> QED BY <1>1, <1>4, <2>1
<1>7. ASSUME NEW i \in 1 .. Len(u) PROVE fr[Len(s) + Len(t) + i] = u[i]
  <2>1. Len(x) + i \in 1 .. Len(x) + Len(u) /\ ~ (Len(x) + i <= Len(x)) /\ (Len(x) + i) - Len(x) = i
        /\ Len(s) + Len(t) + i = Len(x) + i
    BY <1>1
  <2> QED BY <1>4, <2>1
<1>8. ASSUME NEW j \in 1 .. Len(fr)
      PROVE  \/ j \in 1 .. Len(s)
             \/ \E i \in 1 .. Len(t) : j = Len(s) + i
             \/ \E i \in 1 .. Len(u) : j = Len(s) + Len(t) + i
  <2>1. CASE j <= Len(s)
    BY <1>1, <1>4, <2>1
  <2>2. CASE j > Len(s) /\ j <= Len(s) + Len(t)
    <3>1. j - Len(s) \in 1 .. Len(t) /\ j = Len(s) + (j - Len(s))
      BY <1>1, <1>4, <2>2
    <3> QED BY <3>1
  <2>3. CASE j > Len(s) + Len(t)
    <3>1. j - (Len(s) + Len(t)) \in 1 .. Len(u) /\ j = Len(s) + Len(t) + (j - (Len(s) + Len(t)))
      BY <1>1, <1>4, <2>3
    <3> QED BY <3>1
  <2> QED BY <1>1, <1>4, <2>1, <2>2, <2>3
<1>9. Len(fr) = Len(s) + Len(t) + Len(u) /\ Len(fr) \in Nat
  BY <1>1, <1>4
<1>10. MadeOf(fr, s, t, u)
  BY <1>5, <1>6, <1>7, <1>8, <1>9 DEF MadeOf
<1> QED BY <1>10 DEF fr

(* The frames of a channel, and what it gives: the access points on it at  *)
(* full strength, the ones that leak in at less, and the stations that     *)
(* probe or talk.                                                          *)
Frames(B, C, P, H, A) ==
    SetToSeq({Beacon(b, 2) : b \in B} \cup {Beacon(b, 1) : b \in C})
      \o SetToSeq({ProbeReq(m) : m \in P}) \o SetToSeq({Data(m, A[m]) : m \in H})

Gives(cap, B, C, P, H, A) ==
    /\ \A b \in Bssids :
          cap.nets[b] = IF b \in B THEN [rssi |-> 2, age |-> 0, ch |-> 0]
                        ELSE IF b \in C THEN [rssi |-> 1, age |-> 0, ch |-> 0] ELSE Nil
    /\ \A m \in Macs :
          cap.stas[m] = IF m \in P THEN [bssid |-> Nil, age |-> 0]
                        ELSE IF m \in H THEN [bssid |-> A[m], age |-> 0] ELSE Nil

(* The loop over the frames of a channel leaves just that. *)
LEMMA ChannelGives ==
  ASSUME NEW B \in SUBSET Bssids, NEW C \in SUBSET Bssids, B \cap C = {},
         NEW P \in SUBSET Macs, NEW H \in SUBSET Macs, NEW A \in [Macs -> Bssids \cup {Nil}]
  PROVE  Gives(captureOnChannel(Frames(B, C, P, H, A)), B, C, P, H, A)
<1> DEFINE X == {Beacon(b, 2) : b \in B} \cup {Beacon(b, 1) : b \in C}
           Y == {ProbeReq(m) : m \in P}
           Z == {Data(m, A[m]) : m \in H}
           s == SetToSeq(X)
           t == SetToSeq(Y)
           u == SetToSeq(Z)
           fr == s \o t \o u
           R == [b \in Bssids |-> IF b \in B THEN 2 ELSE 1]
           G == Caught(fr, R, A, P, Len(fr))
<1>1. IsFiniteSet(X) /\ IsFiniteSet(Y) /\ IsFiniteSet(Z)
  <2>1. IsFiniteSet(B) /\ IsFiniteSet(C) /\ IsFiniteSet(P) /\ IsFiniteSet(H)
    BY SightBounds, FS_Subset
  <2>2. IsFiniteSet({Beacon(b, 2) : b \in B})
    <3> DEFINE T == {Beacon(b, 2) : b \in B}  f == [b \in B |-> Beacon(b, 2)]
    <3>1. f \in Surjection(B, T)
      BY DEF Surjection
    <3> QED BY <2>1, <3>1, FS_Surjection
  <2>3. IsFiniteSet({Beacon(b, 1) : b \in C})
    <3> DEFINE T == {Beacon(b, 1) : b \in C}  f == [b \in C |-> Beacon(b, 1)]
    <3>1. f \in Surjection(C, T)
      BY DEF Surjection
    <3> QED BY <2>1, <3>1, FS_Surjection
  <2>4. IsFiniteSet({ProbeReq(m) : m \in P})
    <3> DEFINE T == {ProbeReq(m) : m \in P}  f == [m \in P |-> ProbeReq(m)]
    <3>1. f \in Surjection(P, T)
      BY DEF Surjection
    <3> QED BY <2>1, <3>1, FS_Surjection
  <2>5. IsFiniteSet({Data(m, A[m]) : m \in H})
    <3> DEFINE T == {Data(m, A[m]) : m \in H}  f == [m \in H |-> Data(m, A[m])]
    <3>1. f \in Surjection(H, T)
      BY DEF Surjection
    <3> QED BY <2>1, <3>1, FS_Surjection
  <2>6. IsFiniteSet(X)
    BY <2>2, <2>3, FS_Union
  <2> QED BY <2>4, <2>5, <2>6
<1>2. R \in [Bssids -> 1 .. 2]
  OBVIOUS
<1>3. /\ \A x \in X : \E b \in B \cup C : x = Beacon(b, R[b])
      /\ \A b \in B \cup C : Beacon(b, R[b]) \in X
  OBVIOUS
<1>4. /\ s \in Seq(X) /\ t \in Seq(Y) /\ u \in Seq(Z)
      /\ \A x \in X : \E i \in 1 .. Len(s) : s[i] = x
      /\ \A x \in Y : \E i \in 1 .. Len(t) : t[i] = x
      /\ \A x \in Z : \E i \in 1 .. Len(u) : u[i] = x
  BY <1>1, Listed
<1>5. (\A x \in Y : \E m \in P : x = ProbeReq(m)) /\ (\A m \in P : ProbeReq(m) \in Y)
  OBVIOUS
<1>6. (\A x \in Z : \E m \in H : x = Data(m, A[m])) /\ (\A m \in H : Data(m, A[m]) \in Z)
  OBVIOUS
<1> HIDE DEF X, Y, Z, s, t, u, R
<1>7. /\ Len(s) \in Nat /\ Len(t) \in Nat /\ Len(u) \in Nat
      /\ \A i \in 1 .. Len(s) : s[i] \in X
      /\ \A i \in 1 .. Len(t) : t[i] \in Y
      /\ \A i \in 1 .. Len(u) : u[i] \in Z
  BY <1>4
<1>8. /\ Len(fr) = Len(s) + Len(t) + Len(u) /\ Len(fr) \in Nat
      /\ \A i \in 1 .. Len(s) : fr[i] = s[i]
      /\ \A i \in 1 .. Len(t) : fr[Len(s) + i] = t[i]
      /\ \A i \in 1 .. Len(u) : fr[Len(s) + Len(t) + i] = u[i]
      /\ \A j \in 1 .. Len(fr) : \/ j \in 1 .. Len(s)
                                 \/ \E i \in 1 .. Len(t) : j = Len(s) + i
                                 \/ \E i \in 1 .. Len(u) : j = Len(s) + Len(t) + i
  <2> DEFINE S == X \cup Y \cup Z
  <2>1. s \in Seq(S) /\ t \in Seq(S) /\ u \in Seq(S)
    BY <1>4
  <2> HIDE DEF S
  <2>2. MadeOf(fr, s, t, u)
    BY <2>1, ThreeLists
  <2> HIDE DEF fr
  <2> QED BY <2>2 DEF MadeOf
<1> HIDE DEF fr
<1>9. \A j \in 1 .. Len(fr) : \/ \E b \in B \cup C : fr[j] = Beacon(b, R[b])
                              \/ \E m \in P : fr[j] = ProbeReq(m)
                              \/ \E m \in H : fr[j] = Data(m, A[m])
  <2> TAKE j \in 1 .. Len(fr)
  <2>1. CASE j \in 1 .. Len(s)
    BY <1>3, <1>7, <1>8, <2>1
  <2>2. CASE \E i \in 1 .. Len(t) : j = Len(s) + i
    BY <1>5, <1>7, <1>8, <2>2
  <2>3. CASE \E i \in 1 .. Len(u) : j = Len(s) + Len(t) + i
    BY <1>6, <1>7, <1>8, <2>3
  <2> QED BY <1>8, <2>1, <2>2, <2>3
<1>10. ASSUME NEW j \in 1 .. Len(fr), NEW m \in P, fr[j] = Data(m, A[m])
       PROVE  \E i \in 1 .. j - 1 : fr[i] = ProbeReq(m)
  <2>1. PICK i \in 1 .. Len(t) : t[i] = ProbeReq(m)
    BY <1>4, <1>5
  <2>2. fr[Len(s) + i] = ProbeReq(m)
    BY <1>8, <2>1
  <2>3. ~ (j \in 1 .. Len(s))
    <3> SUFFICES ASSUME j \in 1 .. Len(s) PROVE FALSE
      OBVIOUS
    <3>1. PICK b \in B \cup C : s[j] = Beacon(b, R[b])
      BY <1>3, <1>7
    <3> QED BY <1>8, <1>10, <3>1, FramesDiffer
  <2>4. ~ \E k \in 1 .. Len(t) : j = Len(s) + k
    <3> SUFFICES ASSUME NEW k \in 1 .. Len(t), j = Len(s) + k PROVE FALSE
      OBVIOUS
    <3> QED BY <1>5, <1>7, <1>8, <1>10, FramesDiffer
  <2>5. PICK k \in 1 .. Len(u) : j = Len(s) + Len(t) + k
    BY <1>8, <2>3, <2>4
  <2>6. Len(s) + i \in 1 .. j - 1
    BY <1>7, <2>1, <2>5
  <2> QED BY <2>2, <2>6
<1>11. Orderly(fr, R, A, P)
  BY <1>9, <1>10 DEF Orderly
<1>12. captureOnChannel(fr) = G
  BY <1>2, <1>8, <1>11, CaptureIs
<1>13. \A b \in Bssids : Named(fr, R, Len(fr), b) <=> b \in B \cup C
  <2> TAKE b \in Bssids
  <2>1. ASSUME Named(fr, R, Len(fr), b) PROVE b \in B \cup C
    <3>1. PICK j \in 1 .. Len(fr) : fr[j] = Beacon(b, R[b])
      BY <2>1 DEF Named
    <3> QED BY <1>9, <3>1, FramesDiffer
  <2>2. ASSUME b \in B \cup C PROVE Named(fr, R, Len(fr), b)
    <3>1. PICK i \in 1 .. Len(s) : s[i] = Beacon(b, R[b])
      BY <1>3, <1>4, <2>2
    <3>2. i \in 1 .. Len(fr)
      BY <1>7, <1>8
    <3> QED BY <1>8, <3>1, <3>2 DEF Named
  <2> QED BY <2>1, <2>2
<1>14. \A m \in Macs : Spoke(fr, A, Len(fr), m) <=> m \in P \cup H
  <2> TAKE m \in Macs
  <2>1. ASSUME Spoke(fr, A, Len(fr), m) PROVE m \in P \cup H
    <3>1. PICK j \in 1 .. Len(fr) : fr[j] = ProbeReq(m) \/ fr[j] = Data(m, A[m])
      BY <2>1 DEF Spoke
    <3> QED BY <1>9, <3>1, FramesDiffer
  <2>2. ASSUME m \in P PROVE Spoke(fr, A, Len(fr), m)
    <3>1. PICK i \in 1 .. Len(t) : t[i] = ProbeReq(m)
      BY <1>4, <1>5, <2>2
    <3>2. Len(s) + i \in 1 .. Len(fr)
      BY <1>7, <1>8
    <3> QED BY <1>8, <3>1, <3>2 DEF Spoke
  <2>3. ASSUME m \in H PROVE Spoke(fr, A, Len(fr), m)
    <3>1. PICK i \in 1 .. Len(u) : u[i] = Data(m, A[m])
      BY <1>4, <1>6, <2>3
    <3>2. Len(s) + Len(t) + i \in 1 .. Len(fr)
      BY <1>7, <1>8
    <3> QED BY <1>8, <3>1, <3>2 DEF Spoke
  <2> QED BY <2>1, <2>2, <2>3
<1>15. \A b \in Bssids : G.nets[b] = IF b \in B THEN [rssi |-> 2, age |-> 0, ch |-> 0]
                                     ELSE IF b \in C THEN [rssi |-> 1, age |-> 0, ch |-> 0] ELSE Nil
  BY <1>13 DEF Caught, R
<1>16. \A m \in Macs : G.stas[m] = IF m \in P THEN [bssid |-> Nil, age |-> 0]
                                   ELSE IF m \in H THEN [bssid |-> A[m], age |-> 0] ELSE Nil
  BY <1>14 DEF Caught
<1> HIDE DEF G
<1>17. Gives(captureOnChannel(fr), B, C, P, H, A)
  BY <1>12, <1>15, <1>16 DEF Gives
<1>18. fr = Frames(B, C, P, H, A)
  BY DEF Frames, fr, s, t, u, X, Y, Z
<1> QED BY <1>17, <1>18

-----------------------------------------------------------------------------
(* The sweeps *)

(* A tick makes sightings older, and leaves the rest of them.              *)
LEMMA OlderNetworks ==
  ASSUME NEW f \in [Bssids -> Network \cup {Nil}]
  PROVE  /\ allOlder(f) \in [Bssids -> Network \cup {Nil}]
         /\ \A b \in Bssids : /\ allOlder(f)[b] = Nil <=> f[b] = Nil
                              /\ f[b] # Nil => /\ allOlder(f)[b].rssi = f[b].rssi
                                               /\ allOlder(f)[b].ch = f[b].ch
                                               /\ allOlder(f)[b].age <= f[b].age + 1
<1>1. \A n \in Nat : older(n, Retention + 1) \in Nat /\ older(n, Retention + 1) <= n + 1
  BY SightBounds DEF older
<1>2. ASSUME NEW b \in Bssids, f[b] # Nil
      PROVE  /\ allOlder(f)[b] \in Network /\ allOlder(f)[b].rssi = f[b].rssi
             /\ allOlder(f)[b].ch = f[b].ch /\ allOlder(f)[b].age <= f[b].age + 1
  <2>1. f[b] \in Network
    BY <1>2
  <2>2. allOlder(f)[b] = [f[b] EXCEPT !.age = older(f[b].age, Retention + 1)]
    BY <1>2 DEF allOlder
  <2> QED BY <1>1, <2>1, <2>2 DEF Network
<1>3. ASSUME NEW b \in Bssids, f[b] = Nil PROVE allOlder(f)[b] = Nil
  BY <1>3 DEF allOlder
<1>4. allOlder(f) = [b \in Bssids |-> allOlder(f)[b]]
  BY DEF allOlder
<1> QED BY <1>2, <1>3, <1>4, SightNil

(* The same of the stations of a sweep. *)
LEMMA OlderStations ==
  ASSUME NEW f \in [Macs -> Station \cup {Nil}]
  PROVE  /\ allOlder(f) \in [Macs -> Station \cup {Nil}]
         /\ \A m \in Macs : /\ allOlder(f)[m] = Nil <=> f[m] = Nil
                            /\ f[m] # Nil => /\ allOlder(f)[m].bssid = f[m].bssid
                                             /\ allOlder(f)[m].age <= f[m].age + 1
<1>1. \A n \in Nat : older(n, Retention + 1) \in Nat /\ older(n, Retention + 1) <= n + 1
  BY SightBounds DEF older
<1>2. ASSUME NEW m \in Macs, f[m] # Nil
      PROVE  /\ allOlder(f)[m] \in Station /\ allOlder(f)[m].bssid = f[m].bssid
             /\ allOlder(f)[m].age <= f[m].age + 1
  <2>1. f[m] \in Station
    BY <1>2
  <2>2. allOlder(f)[m] = [f[m] EXCEPT !.age = older(f[m].age, Retention + 1)]
    BY <1>2 DEF allOlder
  <2> QED BY <1>1, <2>1, <2>2 DEF Station
<1>3. ASSUME NEW m \in Macs, f[m] = Nil PROVE allOlder(f)[m] = Nil
  BY <1>3 DEF allOlder
<1>4. allOlder(f) = [m \in Macs |-> allOlder(f)[m]]
  BY DEF allOlder
<1> QED BY <1>2, <1>3, <1>4, SightNil

(* And of the networks retained. *)
LEMMA OlderRetained ==
  ASSUME NEW f \in [Bssids -> Retained \cup {Nil}]
  PROVE  allOlder(f) \in [Bssids -> Retained \cup {Nil}]
<1>1. \A n \in Nat : older(n, Retention + 1) \in Nat
  BY SightBounds DEF older
<1>2. ASSUME NEW b \in Bssids, f[b] # Nil PROVE allOlder(f)[b] \in Retained
  <2>1. f[b] \in Retained
    BY <1>2
  <2>2. allOlder(f)[b] = [f[b] EXCEPT !.age = older(f[b].age, Retention + 1)]
    BY <1>2 DEF allOlder
  <2> QED BY <1>1, <2>1, <2>2 DEF Retained
<1>3. ASSUME NEW b \in Bssids, f[b] = Nil PROVE allOlder(f)[b] = Nil
  BY <1>3 DEF allOlder
<1>4. allOlder(f) = [b \in Bssids |-> allOlder(f)[b]]
  BY DEF allOlder
<1> QED BY <1>2, <1>3, <1>4

(* The fields of a sweep and of a state. *)
LEMMA Fields ==
  /\ \A w \in Sweep : /\ w.todo \subseteq Nat /\ w.full \in BOOLEAN /\ w.age \in Nat
                      /\ w.nets \in [Bssids -> Network \cup {Nil}]
                      /\ w.stas \in [Macs -> Station \cup {Nil}]
                      /\ w.talk \in [Macs -> Bssids \cup {"blank", Nil}]
                      /\ w.dull \subseteq Bssids
  /\ \A s \in wlanPassiveState : /\ s.nets \in [Bssids -> Retained \cup {Nil}]
                                 /\ s.stas \in [Macs -> Station \cup {Nil}]
                                 /\ s.chans \subseteq Nat /\ s.full \in Nat
BY DEF Sweep, wlanPassiveState

(* Nothing is known of the air at first. *)
LEMMA SightStart == SightInit => SightInv
<1> SUFFICES ASSUME SightInit PROVE SightInv
  OBVIOUS
<1>1. SightTyped
  <2>1. assoc \in [Macs -> Bssids \cup {Nil}] /\ met \in [Macs -> Bssids \cup {"blank", Nil}]
    BY DEF SightInit, Empty
  <2>2. onFor \in [Bssids -> Nat \cup {Nil}] /\ chan \in [Bssids -> Channels]
    BY DEF SightInit
  <2>3. state \in wlanPassiveState \cup {Nil} /\ sweep \in Sweep \cup {Nil}
    BY Zenon DEF SightInit
  <2>4. deaf = {} /\ cut = {}
    BY DEF SightInit
  <2> QED BY <2>1, <2>2, <2>3, <2>4 DEF SightTyped
<1>2. Recalled
  BY SightNil DEF SightInit, Recalled, Empty
<1> QED BY <1>1, <1>2 DEF SightInit, SightInv, SweepFresh, Watched, Listened, Narrowed, Talked

(* The clock: an access point's time on the air and the time since the     *)
(* last full sweep grow together, until either stands still at its limit.   *)
LEMMA ClockStep == SightInv /\ ClockTick => SightInv'
<1> SUFFICES ASSUME SightInv, ClockTick PROVE SightInv'
  OBVIOUS
<1> USE SightBounds, SightNil
<1>1. \A b \in Bssids : /\ onFor'[b] = Nil <=> onFor[b] = Nil
                        /\ onFor[b] # Nil => /\ onFor[b] \in Nat
                                             /\ onFor'[b] = older(onFor[b], Retention + 2 * Dwell)
                                             /\ onFor'[b] \in Nat
  BY DEF SightInv, SightTyped, ClockTick, older
<1>2. /\ onFor' \in [Bssids -> Nat \cup {Nil}]
      /\ UNCHANGED <<chan, assoc, nair, result, deaf, met, cut>>
  <2>1. onFor' = [b \in Bssids |-> onFor'[b]]
    BY DEF ClockTick
  <2> QED BY <1>1, <2>1 DEF ClockTick, seenVars
<1>3. ASSUME state # Nil
      PROVE  /\ state' \in wlanPassiveState /\ state'.chans = state.chans
             /\ state.full \in Nat /\ state'.full = older(state.full, Retention)
             /\ \A m \in Macs : /\ state'.stas[m] = Nil <=> state.stas[m] = Nil
                                /\ state.stas[m] # Nil => state'.stas[m].bssid = state.stas[m].bssid
  <2>1. state \in wlanPassiveState
    BY <1>3 DEF SightInv, SightTyped
  <2>2. state' = [state EXCEPT !.nets = allOlder(state.nets), !.stas = allOlder(state.stas),
                               !.full = older(state.full, Retention)]
    BY <1>3 DEF ClockTick
  <2>3. state'.nets = allOlder(state.nets) /\ state'.stas = allOlder(state.stas)
        /\ state'.full = older(state.full, Retention) /\ state'.chans = state.chans
        /\ state' = [nets |-> state'.nets, stas |-> state'.stas, chans |-> state'.chans, full |-> state'.full]
    BY <2>1, <2>2 DEF wlanPassiveState
  <2>4. older(state.full, Retention) \in Nat
    BY <2>1, Fields DEF older
  <2> QED BY <2>1, <2>3, <2>4, Fields, OlderStations, OlderRetained DEF wlanPassiveState
<1>4. state = Nil => state' = Nil
  BY DEF ClockTick
<1>5. ASSUME sweep # Nil
      PROVE  /\ sweep' \in Sweep /\ sweep'.todo = sweep.todo /\ sweep'.full = sweep.full
             /\ sweep.age \in Nat /\ sweep.age < Dwell /\ sweep'.age = sweep.age + 1
             /\ sweep'.talk = sweep.talk /\ sweep'.dull = sweep.dull
             /\ \A b \in Bssids : /\ sweep'.nets[b] = Nil <=> sweep.nets[b] = Nil
                                  /\ sweep.nets[b] # Nil =>
                                        /\ sweep'.nets[b].rssi = sweep.nets[b].rssi
                                        /\ sweep'.nets[b].ch = sweep.nets[b].ch
                                        /\ sweep'.nets[b].age <= sweep.nets[b].age + 1
             /\ \A m \in Macs : /\ sweep'.stas[m] = Nil <=> sweep.stas[m] = Nil
                                /\ sweep.stas[m] # Nil =>
                                      /\ sweep'.stas[m].bssid = sweep.stas[m].bssid
                                      /\ sweep'.stas[m].age <= sweep.stas[m].age + 1
  <2>1. sweep \in Sweep /\ sweep.age < Dwell
    BY <1>5 DEF SightInv, SightTyped, ClockTick
  <2>2. sweep' = [sweep EXCEPT !.nets = allOlder(sweep.nets), !.stas = allOlder(sweep.stas),
                               !.age = sweep.age + 1]
    BY <1>5 DEF ClockTick
  <2>3. /\ sweep'.nets = allOlder(sweep.nets) /\ sweep'.stas = allOlder(sweep.stas)
        /\ sweep'.age = sweep.age + 1 /\ sweep'.todo = sweep.todo /\ sweep'.full = sweep.full
        /\ sweep'.talk = sweep.talk /\ sweep'.dull = sweep.dull
        /\ sweep' = [todo |-> sweep'.todo, full |-> sweep'.full, age |-> sweep'.age,
                     nets |-> sweep'.nets, stas |-> sweep'.stas, talk |-> sweep'.talk,
                     dull |-> sweep'.dull]
    BY <2>1, <2>2 DEF Sweep
  <2>4. sweep' \in Sweep
    BY <2>1, <2>3, Fields, OlderStations, OlderNetworks DEF Sweep
  <2> QED BY <2>1, <2>3, <2>4, Fields, OlderStations, OlderNetworks
<1>6. sweep = Nil => sweep' = Nil
  BY DEF ClockTick
<1>7. SightTyped'
  BY <1>2, <1>3, <1>4, <1>5, <1>6 DEF SightInv, SightTyped
<1>8. sweep' # Nil => sweep # Nil
  BY <1>6
<1>9. state' = Nil <=> state = Nil
  BY <1>3, <1>4
<1>10. SweepFresh'
  <2> SUFFICES ASSUME sweep # Nil
               PROVE  /\ result' = Nil /\ sweep'.age <= Dwell
                      /\ ~sweep'.full => state' # Nil
                      /\ \A b \in Bssids : sweep'.nets[b] # Nil =>
                            /\ sweep'.nets[b].age <= sweep'.age
                            /\ sweep'.nets[b].rssi = 2 => sweep'.nets[b].ch = chan'[b]
                      /\ \A m \in Macs : sweep'.stas[m] # Nil => sweep'.stas[m].age <= sweep'.age
    BY <1>8 DEF SweepFresh
  <2>1. sweep \in Sweep
    BY DEF SightInv, SightTyped
  <2>2. ASSUME NEW b \in Bssids, sweep'.nets[b] # Nil
        PROVE  /\ sweep'.nets[b].age <= sweep'.age
               /\ sweep'.nets[b].rssi = 2 => sweep'.nets[b].ch = chan'[b]
    <3>1. sweep.nets[b] # Nil /\ sweep.nets[b] \in Network /\ sweep'.nets[b] \in Network
      BY <1>5, <2>1, <2>2, Fields
    <3>2. sweep.nets[b].age \in Nat /\ sweep'.nets[b].age \in Nat
      BY <3>1 DEF Network
    <3> QED BY <1>2, <1>5, <3>1, <3>2 DEF SightInv, SweepFresh
  <2>3. ASSUME NEW m \in Macs, sweep'.stas[m] # Nil
        PROVE  sweep'.stas[m].age <= sweep'.age
    <3>1. sweep.stas[m] # Nil /\ sweep.stas[m] \in Station /\ sweep'.stas[m] \in Station
      BY <1>5, <2>1, <2>3, Fields
    <3>2. sweep.stas[m].age \in Nat /\ sweep'.stas[m].age \in Nat
      BY <3>1 DEF Station
    <3> QED BY <1>5, <3>1, <3>2 DEF SightInv, SweepFresh
  <2>4. result' = Nil /\ (~sweep'.full => state' # Nil)
    BY <1>2, <1>5, <1>9 DEF SightInv, SweepFresh
  <2> QED BY <1>5, <2>2, <2>3, <2>4
<1>11. Watched'
  <2> SUFFICES ASSUME state' # Nil, state'.full < Retention,
                      NEW b \in Bssids \ deaf', onFor'[b] # Nil, onFor'[b] > state'.full + Dwell
               PROVE  chan'[b] \in state'.chans
    BY DEF Watched
  <2>1. state # Nil /\ b \notin deaf /\ onFor[b] # Nil
    BY <1>1, <1>2, <1>9
  <2>2. state.full < Retention /\ onFor[b] > state.full + Dwell
    BY <1>1, <1>3, <2>1 DEF older
  <2> QED BY <1>2, <1>3, <2>1, <2>2 DEF SightInv, Watched
<1>12. Listened'
  <2> SUFFICES ASSUME sweep' # Nil, NEW b \in Bssids \ sweep'.dull, onFor'[b] # Nil, onFor'[b] > sweep'.age,
                      sweep'.full \/ chan'[b] \in state'.chans
               PROVE  chan'[b] \in sweep'.todo \/ (sweep'.nets[b] # Nil /\ sweep'.nets[b].rssi = 2)
    BY DEF Listened
  <2>1. sweep # Nil /\ b \notin sweep.dull /\ onFor[b] # Nil
    BY <1>1, <1>5, <1>6
  <2>2. onFor[b] > sweep.age
    BY <1>1, <1>5, <2>1 DEF older
  <2>3. sweep.full \/ chan[b] \in state.chans
    <3>1. CASE sweep'.full
      BY <1>5, <2>1, <3>1
    <3>2. CASE ~sweep'.full
      <4>1. state # Nil
        BY <1>5, <2>1, <3>2 DEF SightInv, SweepFresh
      <4> QED BY <1>2, <1>3, <3>2, <4>1
    <3> QED BY <3>1, <3>2
  <2> QED BY <1>2, <1>5, <2>1, <2>2, <2>3 DEF SightInv, Listened
<1>13. Narrowed'
  <2> SUFFICES ASSUME sweep' # Nil, NEW b \in Bssids \ deaf', onFor'[b] # Nil,
                      onFor'[b] - sweep'.age >= Retention + Dwell, ~sweep'.full
               PROVE  chan'[b] \in state'.chans
    BY DEF Narrowed
  <2>1. sweep # Nil /\ b \notin deaf /\ onFor[b] # Nil
    BY <1>1, <1>2, <1>6
  <2>2. onFor[b] - sweep.age >= Retention + Dwell
    BY <1>1, <1>5, <2>1 DEF older
  <2>3. ~sweep.full /\ state # Nil
    BY <1>5, <2>1 DEF SightInv, SweepFresh
  <2> QED BY <1>2, <1>3, <2>1, <2>2, <2>3 DEF SightInv, Narrowed
<1>14. Talked'
  BY <1>5, <1>8 DEF SightInv, Talked
<1>15. Recalled'
  BY <1>2, <1>3, <1>9 DEF SightInv, Recalled
<1> QED BY <1>7, <1>10, <1>11, <1>12, <1>13, <1>14, <1>15 DEF SightInv

(* What an access point that turns on or off, or a station that moves,     *)
(* leaves alone.                                                           *)
LEMMA AirMoves ==
  ASSUME SightInv, UNCHANGED <<chan, state, sweep, result, deaf, met, cut>>,
         assoc' \in [Macs -> Bssids \cup {Nil}], onFor' \in [Bssids -> Nat \cup {Nil}],
         \A b \in Bssids : onFor'[b] \in {onFor[b], 0, Nil}
  PROVE  SightInv'
<1> USE SightBounds, SightNil
<1>1. SightTyped'
  BY DEF SightInv, SightTyped
<1>2. SweepFresh' /\ Talked' /\ Recalled'
  BY DEF SightInv, SweepFresh, Talked, Recalled
<1>3. Watched'
  <2> SUFFICES ASSUME state # Nil, state.full < Retention,
                      NEW b \in Bssids \ deaf, onFor'[b] # Nil, onFor'[b] > state.full + Dwell
               PROVE  chan[b] \in state.chans
    BY DEF Watched
  <2>1. state.full \in Nat
    BY Fields DEF SightInv, SightTyped
  <2>2. onFor'[b] = onFor[b]
    BY <2>1
  <2> QED BY <2>2 DEF SightInv, Watched
<1>4. Listened'
  <2> SUFFICES ASSUME sweep # Nil, NEW b \in Bssids \ sweep.dull, onFor'[b] # Nil, onFor'[b] > sweep.age,
                      sweep.full \/ chan[b] \in state.chans
               PROVE  chan[b] \in sweep.todo \/ (sweep.nets[b] # Nil /\ sweep.nets[b].rssi = 2)
    BY DEF Listened
  <2>1. sweep.age \in Nat
    BY Fields DEF SightInv, SightTyped
  <2>2. onFor'[b] = onFor[b]
    BY <2>1
  <2> QED BY <2>2 DEF SightInv, Listened
<1>5. Narrowed'
  <2> SUFFICES ASSUME sweep # Nil, NEW b \in Bssids \ deaf, onFor'[b] # Nil,
                      onFor'[b] - sweep.age >= Retention + Dwell, ~sweep.full
               PROVE  chan[b] \in state.chans
    BY DEF Narrowed
  <2>1. sweep.age \in Nat
    BY Fields DEF SightInv, SightTyped
  <2>2. onFor'[b] = onFor[b]
    BY <2>1
  <2> QED BY <2>2 DEF SightInv, Narrowed
<1> QED BY <1>1, <1>2, <1>3, <1>4, <1>5 DEF SightInv

(* The air changes. *)
LEMMA TurnStep ==
  ASSUME SightInv, NEW b \in Bssids,
         TurnsOn(b) \/ TurnsOff(b) \/ \E m \in Macs : Associates(m, b)
  PROVE  SightInv'
<1>1. onFor \in [Bssids -> Nat \cup {Nil}] /\ assoc \in [Macs -> Bssids \cup {Nil}]
  BY DEF SightInv, SightTyped
<1>2. CASE TurnsOn(b)
  <2>1. onFor' \in [Bssids -> Nat \cup {Nil}] /\ \A c \in Bssids : onFor'[c] \in {onFor[c], 0, Nil}
    BY <1>1, <1>2 DEF TurnsOn
  <2> QED BY <1>1, <1>2, <2>1, AirMoves DEF TurnsOn, AirChanges, seenVars
<1>3. CASE TurnsOff(b)
  <2>1. onFor' \in [Bssids -> Nat \cup {Nil}] /\ \A c \in Bssids : onFor'[c] \in {onFor[c], 0, Nil}
    BY <1>1, <1>3 DEF TurnsOff
  <2>2. assoc' \in [Macs -> Bssids \cup {Nil}]
    BY <1>1, <1>3 DEF TurnsOff
  <2> QED BY <1>3, <2>1, <2>2, AirMoves DEF TurnsOff, AirChanges, seenVars
<1>4. CASE \E m \in Macs : Associates(m, b)
  <2>1. PICK m \in Macs : Associates(m, b)
    BY <1>4
  <2>2. assoc' \in [Macs -> Bssids \cup {Nil}] /\ onFor' = onFor
    BY <1>1, <2>1 DEF Associates
  <2> QED BY <1>1, <2>1, <2>2, AirMoves DEF Associates, AirChanges, seenVars
<1> QED BY <1>2, <1>3, <1>4

(* A sweep begins: until the re-scan is due, Watched says that a narrow    *)
(* one visits every access point that has been on for long enough.         *)
LEMMA StartStep ==
  ASSUME SightInv, NEW list \in SUBSET Channels, StartSweep(list)
  PROVE  SightInv'
<1> USE SightBounds, SightNil
<1>1. UNCHANGED <<chan, onFor, assoc, state, deaf, met, cut>> /\ result' = Nil
  BY DEF StartSweep, seenVars
<1>2. fullSweepDue \in BOOLEAN /\ (~fullSweepDue => state # Nil /\ state \in wlanPassiveState)
  BY DEF fullSweepDue, SightInv, SightTyped
<1>3. /\ sweep'.todo = list /\ (~fullSweepDue => list = state.chans)
      /\ sweep'.dull = IF fullSweepDue THEN {b \in Bssids : chan[b] \notin list} ELSE {}
      /\ sweep'.full = fullSweepDue /\ sweep'.age = 0 /\ sweep'.nets = Empty(Bssids)
      /\ sweep'.stas = Empty(Macs) /\ sweep'.talk = Empty(Macs)
      /\ sweep' = [todo |-> sweep'.todo, full |-> sweep'.full, age |-> sweep'.age,
                   nets |-> sweep'.nets, stas |-> sweep'.stas, talk |-> sweep'.talk,
                     dull |-> sweep'.dull]
  BY <1>2, Zenon DEF StartSweep
<1>4. \A b \in Bssids : sweep'.nets[b] = Nil
  BY <1>3 DEF Empty
<1>5. \A m \in Macs : sweep'.stas[m] = Nil /\ sweep'.talk[m] = Nil
  BY <1>3 DEF Empty
<1>6. sweep' \in Sweep
  <2>1. sweep'.nets \in [Bssids -> Network \cup {Nil}] /\ sweep'.stas \in [Macs -> Station \cup {Nil}]
        /\ sweep'.talk \in [Macs -> Bssids \cup {"blank", Nil}]
    BY <1>3 DEF Empty
  <2>2. sweep'.todo \subseteq Nat /\ sweep'.dull \subseteq Bssids
    BY <1>3
  <2> QED BY <1>2, <1>3, <2>1, <2>2 DEF Sweep
<1>7. SightTyped'
  BY <1>1, <1>6 DEF SightInv, SightTyped
<1>8. SweepFresh'
  BY <1>1, <1>2, <1>3, <1>4, <1>5 DEF SweepFresh
<1>9. Watched' /\ Recalled'
  BY <1>1 DEF SightInv, Watched, Recalled
<1>10. Listened'
  <2> SUFFICES ASSUME NEW b \in Bssids \ sweep'.dull, sweep'.full \/ chan[b] \in state.chans
               PROVE  chan[b] \in sweep'.todo
    BY <1>1 DEF Listened
  <2> QED BY <1>2, <1>3
<1>11. Narrowed'
  <2> SUFFICES ASSUME NEW b \in Bssids \ deaf, onFor[b] # Nil, onFor[b] - 0 >= Retention + Dwell, ~fullSweepDue
               PROVE  chan[b] \in state.chans
    BY <1>1, <1>3 DEF Narrowed
  <2>1. state # Nil /\ state.full \in Nat /\ ~ (state.full >= Retention)
    BY <1>2, Fields DEF fullSweepDue
  <2>2. onFor[b] \in Nat
    BY DEF SightInv, SightTyped
  <2>3. onFor[b] > state.full + Dwell /\ state.full < Retention
    BY <2>1, <2>2
  <2> QED BY <2>1, <2>3 DEF SightInv, Watched
<1>12. Talked'
  BY <1>5 DEF Talked
<1> QED BY <1>7, <1>8, <1>9, <1>10, <1>11, <1>12 DEF SightInv

(* A channel that could not be listened to: its access points are missed. *)
LEMMA SkipStep ==
  ASSUME SightInv, NEW ch \in Channels, SkipChannel(ch)
  PROVE  SightInv'
<1> USE SightNil
<1> DEFINE lost == {b \in Bssids : chan[b] = ch}
<1>1. UNCHANGED <<chan, onFor, assoc, state, result, deaf, met, cut>> /\ sweep # Nil
      /\ sweep' = [sweep EXCEPT !.todo = sweep.todo \ {ch}, !.dull = sweep.dull \cup lost]
  BY DEF SkipChannel, seenVars
<1>2. sweep \in Sweep
  BY <1>1 DEF SightInv, SightTyped
<1>3. \A b \in Bssids : b \in lost <=> chan[b] = ch
  OBVIOUS
<1>4. lost \subseteq Bssids
  OBVIOUS
<1> HIDE DEF lost
<1>5. sweep' \in Sweep /\ sweep'.full = sweep.full /\ sweep'.age = sweep.age
      /\ sweep'.nets = sweep.nets /\ sweep'.stas = sweep.stas /\ sweep'.talk = sweep.talk
      /\ sweep'.todo = sweep.todo \ {ch} /\ sweep'.dull = sweep.dull \cup lost
  BY <1>1, <1>2, <1>4 DEF Sweep
<1>6. SightTyped'
  BY <1>1, <1>5 DEF SightInv, SightTyped
<1>7. SweepFresh' /\ Talked' /\ Recalled'
  BY <1>1, <1>5 DEF SightInv, SweepFresh, Talked, Recalled
<1>8. Watched' /\ Narrowed'
  BY <1>1, <1>5 DEF SightInv, Watched, Narrowed
<1>9. Listened'
  BY <1>1, <1>3, <1>5 DEF SightInv, Listened
<1> QED BY <1>6, <1>7, <1>8, <1>9 DEF SightInv

(* A sweep that fails leaves what was retained. *)
LEMMA FailStep == SightInv /\ SenseFails => SightInv'
<1> SUFFICES ASSUME SightInv, SenseFails PROVE SightInv'
  OBVIOUS
<1>1. UNCHANGED <<chan, onFor, assoc, state, result, deaf, met, cut>> /\ sweep' = Nil
  BY DEF SenseFails, airVars, seenVars
<1>2. SightTyped'
  BY <1>1 DEF SightInv, SightTyped
<1>3. Watched' /\ Recalled'
  BY <1>1 DEF SightInv, Watched, Recalled
<1>4. SweepFresh' /\ Listened' /\ Narrowed' /\ Talked'
  BY <1>1 DEF SweepFresh, Listened, Narrowed, Talked
<1> QED BY <1>2, <1>3, <1>4 DEF SightInv

(* A channel is listened to: its own access points are heard or missed,    *)
(* and heard at a strength no leak from another channel replaces.          *)
LEMMA CaptureStep ==
  ASSUME SightInv, NEW ch \in Channels, NEW leaks \in SUBSET Bssids, NEW talks \in SUBSET Macs,
         NEW probes \in SUBSET Macs, NEW missed \in SUBSET Bssids,
         Capture(ch, leaks, talks, probes, missed)
  PROVE  SightInv'
<1> USE SightBounds, SightNil
<1> DEFINE own == {b \in Bssids : onFor[b] # Nil /\ chan[b] = ch}
           leaked == {x \in leaks : onFor[x] # Nil /\ chan[x] # ch}
           heard == {m \in talks : assoc[m] \in own}
           strong == own \ missed
           beacons == {Beacon(b, 2) : b \in strong} \cup {Beacon(b, 1) : b \in leaked}
           cap == captureOnChannel(SetToSeq(beacons) \o SetToSeq({ProbeReq(m) : m \in probes})
                                     \o SetToSeq({Data(m, assoc[m]) : m \in heard}))
<1>1. /\ \A b \in Bssids :
            cap.nets[b] = IF b \in strong THEN [rssi |-> 2, age |-> 0, ch |-> 0]
                          ELSE IF b \in leaked THEN [rssi |-> 1, age |-> 0, ch |-> 0] ELSE Nil
      /\ \A m \in Macs :
            cap.stas[m] = IF m \in probes THEN [bssid |-> Nil, age |-> 0]
                          ELSE IF m \in heard THEN [bssid |-> assoc[m], age |-> 0] ELSE Nil
  <2> DEFINE A == assoc
  <2>1. A \in [Macs -> Bssids \cup {Nil}]
    BY DEF SightInv, SightTyped
  <2>2. strong \in SUBSET Bssids /\ leaked \in SUBSET Bssids /\ strong \cap leaked = {} /\ heard \in SUBSET Macs
    OBVIOUS
  <2>3. cap = captureOnChannel(Frames(strong, leaked, probes, heard, A))
    BY DEF Frames
  <2> HIDE DEF own, strong, leaked, heard, cap, A
  <2>4. Gives(cap, strong, leaked, probes, heard, A)
    BY <2>1, <2>2, <2>3, ChannelGives
  <2> QED BY <2>4 DEF A, Gives
<1>2. /\ sweep # Nil /\ ch \in sweep.todo
      /\ sweep' = [sweep EXCEPT
              !.todo = sweep.todo \ {ch},
              !.nets = [b \in Bssids |-> mergeNetwork(sweep.nets[b], cap.nets[b], ch)],
              !.stas = [m \in Macs |-> mergeStation(sweep.stas[m], cap.stas[m])],
              !.talk = [m \in Macs |-> IF m \in probes THEN "blank"
                                       ELSE IF m \in heard THEN assoc[m] ELSE sweep.talk[m]],
              !.dull = sweep.dull \cup missed]
      /\ UNCHANGED <<chan, onFor, assoc, state, result, deaf, met, cut>>
  BY DEF Capture, seenVars
<1> HIDE DEF own, strong, leaked, heard, beacons, cap
<1>3. sweep \in Sweep
  BY <1>2 DEF SightInv, SightTyped
<1>4. /\ sweep'.todo = sweep.todo \ {ch} /\ sweep'.full = sweep.full /\ sweep'.age = sweep.age
      /\ sweep'.nets = [b \in Bssids |-> mergeNetwork(sweep.nets[b], cap.nets[b], ch)]
      /\ sweep'.stas = [m \in Macs |-> mergeStation(sweep.stas[m], cap.stas[m])]
      /\ sweep'.talk = [m \in Macs |-> IF m \in probes THEN "blank"
                                       ELSE IF m \in heard THEN assoc[m] ELSE sweep.talk[m]]
      /\ sweep'.dull = sweep.dull \cup missed
      /\ sweep' = [todo |-> sweep'.todo, full |-> sweep'.full, age |-> sweep'.age,
                   nets |-> sweep'.nets, stas |-> sweep'.stas, talk |-> sweep'.talk,
                     dull |-> sweep'.dull]
  BY <1>2, <1>3 DEF Sweep
<1>5. \A b \in Bssids : sweep.nets[b] # Nil => sweep.nets[b] \in Network /\ sweep.nets[b].age <= sweep.age
                                               /\ (sweep.nets[b].rssi = 2 => sweep.nets[b].ch = chan[b])
  BY <1>2, <1>3, Fields DEF SightInv, SweepFresh
<1>6. \A m \in Macs : sweep.stas[m] # Nil => sweep.stas[m] \in Station /\ sweep.stas[m].age <= sweep.age
  BY <1>2, <1>3, Fields DEF SightInv, SweepFresh
<1>7. sweep.age \in Nat /\ ch \in Nat
  BY <1>3, Fields
<1>8. ASSUME NEW b \in Bssids
      PROVE  LET old == sweep.nets[b]  new == sweep'.nets[b] IN
             /\ new # Nil => /\ new \in Network /\ new.age <= sweep.age
                             /\ new.rssi = 2 => new.ch = chan[b]
             /\ old # Nil /\ old.rssi = 2 => new # Nil /\ new.rssi = 2
             /\ b \in strong => new # Nil /\ new.rssi = 2
  <2> DEFINE old == sweep.nets[b]
             new == sweep'.nets[b]
             k == cap.nets[b]
  <2>1. new = mergeNetwork(old, k, ch)
    BY <1>4
  <2>2. b \in strong => chan[b] = ch
    BY DEF own, strong
  <2>3. old # Nil => old \in Network /\ old.age <= sweep.age /\ (old.rssi = 2 => old.ch = chan[b])
    BY <1>5
  <2>4. \/ b \in strong /\ k = [rssi |-> 2, age |-> 0, ch |-> 0]
        \/ b \notin strong /\ k = [rssi |-> 1, age |-> 0, ch |-> 0]
        \/ b \notin strong /\ k = Nil
    BY <1>1
  <2> HIDE DEF old, new, k
  <2>5. \A r \in 1 .. 2 : [rssi |-> r, age |-> 0, ch |-> 0] \in Network
    BY DEF Network
  <2>6. CASE k = Nil
    BY <2>1, <2>3, <2>4, <2>5, <2>6 DEF mergeNetwork, old, new
  <2>7. ASSUME NEW r \in 1 .. 2, k = [rssi |-> r, age |-> 0, ch |-> 0], r = 2 <=> b \in strong
        PROVE  /\ new # Nil => /\ new \in Network /\ new.age <= sweep.age
                               /\ new.rssi = 2 => new.ch = chan[b]
               /\ old # Nil /\ old.rssi = 2 => new # Nil /\ new.rssi = 2
               /\ b \in strong => new # Nil /\ new.rssi = 2
    <3>1. k # Nil /\ k.rssi = r /\ k.age = 0 /\ k \in Network
      BY <2>5, <2>7
    <3>2. CASE old = Nil
      <4>1. new = [k EXCEPT !.ch = ch]
        BY <2>1, <3>1, <3>2 DEF mergeNetwork
      <4>2. new = [rssi |-> r, age |-> 0, ch |-> ch]
        BY <2>7, <4>1
      <4> QED BY <1>7, <2>2, <2>7, <3>2, <4>2 DEF Network
    <3>3. CASE old # Nil
      <4>1. old \in Network /\ old.age <= sweep.age /\ (old.rssi = 2 => old.ch = chan[b])
        BY <2>3, <3>3
      <4>2. CASE k.rssi > old.rssi
        <5>1. new = [old EXCEPT !.rssi = r, !.ch = ch]
          BY <2>1, <3>1, <3>3, <4>2 DEF mergeNetwork
        <5>2. new \in Network /\ new.rssi = r /\ new.ch = ch /\ new.age = old.age
          BY <1>7, <4>1, <5>1 DEF Network
        <5>3. r = 2 /\ old.rssi = 1
          BY <3>1, <4>1, <4>2 DEF Network
        <5> QED BY <2>2, <2>7, <4>1, <5>2, <5>3
      <4>3. CASE ~ (k.rssi > old.rssi)
        <5>1. new = old
          BY <2>1, <3>1, <3>3, <4>3 DEF mergeNetwork
        <5>2. r = 2 => old.rssi = 2
          BY <3>1, <4>1, <4>3 DEF Network
        <5> QED BY <2>7, <3>3, <4>1, <5>1, <5>2
      <4> QED BY <4>2, <4>3
    <3> QED BY <3>2, <3>3
  <2>8. CASE b \in strong /\ k = [rssi |-> 2, age |-> 0, ch |-> 0]
    BY <2>7, <2>8 DEF old, new
  <2>9. CASE b \notin strong /\ k = [rssi |-> 1, age |-> 0, ch |-> 0]
    BY <2>7, <2>9 DEF old, new
  <2> QED BY <2>4, <2>6, <2>8, <2>9
<1>9. ASSUME NEW m \in Macs
      PROVE  LET old == sweep.stas[m]  new == sweep'.stas[m]  t == sweep'.talk[m] IN
             /\ new # Nil => new \in Station /\ new.age <= sweep.age
             /\ t = Nil => new = Nil
             /\ t \in Bssids => new # Nil /\ new.bssid = t
             /\ t \in Bssids \cup {"blank", Nil}
  <2> DEFINE old == sweep.stas[m]
             new == sweep'.stas[m]
             t == sweep'.talk[m]
             k == cap.stas[m]
  <2>1. new = mergeStation(old, k)
    BY <1>4
  <2>2. t = IF m \in probes THEN "blank" ELSE IF m \in heard THEN assoc[m] ELSE sweep.talk[m]
    BY <1>4
  <2>3. k = IF m \in probes THEN [bssid |-> Nil, age |-> 0]
            ELSE IF m \in heard THEN [bssid |-> assoc[m], age |-> 0] ELSE Nil
    BY <1>1
  <2>4. m \in heard => assoc[m] \in Bssids
    BY DEF heard, own
  <2>5. old # Nil => old \in Station /\ old.age <= sweep.age
    BY <1>6
  <2>6. /\ sweep.talk[m] = Nil => old = Nil
        /\ sweep.talk[m] \in Bssids => old # Nil /\ old.bssid = sweep.talk[m]
        /\ sweep.talk[m] \in Bssids \cup {"blank", Nil}
    BY <1>2, <1>3, Fields DEF SightInv, Talked
  <2> HIDE DEF old, new, t, k
  <2>7. CASE m \notin probes /\ m \notin heard
    BY <2>1, <2>2, <2>3, <2>5, <2>6, <2>7 DEF mergeStation, old, new, t
  <2>8. ASSUME NEW c \in Bssids \cup {Nil}, k = [bssid |-> c, age |-> 0],
               (c = Nil /\ t = "blank") \/ (c \in Bssids /\ t = c)
        PROVE  /\ new # Nil => new \in Station /\ new.age <= sweep.age
               /\ t = Nil => new = Nil
               /\ t \in Bssids => new # Nil /\ new.bssid = t
               /\ t \in Bssids \cup {"blank", Nil}
    <3>1. k \in Station /\ k # Nil /\ k.bssid = c /\ k.age = 0
      BY <2>8 DEF Station
    <3>2. CASE old = Nil
      <4>1. new = k
        BY <2>1, <3>1, <3>2 DEF mergeStation
      <4> QED BY <1>7, <2>8, <3>1, <4>1
    <3>3. CASE old # Nil
      <4>1. new = [bssid |-> IF c # Nil THEN c ELSE old.bssid, age |-> 0]
        BY <2>1, <3>1, <3>3 DEF mergeStation
      <4>2. old.bssid \in Bssids \cup {Nil}
        BY <2>5, <3>3 DEF Station
      <4>3. new \in Station /\ new.age = 0 /\ (c # Nil => new.bssid = c)
        BY <4>1, <4>2 DEF Station
      <4> QED BY <1>7, <2>8, <4>3
    <3> QED BY <3>2, <3>3
  <2>9. CASE m \in probes
    BY <2>2, <2>3, <2>8, <2>9 DEF new, t
  <2>10. CASE m \notin probes /\ m \in heard
    BY <2>2, <2>3, <2>4, <2>8, <2>10 DEF new, t
  <2> QED BY <2>7, <2>9, <2>10
<1>10. sweep' \in Sweep
  <2>1. sweep'.nets \in [Bssids -> Network \cup {Nil}]
    <3>1. sweep'.nets = [b \in Bssids |-> sweep'.nets[b]]
      BY <1>4
    <3> QED BY <1>8, <3>1
  <2>2. sweep'.stas \in [Macs -> Station \cup {Nil}]
    <3>1. sweep'.stas = [m \in Macs |-> sweep'.stas[m]]
      BY <1>4
    <3> QED BY <1>9, <3>1
  <2>3. sweep'.talk \in [Macs -> Bssids \cup {"blank", Nil}]
    <3>1. sweep'.talk = [m \in Macs |-> sweep'.talk[m]]
      BY <1>4
    <3> QED BY <1>9, <3>1
  <2>4. sweep'.todo \subseteq Nat /\ sweep'.full \in BOOLEAN /\ sweep'.age \in Nat
        /\ sweep'.dull \subseteq Bssids
    BY <1>3, <1>4, Fields
  <2> QED BY <1>4, <2>1, <2>2, <2>3, <2>4 DEF Sweep
<1>11. SightTyped'
  BY <1>2, <1>10 DEF SightInv, SightTyped
<1>12. SweepFresh'
  <2>1. result' = Nil /\ sweep'.age <= Dwell /\ (~sweep'.full => state' # Nil)
    BY <1>2, <1>4 DEF SightInv, SweepFresh
  <2>2. \A b \in Bssids : sweep'.nets[b] # Nil =>
             /\ sweep'.nets[b].age <= sweep'.age
             /\ sweep'.nets[b].rssi = 2 => sweep'.nets[b].ch = chan'[b]
    BY <1>2, <1>4, <1>8
  <2>3. \A m \in Macs : sweep'.stas[m] # Nil => sweep'.stas[m].age <= sweep'.age
    BY <1>4, <1>9
  <2> QED BY <2>1, <2>2, <2>3 DEF SweepFresh
<1>13. Watched' /\ Recalled'
  BY <1>2 DEF SightInv, Watched, Recalled
<1>14. Listened'
  <2> SUFFICES ASSUME NEW b \in Bssids \ sweep'.dull, onFor[b] # Nil, onFor[b] > sweep.age,
                      sweep.full \/ chan[b] \in state.chans
               PROVE  chan[b] \in sweep'.todo \/ (sweep'.nets[b] # Nil /\ sweep'.nets[b].rssi = 2)
    BY <1>2, <1>4 DEF Listened
  <2>1. chan[b] \in sweep.todo \/ (sweep.nets[b] # Nil /\ sweep.nets[b].rssi = 2)
    BY <1>2, <1>4 DEF SightInv, Listened
  <2>2. chan[b] = ch => b \in strong
    BY <1>4 DEF own, strong
  <2> QED BY <1>4, <1>8, <2>1, <2>2
<1>15. Narrowed'
  BY <1>2, <1>4 DEF SightInv, Narrowed
<1>16. Talked'
  BY <1>9 DEF Talked
<1> QED BY <1>11, <1>12, <1>13, <1>14, <1>15, <1>16 DEF SightInv

(* The state before the end of a sweep, or an empty one. *)
Before == IF state = Nil
          THEN [nets |-> Empty(Bssids), stas |-> Empty(Macs), chans |-> {}, full |-> 0]
          ELSE state

(* The stations a sweep lists. *)
Spotted(listStas) == [m \in Macs |-> IF m \notin listStas THEN Nil ELSE sweep.stas[m]]

(* What it then retains of a station. *)
KeptOf(listStas, m) ==
    IF m \in listStas THEN sweep.stas[m]
    ELSE IF Before.stas[m] # Nil /\ ~expired(Before.stas[m]) THEN Before.stas[m] ELSE Nil

(* What the end of a sweep keeps: the sightings listed are young enough to *)
(* stay, and replace what was retained.                                    *)
Ended(listNets, listStas) ==
    /\ sweep \in Sweep /\ sweep.todo = {} /\ Before \in wlanPassiveState
    /\ sweep' = Nil /\ UNCHANGED <<chan, onFor, assoc>>
    /\ state' \in wlanPassiveState
    /\ \A b \in listNets : sweep.nets[b] # Nil
    /\ \A m \in listStas : sweep.stas[m] # Nil
    /\ deaf' = (deaf \ {b \in listNets : sweep.nets[b].ch = chan[b]})
                  \cup sweep.dull \cup (Known(sweep.nets) \ listNets)
    /\ cut' = (cut \cup Known(sweep.stas)) \ listStas
    /\ \A b \in listNets :
          state'.nets[b] # Nil /\ state'.nets[b].ch = sweep.nets[b].ch
    /\ \A b \in Bssids : state'.nets[b] # Nil => state'.nets[b].ch \in state'.chans
    /\ state'.full = IF sweep.full THEN 0 ELSE Before.full
    /\ \A m \in Macs : state'.stas[m] = KeptOf(listStas, m)
    /\ \A m \in Macs : met'[m] = IF sweep.talk[m] # Nil THEN sweep.talk[m]
                                 ELSE IF state'.stas[m] = Nil THEN Nil ELSE met[m]
    /\ met' = [m \in Macs |-> met'[m]]
    /\ result'.networks = Known(state'.nets)
    /\ result'.roams = roamEvents(Before.stas, Spotted(listStas))
                         \cup disconnects(merged(Before.stas, Spotted(listStas)))

(* And so it does. *)
LEMMA EndKeeps ==
  ASSUME SightInv, NEW listNets \in SUBSET Bssids, NEW listStas \in SUBSET Macs,
         EndSweep(listNets, listStas)
  PROVE  Ended(listNets, listStas)
<1> USE SightBounds, SightNil
<1> DEFINE old == Before
           seen == [b \in Bssids |-> IF b \notin listNets THEN Nil
                                     ELSE [ch |-> sweep.nets[b].ch, age |-> sweep.nets[b].age]]
           spotted == Spotted(listStas)
           allStas == merged(old.stas, spotted)
           nets == kept(merged(old.nets, seen))
           chans == extractInterestingChannels(nets)
<1>1. /\ sweep # Nil /\ sweep.todo = {}
      /\ state' = [nets |-> nets, stas |-> kept(allStas),
                   chans |-> IF chans = {} THEN old.chans ELSE chans,
                   full |-> IF sweep.full THEN 0 ELSE old.full]
      /\ result' = wlanPassiveResult(nets, kept(allStas),
                        roamEvents(old.stas, spotted) \cup disconnects(allStas))
      /\ sweep' = Nil
      /\ met' = [m \in Macs |-> IF sweep.talk[m] # Nil THEN sweep.talk[m]
                                ELSE IF kept(allStas)[m] = Nil THEN Nil ELSE met[m]]
      /\ UNCHANGED <<chan, onFor, assoc>>
      /\ listNets \subseteq Known(sweep.nets) /\ listStas \subseteq Known(sweep.stas)
      /\ deaf' = (deaf \ {b \in listNets : sweep.nets[b].ch = chan[b]})
                    \cup sweep.dull \cup (Known(sweep.nets) \ listNets)
      /\ cut' = (cut \cup Known(sweep.stas)) \ listStas
  BY DEF EndSweep, Before, Spotted
<1>2. sweep \in Sweep
  BY <1>1 DEF SightInv, SightTyped
<1>3. Before \in wlanPassiveState
  <2>1. CASE state = Nil
    BY <2>1 DEF Before, wlanPassiveState, Empty
  <2>2. CASE state # Nil
    BY <2>2 DEF Before, SightInv, SightTyped
  <2> QED BY <2>1, <2>2
<1>4. /\ \A b \in Bssids : sweep.nets[b] # Nil => sweep.nets[b] \in Network /\ sweep.nets[b].age <= Retention
      /\ \A m \in Macs : sweep.stas[m] # Nil => sweep.stas[m] \in Station /\ sweep.stas[m].age <= Retention
  <2>1. sweep.age \in Nat /\ sweep.age <= Retention
    BY <1>1, <1>2, Fields DEF SightInv, SweepFresh
  <2>2. ASSUME NEW b \in Bssids, sweep.nets[b] # Nil
        PROVE  sweep.nets[b] \in Network /\ sweep.nets[b].age <= Retention
    <3>1. sweep.nets[b] \in Network /\ sweep.nets[b].age <= sweep.age
      BY <1>1, <1>2, <2>2, Fields DEF SightInv, SweepFresh
    <3> QED BY <2>1, <3>1 DEF Network
  <2>3. ASSUME NEW m \in Macs, sweep.stas[m] # Nil
        PROVE  sweep.stas[m] \in Station /\ sweep.stas[m].age <= Retention
    <3>1. sweep.stas[m] \in Station /\ sweep.stas[m].age <= sweep.age
      BY <1>1, <1>2, <2>3, Fields DEF SightInv, SweepFresh
    <3> QED BY <2>1, <3>1 DEF Station
  <2> QED BY <2>2, <2>3
<1>0. /\ \A b \in listNets : sweep.nets[b] # Nil
      /\ \A m \in listStas : sweep.stas[m] # Nil
      /\ \A m \in Macs : spotted[m] = IF m \in listStas THEN sweep.stas[m] ELSE Nil
  BY <1>1 DEF Known, Spotted
<1> HIDE DEF old, spotted
<1>5. old = Before
  BY DEF old
<1>6. /\ old.nets \in [Bssids -> Retained \cup {Nil}] /\ old.stas \in [Macs -> Station \cup {Nil}]
      /\ old.chans \subseteq Nat /\ old.full \in Nat
  BY <1>3, <1>5, Fields
<1>7. ASSUME NEW b \in Bssids
      PROVE  /\ nets[b] \in Retained \cup {Nil}
             /\ b \in listNets => nets[b] # Nil /\ nets[b].ch = sweep.nets[b].ch
  <2>1. merged(old.nets, seen)[b] = IF seen[b] # Nil THEN seen[b] ELSE old.nets[b]
    BY <1>6 DEF merged
  <2>2. nets[b] = IF merged(old.nets, seen)[b] # Nil /\ ~expired(merged(old.nets, seen)[b])
                  THEN merged(old.nets, seen)[b] ELSE Nil
    BY <1>6 DEF kept, merged
  <2>3. CASE b \notin listNets
    <3>1. seen[b] = Nil
      BY <2>3
    <3> QED BY <1>6, <2>1, <2>2, <2>3, <3>1
  <2>4. CASE b \in listNets
    <3>1. seen[b] = [ch |-> sweep.nets[b].ch, age |-> sweep.nets[b].age]
      BY <2>4
    <3>2. seen[b] \in Retained /\ seen[b].age <= Retention /\ seen[b].ch = sweep.nets[b].ch
      BY <1>0, <1>4, <2>4, <3>1 DEF Network, Retained
    <3>3. seen[b].age \in Nat
      BY <3>2 DEF Retained
    <3>4. ~expired(seen[b]) /\ seen[b] # Nil
      BY <3>2, <3>3 DEF expired
    <3> QED BY <2>1, <2>2, <3>2, <3>4
  <2> QED BY <2>3, <2>4
<1>8. nets \in [Bssids -> Retained \cup {Nil}]
  <2>1. nets = [b \in Bssids |-> nets[b]]
    BY <1>6 DEF kept, merged
  <2> QED BY <1>7, <2>1
<1>9. ASSUME NEW m \in Macs
      PROVE  /\ kept(allStas)[m] = IF m \in listStas THEN sweep.stas[m]
                                   ELSE IF old.stas[m] # Nil /\ ~expired(old.stas[m]) THEN old.stas[m] ELSE Nil
             /\ kept(allStas)[m] \in Station \cup {Nil}
  <2>1. allStas[m] = IF m \in listStas THEN sweep.stas[m] ELSE old.stas[m]
    BY <1>0, <1>6 DEF merged
  <2>2. kept(allStas)[m] = IF allStas[m] # Nil /\ ~expired(allStas[m]) THEN allStas[m] ELSE Nil
    BY <1>6 DEF kept, merged
  <2>3. sweep.stas[m] # Nil => ~expired(sweep.stas[m])
    BY <1>4 DEF expired, Station
  <2>4. sweep.stas[m] \in Station \cup {Nil} /\ old.stas[m] \in Station \cup {Nil}
    BY <1>2, <1>6, Fields
  <2> QED BY <1>0, <2>1, <2>2, <2>3, <2>4
<1>10. kept(allStas) \in [Macs -> Station \cup {Nil}]
  <2>1. kept(allStas) = [m \in Macs |-> kept(allStas)[m]]
    BY <1>6 DEF kept, merged
  <2> QED BY <1>9, <2>1
<1>11. chans \subseteq Nat /\ \A b \in Bssids : nets[b] # Nil => nets[b].ch \in chans
  BY <1>8 DEF extractInterestingChannels, Known, Retained
<1> HIDE DEF nets, allStas, chans
<1>12. /\ state'.nets = nets /\ state'.stas = kept(allStas)
       /\ state'.chans = (IF chans = {} THEN old.chans ELSE chans)
       /\ state'.full = IF sweep.full THEN 0 ELSE old.full
       /\ state' = [nets |-> state'.nets, stas |-> state'.stas, chans |-> state'.chans, full |-> state'.full]
  BY <1>1
<1>13. state' \in wlanPassiveState
  <2>1. state'.chans \subseteq Nat /\ state'.full \in Nat
    BY <1>6, <1>11, <1>12
  <2> QED BY <1>8, <1>10, <1>12, <2>1 DEF wlanPassiveState
<1>14. \A b \in Bssids : state'.nets[b] # Nil => state'.nets[b].ch \in state'.chans
  BY <1>11, <1>12
<1>15. result'.networks = Known(nets) /\ result'.roams = roamEvents(old.stas, spotted) \cup disconnects(allStas)
  BY <1>1 DEF wlanPassiveResult
<1>16. /\ \A m \in Macs : met'[m] = IF sweep.talk[m] # Nil THEN sweep.talk[m]
                                    ELSE IF state'.stas[m] = Nil THEN Nil ELSE met[m]
       /\ met' = [m \in Macs |-> met'[m]]
  BY <1>1, <1>12
<1>18. /\ \A b \in listNets :
               state'.nets[b] # Nil /\ state'.nets[b].ch = sweep.nets[b].ch
       /\ \A m \in Macs : state'.stas[m] = KeptOf(listStas, m)
  BY <1>5, <1>7, <1>9, <1>12 DEF KeptOf
<1>19. result'.networks = Known(state'.nets)
       /\ result'.roams = roamEvents(Before.stas, Spotted(listStas))
                              \cup disconnects(merged(Before.stas, Spotted(listStas)))
  BY <1>5, <1>12, <1>15 DEF allStas, spotted
<1>20. state'.full = IF sweep.full THEN 0 ELSE Before.full
  BY <1>5, <1>12
<1> QED BY <1>0, <1>1, <1>2, <1>3, <1>13, <1>14, <1>16, <1>18, <1>19, <1>20 DEF Ended

(* What was retained of a station is what it was last heard with.          *)
LEMMA LastHeard ==
  ASSUME SightInv, NEW m \in Macs \ cut
  PROVE  /\ met[m] = Nil => Before.stas[m] = Nil
         /\ met[m] \in Bssids => Before.stas[m] # Nil /\ Before.stas[m].bssid = met[m]
<1>1. CASE state = Nil
  <2>1. Before.stas[m] = Nil
    BY <1>1 DEF Before, Empty
  <2> QED BY <1>1, <2>1, SightNil DEF SightInv, Recalled
<1>2. CASE state # Nil
  <2>1. Before = state
    BY <1>2 DEF Before
  <2>2. /\ met[m] = Nil => state.stas[m] = Nil
        /\ met[m] \in Bssids => state.stas[m] # Nil /\ state.stas[m].bssid = met[m]
    <3>1. Recalled
      BY DEF SightInv
    <3> QED BY <1>2, <3>1, Zenon DEF Recalled
  <2> QED BY <2>1, <2>2
<1> QED BY <1>1, <1>2

(* A sweep ends: the channels of what it lists are the ones of interest.   *)
LEMMA EndStep ==
  ASSUME SightInv, NEW listNets \in SUBSET Bssids, NEW listStas \in SUBSET Macs,
         EndSweep(listNets, listStas)
  PROVE  SightInv'
<1> USE SightBounds, SightNil
<1>8. Ended(listNets, listStas)
  BY EndKeeps
<1>1. /\ sweep \in Sweep /\ sweep.todo = {} /\ Before \in wlanPassiveState
      /\ sweep' = Nil /\ UNCHANGED <<chan, onFor, assoc>> /\ state' \in wlanPassiveState
      /\ state'.full = IF sweep.full THEN 0 ELSE Before.full
      /\ \A b \in listNets :
            state'.nets[b] # Nil /\ state'.nets[b].ch = sweep.nets[b].ch
      /\ \A b \in Bssids : state'.nets[b] # Nil => state'.nets[b].ch \in state'.chans
  BY <1>8 DEF Ended
<1>2. /\ \A m \in Macs : state'.stas[m] = KeptOf(listStas, m)
      /\ \A m \in Macs : met'[m] = IF sweep.talk[m] # Nil THEN sweep.talk[m]
                                   ELSE IF state'.stas[m] = Nil THEN Nil ELSE met[m]
      /\ met' = [m \in Macs |-> met'[m]]
  BY <1>8 DEF Ended
<1>0. /\ \A m \in listStas : sweep.stas[m] # Nil
      /\ deaf' = (deaf \ {b \in listNets : sweep.nets[b].ch = chan[b]})
                    \cup sweep.dull \cup (Known(sweep.nets) \ listNets)
      /\ cut' = (cut \cup Known(sweep.stas)) \ listStas
  BY <1>8 DEF Ended
<1>3. sweep # Nil /\ sweep.age \in Nat /\ sweep.age <= Dwell /\ (~sweep.full => state # Nil)
  BY <1>1, Fields DEF SightInv, SweepFresh
<1>4. SightTyped'
  <2>1. \A m \in Macs : met'[m] \in Bssids \cup {"blank", Nil}
    BY <1>1, <1>2, Fields DEF SightInv, SightTyped
  <2>2. met' \in [Macs -> Bssids \cup {"blank", Nil}]
    BY <1>2, <2>1
  <2>3. Known(sweep.nets) \subseteq Bssids /\ Known(sweep.stas) \subseteq Macs
    BY <1>1, Fields DEF Known
  <2>4. deaf' \subseteq Bssids /\ cut' \subseteq Macs
    BY <1>0, <1>1, <2>3, Fields DEF SightInv, SightTyped
  <2> QED BY <1>1, <2>2, <2>4 DEF SightInv, SightTyped
<1>5. SweepFresh' /\ Listened' /\ Narrowed' /\ Talked'
  BY <1>1 DEF SweepFresh, Listened, Narrowed, Talked
<1>6. Watched'
  <2> SUFFICES ASSUME state'.full < Retention, NEW b \in Bssids \ deaf', onFor[b] # Nil,
                      onFor[b] > state'.full + Dwell
               PROVE  chan[b] \in state'.chans
    BY <1>1 DEF Watched
  <2>0. CASE b \in listNets /\ sweep.nets[b].ch = chan[b]
    BY <1>1, <2>0
  <2>9. SUFFICES ASSUME ~ (b \in listNets /\ sweep.nets[b].ch = chan[b]) PROVE FALSE
    BY <2>0
  <2>8. b \notin deaf /\ b \notin sweep.dull /\ (sweep.nets[b] # Nil => b \in listNets)
    <3>1. sweep.nets[b] # Nil => b \in Known(sweep.nets)
      BY <1>1, Fields DEF Known
    <3> QED BY <1>0, <2>9, <3>1
  <2>1. onFor[b] \in Nat /\ state'.full \in Nat
    BY <1>1, Fields DEF SightInv, SightTyped
  <2>2. onFor[b] > sweep.age
    BY <1>3, <2>1
  <2>3. sweep.full \/ chan[b] \in state.chans
    <3> SUFFICES ASSUME ~sweep.full PROVE chan[b] \in state.chans
      OBVIOUS
    <3>1. state # Nil /\ state'.full = state.full
      BY <1>1, <1>3 DEF Before
    <3> QED BY <2>8, <3>1 DEF SightInv, Watched
  <2>4. sweep.nets[b] # Nil /\ sweep.nets[b].rssi = 2
    BY <1>1, <1>3, <2>2, <2>3, <2>8 DEF SightInv, Listened
  <2>5. sweep.nets[b].ch = chan[b]
    BY <1>3, <2>4 DEF SightInv, SweepFresh
  <2> QED BY <2>4, <2>5, <2>8, <2>9
<1>7. Recalled'
  <2> SUFFICES ASSUME NEW m \in Macs \ cut'
               PROVE  /\ met'[m] = Nil => state'.stas[m] = Nil
                      /\ met'[m] \in Bssids => state'.stas[m] # Nil /\ state'.stas[m].bssid = met'[m]
    BY <1>1 DEF Recalled
  <2>1. /\ sweep.talk[m] = Nil => sweep.stas[m] = Nil
        /\ sweep.talk[m] \in Bssids => sweep.stas[m] # Nil /\ sweep.stas[m].bssid = sweep.talk[m]
        /\ sweep.talk[m] \in Bssids \cup {"blank", Nil}
    BY <1>1, <1>3, Fields DEF SightInv, Talked
  <2>2. m \in listStas \/ (m \notin cut /\ sweep.stas[m] = Nil)
    <3>1. sweep.stas[m] # Nil => m \in Known(sweep.stas)
      BY <1>1, Fields DEF Known
    <3> QED BY <1>0, <3>1
  <2>3. CASE m \in listStas
    <3>1. sweep.stas[m] # Nil /\ state'.stas[m] = sweep.stas[m]
      BY <1>0, <1>2, <2>3 DEF KeptOf
    <3> QED BY <1>2, <2>1, <3>1
  <2>4. CASE m \notin listStas /\ m \notin cut /\ sweep.stas[m] = Nil
    <3>1. /\ met[m] = Nil => Before.stas[m] = Nil
          /\ met[m] \in Bssids => Before.stas[m] # Nil /\ Before.stas[m].bssid = met[m]
      BY <2>4, LastHeard
    <3> QED BY <1>2, <2>1, <2>4, <3>1 DEF KeptOf
  <2> QED BY <2>2, <2>3, <2>4
<1> QED BY <1>4, <1>5, <1>6, <1>7 DEF SightInv

(* Every step. *)
LEMMA SightStep == SightInv /\ [SightNext]_sightVars => SightInv'
<1> SUFFICES ASSUME SightInv, [SightNext]_sightVars PROVE SightInv'
  OBVIOUS
<1>1. CASE ClockTick
  BY <1>1, ClockStep
<1>2. ASSUME NEW b \in Bssids, TurnsOn(b) \/ TurnsOff(b) \/ \E m \in Macs : Associates(m, b) PROVE SightInv'
  BY <1>2, TurnStep
<1>3. ASSUME NEW list \in SUBSET Channels, StartSweep(list) PROVE SightInv'
  BY <1>3, StartStep
<1>4. CASE SenseFails
  BY <1>4, FailStep
<1>5. ASSUME NEW nets \in SUBSET Bssids, NEW stas \in SUBSET Macs, EndSweep(nets, stas) PROVE SightInv'
  BY <1>5, EndStep
<1>6. ASSUME NEW ch \in Channels, SkipChannel(ch) PROVE SightInv'
  BY <1>6, SkipStep
<1>7. ASSUME NEW ch \in Channels, NEW leaks \in {{}} \cup {{b} : b \in Bssids}, NEW talks \in SUBSET Macs,
             NEW probes \in SUBSET Macs, NEW missed \in SUBSET Bssids,
             Capture(ch, leaks, talks, probes, missed)
      PROVE  SightInv'
  <2>1. leaks \in SUBSET Bssids
    OBVIOUS
  <2> QED BY <1>7, <2>1, CaptureStep
<1>8. CASE UNCHANGED sightVars
  BY <1>8 DEF sightVars, airVars, seenVars, SightInv, SightTyped, SweepFresh, Watched, Listened, Narrowed,
              Talked, Recalled
<1> QED BY <1>1, <1>2, <1>3, <1>4, <1>5, <1>6, <1>7, <1>8 DEF SightNext

(* Always, the retained sightings and the channels of interest say what    *)
(* the two properties below need of them.                                  *)
THEOREM SightInvariant == SightSpec => []SightInv
BY SightStart, SightStep, PTL DEF SightSpec

(* A result only comes of the end of a sweep. *)
LEMMA OnlyEnds ==
  ASSUME SightInv, SightNext, SweepEnds
  PROVE  \E nets \in SUBSET Bssids, stas \in SUBSET Macs : EndSweep(nets, stas)
<1>1. sweep # Nil /\ result = Nil /\ result' # Nil
  BY DEF SweepEnds, SightInv, SweepFresh
<1>2. ~ClockTick /\ ~SenseFails /\ \A list : ~StartSweep(list)
  BY <1>1 DEF ClockTick, StartSweep, SenseFails
<1>3. \A b \in Bssids : ~TurnsOn(b) /\ ~TurnsOff(b) /\ \A m \in Macs : ~Associates(m, b)
  BY <1>1 DEF TurnsOn, TurnsOff, Associates, AirChanges
<1>4. \A ch \in Channels : ~SkipChannel(ch)
  BY <1>1 DEF SkipChannel
<1>5. \A ch, leaks, talks, probes, missed : ~Capture(ch, leaks, talks, probes, missed)
  BY <1>1 DEF Capture
<1> QED BY <1>2, <1>3, <1>4, <1>5 DEF SightNext

(* A narrowed sweep never hides an access point for good, for any number   *)
(* of access points and channels and any retention, unless some sweep      *)
(* missed it and none has found it on its channel since: the re-scan that  *)
(* fullSweepDue asks for is always in time.                                *)
THEOREM NarrowedSweepsFind == SightSpec => NewNetworkFound
<1> DEFINE Finds == SweepEnds =>
                       \A b \in Bssids \ deaf' :
                          onFor[b] # Nil /\ onFor[b] - sweep.age >= Retention + Dwell
                             => b \in result'.networks
<1>1. SightInv /\ [SightNext]_sightVars => [Finds]_sightVars
  <2> SUFFICES ASSUME SightInv, SightNext, SweepEnds, NEW b \in Bssids \ deaf', onFor[b] # Nil,
                      onFor[b] - sweep.age >= Retention + Dwell
               PROVE  b \in result'.networks
    OBVIOUS
  <2>1. PICK listNets \in SUBSET Bssids, listStas \in SUBSET Macs : EndSweep(listNets, listStas)
    BY OnlyEnds
  <2>19. Ended(listNets, listStas)
    BY <2>1, EndKeeps
  <2>2. sweep \in Sweep /\ sweep.todo = {} /\ result'.networks = Known(state'.nets)
        /\ state' \in wlanPassiveState /\ (b \in listNets => state'.nets[b] # Nil)
        /\ deaf' = (deaf \ {x \in listNets : sweep.nets[x].ch = chan[x]})
                      \cup sweep.dull \cup (Known(sweep.nets) \ listNets)
    BY <2>19 DEF Ended
  <2>3. sweep # Nil /\ sweep.age \in Nat
    BY <2>2, Fields DEF SweepEnds
  <2>4. onFor[b] \in Nat /\ onFor[b] > sweep.age
    BY <2>3, SightBounds DEF SightInv, SightTyped
  <2>5. b \in listNets
    <3> SUFFICES ASSUME b \notin listNets PROVE FALSE
      OBVIOUS
    <3>1. b \notin deaf /\ b \notin sweep.dull /\ b \notin Known(sweep.nets)
      BY <2>2
    <3>2. sweep.full \/ chan[b] \in state.chans
      BY <2>3, <3>1 DEF SightInv, Narrowed
    <3>3. sweep.nets[b] # Nil
      BY <2>2, <2>3, <2>4, <3>1, <3>2 DEF SightInv, Listened
    <3> QED BY <2>2, <3>1, <3>3, Fields DEF Known
  <2> QED BY <2>2, <2>5, Fields DEF Known
<1> QED BY <1>1, SightInvariant, PTL DEF SightSpec, NewNetworkFound

(* The roaming events of a result are the station's moves between access   *)
(* points, each once: what mergeWlanRetained compares is what the station  *)
(* was last heard with, whatever was retained or dropped in between, as    *)
(* long as the station is in the list of every sweep that hears it.        *)
THEOREM EventsAreMoves == SightSpec => RoamsAreMoves
<1> DEFINE Moves(m) == IF met[m] # Nil /\ met'[m] # met[m]
                       THEN {[mac |-> m, from |-> met[m], to |-> met'[m]]} ELSE {}
           Tells == SweepEnds =>
                       \A m \in Macs \ (cut \cup cut') : met[m] # "blank" /\ met'[m] # "blank" =>
                          {e \in result'.roams : e.mac = m} =
                             IF met[m] # Nil /\ met'[m] # met[m]
                             THEN {[mac |-> m, from |-> met[m], to |-> met'[m]]} ELSE {}
<1>1. SightInv /\ [SightNext]_sightVars => [Tells]_sightVars
  <2> SUFFICES ASSUME SightInv, SightNext, SweepEnds, NEW m \in Macs \ (cut \cup cut'),
                      met[m] # "blank", met'[m] # "blank"
               PROVE  {e \in result'.roams : e.mac = m} = Moves(m)
    OBVIOUS
  <2> USE SightNil
  <2>1. PICK listNets \in SUBSET Bssids, listStas \in SUBSET Macs : EndSweep(listNets, listStas)
    BY OnlyEnds
  <2>19. Ended(listNets, listStas)
    BY <2>1, EndKeeps
  <2>15. /\ sweep \in Sweep /\ Before \in wlanPassiveState
         /\ \A x \in listStas : sweep.stas[x] # Nil
         /\ cut' = (cut \cup Known(sweep.stas)) \ listStas
    BY <2>19 DEF Ended
  <2>16. \A x \in Macs : state'.stas[x] = KeptOf(listStas, x)
    BY <2>19 DEF Ended
  <2>18. \A x \in Macs : met'[x] = IF sweep.talk[x] # Nil THEN sweep.talk[x]
                                   ELSE IF state'.stas[x] = Nil THEN Nil ELSE met[x]
    BY <2>19 DEF Ended
  <2>17. result'.roams = roamEvents(Before.stas, Spotted(listStas))
                           \cup disconnects(merged(Before.stas, Spotted(listStas)))
    BY <2>19 DEF Ended
  <2> DEFINE old == Before.stas
             new == Spotted(listStas)
             all == merged(old, new)
             ev(f, t) == [mac |-> m, from |-> f, to |-> t]
  <2>0. /\ sweep \in Sweep /\ Before \in wlanPassiveState
        /\ \A x \in listStas : sweep.stas[x] # Nil
        /\ cut' = (cut \cup Known(sweep.stas)) \ listStas
        /\ state'.stas[m] = IF m \in listStas THEN sweep.stas[m]
               ELSE IF Before.stas[m] # Nil /\ ~expired(Before.stas[m]) THEN Before.stas[m] ELSE Nil
        /\ met'[m] = IF sweep.talk[m] # Nil THEN sweep.talk[m]
                     ELSE IF state'.stas[m] = Nil THEN Nil ELSE met[m]
        /\ result'.roams = roamEvents(old, new) \cup disconnects(all)
    BY <2>15, <2>16, <2>17, <2>18 DEF KeptOf
  <2>14. new[m] = sweep.stas[m] /\ (m \in listStas <=> sweep.stas[m] # Nil)
    <3>1. sweep.stas[m] # Nil => m \in Known(sweep.stas)
      BY <2>0, Fields DEF Known
    <3> QED BY <2>0, <3>1 DEF Spotted
  <2>2. /\ sweep \in Sweep /\ Before \in wlanPassiveState
        /\ state'.stas[m] = IF new[m] # Nil THEN new[m]
               ELSE IF old[m] # Nil /\ ~expired(old[m]) THEN old[m] ELSE Nil
        /\ met'[m] = IF sweep.talk[m] # Nil THEN sweep.talk[m]
                     ELSE IF state'.stas[m] = Nil THEN Nil ELSE met[m]
        /\ result'.roams = roamEvents(old, new) \cup disconnects(all)
    BY <2>0, <2>14
  <2>3. old \in [Macs -> Station \cup {Nil}] /\ new \in [Macs -> Station \cup {Nil}]
    BY <2>2, Fields DEF Spotted
  <2>4. new[m] # Nil => ~expired(new[m])
    <3> SUFFICES ASSUME new[m] # Nil PROVE ~ (new[m].age > Retention)
      BY DEF expired
    <3>1. new[m].age <= sweep.age /\ sweep.age <= Dwell
      BY <2>14 DEF SweepEnds, SightInv, SweepFresh
    <3>2. new[m].age \in Nat /\ sweep.age \in Nat
      BY <2>2, <2>3, Fields DEF Station
    <3> QED BY <3>1, <3>2, SightBounds
  <2>5. /\ sweep.talk[m] = Nil => new[m] = Nil
        /\ sweep.talk[m] \in Bssids => new[m] # Nil /\ new[m].bssid = sweep.talk[m]
        /\ sweep.talk[m] \in Bssids \cup {"blank", Nil}
    BY <2>2, <2>14, Fields DEF SweepEnds, SightInv, Talked
  <2>6. /\ met[m] = Nil => old[m] = Nil
        /\ met[m] \in Bssids => old[m] # Nil /\ old[m].bssid = met[m]
        /\ met[m] \in Bssids \cup {Nil}
    BY LastHeard DEF SightInv, SightTyped
  <2> HIDE DEF old, new
  <2>7. {e \in roamEvents(old, new) : e.mac = m} =
           IF old[m] # Nil /\ new[m] # Nil /\ old[m].bssid # Nil /\ new[m].bssid # Nil
              /\ old[m].bssid # new[m].bssid
           THEN {ev(old[m].bssid, new[m].bssid)} ELSE {}
    BY <2>3 DEF roamEvents, Known
  <2>8. all[m] = (IF new[m] # Nil THEN new[m] ELSE old[m]) /\ DOMAIN all = Macs
    BY <2>3 DEF merged
  <2> HIDE DEF all
  <2>9. {e \in disconnects(all) : e.mac = m} =
           IF all[m] # Nil /\ all[m].bssid # Nil /\ expired(all[m]) THEN {ev(all[m].bssid, Nil)} ELSE {}
    BY <2>8 DEF disconnects, Known
  <2>10. {e \in result'.roams : e.mac = m} =
            {e \in roamEvents(old, new) : e.mac = m} \cup {e \in disconnects(all) : e.mac = m}
    BY <2>2
  <2>11. CASE sweep.talk[m] \in Bssids
    <3>1. met'[m] = sweep.talk[m] /\ met'[m] # Nil /\ new[m] # Nil /\ new[m].bssid = met'[m]
      BY <2>2, <2>5, <2>11
    <3>2. {e \in disconnects(all) : e.mac = m} = {}
      BY <2>4, <2>8, <2>9, <3>1
    <3>3. {e \in roamEvents(old, new) : e.mac = m} = Moves(m)
      BY <2>6, <2>7, <3>1
    <3> QED BY <2>10, <3>2, <3>3
  <2>12. CASE sweep.talk[m] = Nil
    <3>1. new[m] = Nil /\ all[m] = old[m]
      BY <2>5, <2>8, <2>12
    <3>2. {e \in roamEvents(old, new) : e.mac = m} = {}
      BY <2>7, <3>1
    <3>3. met'[m] = IF old[m] # Nil /\ ~expired(old[m]) THEN met[m] ELSE Nil
      BY <2>2, <2>12, <3>1 DEF old, new
    <3>4. {e \in disconnects(all) : e.mac = m} = Moves(m)
      BY <2>6, <2>9, <3>1, <3>3
    <3> QED BY <2>10, <3>2, <3>4
  <2>13. sweep.talk[m] # "blank"
    BY <2>2
  <2> QED BY <2>5, <2>11, <2>12, <2>13
<1> QED BY <1>1, SightInvariant, PTL DEF SightSpec, RoamsAreMoves

=============================================================================

--------------------------- MODULE WlanSightings ---------------------------
(***************************************************************************)
(* What a wlan_passive test knows of the air: one sweep after another      *)
(* (internal/probe/wlansense_linux.go), the frames of a sweep folded into  *)
(* networks and stations (wlansense.go), and the sightings retained from   *)
(* sweep to sweep, which decide the channels of the next sweep, the        *)
(* networks reported and the roaming events (internal/agent/scheduler.go). *)
(*                                                                         *)
(* Runs of one test are one after another, by wlanMu (TestRuns).  Of a     *)
(* sighting the model keeps what later sweeps use: channel, BSSID, signal  *)
(* and time.  The access points and stations of the model are those that   *)
(* are followed: there may be others on the air, and enough of them to     *)
(* fill the lists of a sweep.                                              *)
(***************************************************************************)
EXTENDS Integers, Sequences, FiniteSets, SequencesExt

CONSTANTS
    Bssids, Macs,
    Channels,    \* the channels of the radio
    Defaults,    \* those of the common ones that the radio has
    Retention,   \* wlanRetention, in ticks of the clock
    Dwell,       \* bound: ticks one sweep may take, 400 ms a channel
    MaxAir,      \* bound: changes on the air, beacons that leak and sweeps that miss something
    Nil

ASSUME SightBounds ==
    /\ Retention \in Nat \ {0} /\ Dwell \in 0 .. Retention /\ MaxAir \in Nat
    /\ Channels \subseteq Nat \ {0} /\ Defaults \subseteq Channels
    /\ IsFiniteSet(Bssids) /\ IsFiniteSet(Macs)

(* A network and a station of a sweep, and a network retained. *)
Network == [rssi : 1 .. 2, age : Nat, ch : Nat]
Station == [bssid : Bssids \cup {Nil}, age : Nat]
Retained == [ch : Nat, age : Nat]

(* A sweep under way.  Two histories: talk, whom a station was heard       *)
(* talking to, or "blank" when it probed; dull, the access points whose    *)
(* channel was not listened to, or not to the end.                         *)
Sweep == [todo : SUBSET Nat, full : BOOLEAN, age : Nat,
          nets : [Bssids -> Network \cup {Nil}], stas : [Macs -> Station \cup {Nil}],
          talk : [Macs -> Bssids \cup {"blank", Nil}], dull : SUBSET Bssids]

wlanPassiveState == [nets : [Bssids -> Retained \cup {Nil}], stas : [Macs -> Station \cup {Nil}],
                     chans : SUBSET Nat, full : Nat]

ASSUME SightNil ==
    /\ Nil \notin Bssids /\ Nil \notin Macs /\ Nil \notin Nat
    /\ "blank" \notin Bssids \cup {Nil}
    /\ Nil \notin Network \cup Station \cup Retained \cup Sweep \cup wlanPassiveState

(* Times are kept as ages, which stand still where nothing asks any more.  *)
VARIABLES
    chan,     \* the channel of each access point
    onFor,    \* how long it has been on the air, Nil while it is off
    assoc,    \* the access point each station talks to, or Nil
    nair,     \* changes on the air so far
    state,    \* wlanPassiveState of the test, Nil before its first sweep
    sweep,    \* the sweep under way, or Nil
    result,   \* what the last sweep reports, Nil once the next one begins
    deaf,     \* history: the access points a sweep has missed since they were last found
    met,      \* history: the access point each station was last heard with
    cut       \* history: the stations heard but not listed since they were last listed

airVars == <<chan, onFor, assoc, nair>>
seenVars == <<deaf, met, cut>>
sightVars == <<airVars, state, sweep, result, seenVars>>

Empty(S) == [x \in S |-> Nil]
Known(f) == {x \in DOMAIN f : f[x] # Nil}

SightInit ==
    /\ chan \in [Bssids -> Channels]
    /\ onFor \in [Bssids -> {Nil, 0}]
    /\ assoc = Empty(Macs) /\ nair = 0
    /\ state = Nil /\ sweep = Nil /\ result = Nil
    /\ deaf = {} /\ met = Empty(Macs) /\ cut = {}

-----------------------------------------------------------------------------
(* The clock and the air *)

older(age, cap) == IF age < cap THEN age + 1 ELSE age
allOlder(f) == [x \in DOMAIN f |-> IF f[x] = Nil THEN Nil
                                   ELSE [f[x] EXCEPT !.age = older(@, Retention + 1)]]

ClockTick ==
    /\ sweep # Nil => sweep.age < Dwell
    /\ onFor' = [b \in Bssids |-> IF onFor[b] = Nil THEN Nil
                                   ELSE older(onFor[b], Retention + 2 * Dwell)]
    /\ state' = IF state = Nil THEN Nil
                ELSE [state EXCEPT !.nets = allOlder(@), !.stas = allOlder(@),
                                   !.full = older(@, Retention)]
    /\ sweep' = IF sweep = Nil THEN Nil
                ELSE [sweep EXCEPT !.nets = allOlder(@), !.stas = allOlder(@), !.age = @ + 1]
    /\ UNCHANGED <<chan, assoc, nair, result, seenVars>>

AirChanges ==
    /\ nair < MaxAir /\ nair' = nair + 1
    /\ UNCHANGED <<chan, state, sweep, result, seenVars>>

TurnsOn(b) == AirChanges /\ onFor[b] = Nil /\ onFor' = [onFor EXCEPT ![b] = 0] /\ UNCHANGED assoc
TurnsOff(b) == /\ AirChanges /\ onFor[b] # Nil /\ onFor' = [onFor EXCEPT ![b] = Nil]
               /\ assoc' = [m \in Macs |-> IF assoc[m] = b THEN Nil ELSE assoc[m]]
Associates(m, b) == /\ AirChanges /\ onFor[b] # Nil /\ assoc[m] # b
                    /\ assoc' = [assoc EXCEPT ![m] = b] /\ UNCHANGED onFor

-----------------------------------------------------------------------------
(* Frames *)

Beacon(b, rssi) == [type |-> "beacon", bssid |-> b, rssi |-> rssi]
ProbeReq(m) == [type |-> "probe", mac |-> m]
Data(m, b) == [type |-> "data", mac |-> m, bssid |-> b]

(* A beacon or a probe response: the strongest signal. *)
recordNetwork(nets, f) ==
    LET strongest == IF nets[f.bssid] # Nil /\ nets[f.bssid].rssi > f.rssi
                     THEN nets[f.bssid].rssi ELSE f.rssi
    IN  [nets EXCEPT ![f.bssid] = [rssi |-> strongest, age |-> 0, ch |-> 0]]

(* A station is entered by the first frame it is heard with: a probe       *)
(* request has no BSSID, and a later data frame does not supply it.        *)
processFrame(cap, f) ==
    CASE f.type = "beacon" -> [cap EXCEPT !.nets = recordNetwork(@, f)]
      [] f.type = "probe" ->
            IF cap.stas[f.mac] # Nil THEN cap
            ELSE [cap EXCEPT !.stas[f.mac] = [bssid |-> Nil, age |-> 0]]
      [] f.type = "data" ->
            IF cap.stas[f.mac] # Nil THEN [cap EXCEPT !.stas[f.mac].age = 0]
            ELSE [cap EXCEPT !.stas[f.mac] = [bssid |-> f.bssid, age |-> 0]]

Nothing == [nets |-> Empty(Bssids), stas |-> Empty(Macs)]

(* All frames of one dwell carry the time it began; it takes no tick. *)
captureOnChannel(frames) ==
    LET after[i \in 0 .. Len(frames)] ==
            IF i = 0 THEN Nothing ELSE processFrame(after[i - 1], frames[i])
    IN  after[Len(frames)]

-----------------------------------------------------------------------------
(* The sweep *)

(* Mutant of fullSweepDue: the spectrum is scanned once. *)
fullSweepOnce == state = Nil \/ state.chans = {}

(* runWlanPassive: the first run, nothing of interest, or the re-scan due. *)
fullSweepDue ==
    state = Nil \/ state.chans = {} \/ state.full >= Retention

(* The channels of interest, the radio's, or the common ones when those    *)
(* cannot be had.                                                          *)
StartSweep(list) ==
    /\ sweep = Nil
    /\ IF ~fullSweepDue THEN list = state.chans ELSE list \in {Channels, Defaults}
    /\ nair' = IF fullSweepDue /\ list # Channels THEN nair + 1 ELSE nair
    /\ nair' <= MaxAir
    /\ sweep' = [todo |-> list, full |-> fullSweepDue, age |-> 0,
                 nets |-> Empty(Bssids), stas |-> Empty(Macs), talk |-> Empty(Macs),
                 dull |-> IF fullSweepDue THEN {b \in Bssids : chan[b] \notin list} ELSE {}]
    /\ result' = Nil
    /\ UNCHANGED <<chan, onFor, assoc, state, seenVars>>

(* senseImpl's merge of what a channel gave: the strongest beacon wins the *)
(* channel; a station keeps its BSSID unless the new sighting has one.     *)
mergeNetwork(old, new, ch) ==
    IF new = Nil THEN old
    ELSE IF old = Nil THEN [new EXCEPT !.ch = ch]
    ELSE IF new.rssi > old.rssi THEN [old EXCEPT !.rssi = new.rssi, !.ch = ch]
    ELSE old

mergeStation(old, new) ==
    IF new = Nil THEN old
    ELSE IF old = Nil THEN new
    ELSE [bssid |-> IF new.bssid # Nil THEN new.bssid ELSE old.bssid, age |-> new.age]

(* One channel: the access points on it are heard, one of another channel  *)
(* may leak in; a station on it talks, and may probe before.  A dwell cut  *)
(* short by the cancellation misses some; the sweep is kept, if this was   *)
(* its last channel, for the context is looked at before each one.         *)
Capture(ch, leaks, talks, probes, missed) ==
    LET own == {b \in Bssids : onFor[b] # Nil /\ chan[b] = ch}
        heard == {m \in talks : assoc[m] \in own}
        beacons == {Beacon(b, 2) : b \in own \ missed}
                     \cup {Beacon(b, 1) : b \in {x \in leaks : onFor[x] # Nil /\ chan[x] # ch}}
        cap == captureOnChannel(SetToSeq(beacons) \o SetToSeq({ProbeReq(m) : m \in probes})
                                  \o SetToSeq({Data(m, assoc[m]) : m \in heard}))
    IN  /\ sweep # Nil /\ ch \in sweep.todo /\ \A c \in sweep.todo : ch <= c
        /\ missed # {} => sweep.todo = {ch} /\ missed \subseteq own
        /\ nair' = nair + (IF missed = {} THEN 0 ELSE 1) + (IF leaks = {} THEN 0 ELSE 1)
        /\ nair' <= MaxAir
        /\ sweep' = [sweep EXCEPT
              !.todo = @ \ {ch},
              !.nets = [b \in Bssids |-> mergeNetwork(@[b], cap.nets[b], ch)],
              !.stas = [m \in Macs |-> mergeStation(@[m], cap.stas[m])],
              !.talk = [m \in Macs |-> IF m \in probes THEN "blank"
                                       ELSE IF m \in heard THEN assoc[m] ELSE @[m]],
              !.dull = @ \cup missed]
        /\ UNCHANGED <<chan, onFor, assoc, state, result, seenVars>>

(* setChannel or captureOnChannel fails: the sweep goes on without it.     *)
SkipChannel(ch) ==
    /\ sweep # Nil /\ ch \in sweep.todo /\ \A c \in sweep.todo : ch <= c
    /\ nair < MaxAir /\ nair' = nair + 1
    /\ sweep' = [sweep EXCEPT !.todo = @ \ {ch}, !.dull = @ \cup {b \in Bssids : chan[b] = ch}]
    /\ UNCHANGED <<chan, onFor, assoc, state, result, seenVars>>

(* The context is done before a channel, or the interface fails: nothing   *)
(* is kept.                                                                *)
SenseFails ==
    /\ sweep # Nil
    /\ sweep' = Nil
    /\ UNCHANGED <<airVars, state, result, seenVars>>

-----------------------------------------------------------------------------
(* Retention *)

(* Last heard before the cutoff. *)
expired(sighting) == sighting.age > Retention

(* A sighting of this sweep replaces the retained one. *)
merged(old, new) == [x \in DOMAIN old |-> IF new[x] # Nil THEN new[x] ELSE old[x]]

(* Mutant of kept: what is as old as the cutoff is dropped, with no event. *)
keptYounger(f) == [x \in DOMAIN f |-> IF f[x] # Nil /\ f[x].age < Retention THEN f[x] ELSE Nil]

(* What is older than the cutoff is dropped. *)
kept(f) == [x \in DOMAIN f |-> IF f[x] # Nil /\ ~expired(f[x]) THEN f[x] ELSE Nil]

(* A station heard with another BSSID than the retained one has roamed. *)
roamEvents(old, new) ==
    {[mac |-> m, from |-> old[m].bssid, to |-> new[m].bssid] :
        m \in {x \in Known(old) \cap Known(new) :
                  /\ old[x].bssid # Nil /\ new[x].bssid # Nil
                  /\ old[x].bssid # new[x].bssid}}

(* One that ages out with a BSSID has gone. *)
disconnects(all) ==
    {[mac |-> m, from |-> all[m].bssid, to |-> Nil] :
        m \in {x \in Known(all) : all[x].bssid # Nil /\ expired(all[x])}}

(* The channels of the retained networks. *)
extractInterestingChannels(nets) == {nets[b].ch : b \in Known(nets)}

(* wlanPassiveResult: the retained sightings and the events. *)
wlanPassiveResult(nets, stas, roams) ==
    [networks |-> Known(nets), stations |-> Known(stas), roams |-> roams]

(* Sense returns its lists: all it has heard, or as many as there is room  *)
(* for, in no order; mergeWlanRetained, the channels of the next sweep,    *)
(* the result.                                                             *)
EndSweep(listNets, listStas) ==
    LET old == IF state = Nil
               THEN [nets |-> Empty(Bssids), stas |-> Empty(Macs), chans |-> {}, full |-> 0]
               ELSE state
        seen == [b \in Bssids |-> IF b \notin listNets THEN Nil
                                  ELSE [ch |-> sweep.nets[b].ch, age |-> sweep.nets[b].age]]
        spotted == [m \in Macs |-> IF m \notin listStas THEN Nil ELSE sweep.stas[m]]
        allStas == merged(old.stas, spotted)
        nets == kept(merged(old.nets, seen))
        chans == extractInterestingChannels(nets)
        heard == <<Known(sweep.nets), Known(sweep.stas)>>
    IN  /\ sweep # Nil /\ sweep.todo = {}
        /\ listNets \subseteq heard[1] /\ listStas \subseteq heard[2]
        /\ nair' = IF <<listNets, listStas>> = heard THEN nair ELSE nair + 1
        /\ nair' <= MaxAir
        /\ state' = [nets |-> nets, stas |-> kept(allStas),
                     chans |-> IF chans = {} THEN old.chans ELSE chans,
                     full |-> IF sweep.full THEN 0 ELSE old.full]
        /\ result' = wlanPassiveResult(nets, kept(allStas),
                        roamEvents(old.stas, spotted) \cup disconnects(allStas))
        /\ sweep' = Nil
        /\ deaf' = (deaf \ {b \in listNets : sweep.nets[b].ch = chan[b]})
                     \cup sweep.dull \cup (heard[1] \ listNets)
        /\ met' = [m \in Macs |-> IF sweep.talk[m] # Nil THEN sweep.talk[m]
                                  ELSE IF kept(allStas)[m] = Nil THEN Nil ELSE met[m]]
        /\ cut' = (cut \cup heard[2]) \ listStas
        /\ UNCHANGED <<chan, onFor, assoc>>

-----------------------------------------------------------------------------
SightNext ==
    \/ ClockTick
    \/ \E b \in Bssids : TurnsOn(b) \/ TurnsOff(b) \/ \E m \in Macs : Associates(m, b)
    \/ \E list \in SUBSET Channels : StartSweep(list)
    \/ SenseFails
    \/ \E nets \in SUBSET Bssids, stas \in SUBSET Macs : EndSweep(nets, stas)
    \/ \E ch \in Channels : SkipChannel(ch)
    \/ \E ch \in Channels, leaks \in {{}} \cup {{b} : b \in Bssids}, talks \in SUBSET Macs,
          probes \in SUBSET Macs, missed \in SUBSET Bssids : Capture(ch, leaks, talks, probes, missed)

SightSpec == SightInit /\ [][SightNext]_sightVars

-----------------------------------------------------------------------------
(* Properties *)

SweepEnds == sweep # Nil /\ result' # Nil

(* A narrowed sweep never hides an access point for good: one that was on  *)
(* the air for the retention and the length of a sweep before this sweep   *)
(* began is in its result, whatever channel it is on.  Excepted is one     *)
(* that a sweep has missed, for a channel refused, the common channels in  *)
(* place of the radio's, a dwell cut short or a list that was full, and    *)
(* only until a sweep finds it on its own channel again.                   *)
NewNetworkFound ==
    [][SweepEnds =>
          \A b \in Bssids \ deaf' :
             onFor[b] # Nil /\ onFor[b] - sweep.age >= Retention + Dwell
                => b \in result'.networks]_sightVars

(* The roaming events are the moves between the access points a station    *)
(* was heard talking to, one for each: from the one it was last heard      *)
(* with, to the one this sweep heard it with, or to none once it has aged  *)
(* out.  A sweep that heard the station probe is excepted, for the         *)
(* sighting then has no BSSID, and so is a station that was heard but left *)
(* out of a full list, until it is listed again.                           *)
RoamsAreMoves ==
    [][SweepEnds =>
          \A m \in Macs \ (cut \cup cut') : met[m] # "blank" /\ met'[m] # "blank" =>
             {e \in result'.roams : e.mac = m} =
                IF met[m] # Nil /\ met'[m] # met[m]
                THEN {[mac |-> m, from |-> met[m], to |-> met'[m]]} ELSE {}]_sightVars

=============================================================================

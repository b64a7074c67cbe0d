------------------------- MODULE AgentStreamProofs -------------------------
(***************************************************************************)
(* Proofs about AgentStream, for any number of streams and messages and    *)
(* any capacity of the channels.  A configuration passes four places on    *)
(* its way: the wire, the receiver's hands, the channel and the schedule.  *)
(* The invariant says that the last one sent is the last one on the way,   *)
(* and that those on the way are in the order they were sent, within a     *)
(* stream and from one stream to the next.                                 *)
(***************************************************************************)
EXTENDS AgentStream, TLAPS

(* What receiver and scheduler hold is of the right sort. *)
InHand ==
    \A g \in Streams :
       /\ rpc[g] = "config" => msg[g] \in Config
       /\ rpc[g] = "command" => msg[g] \in Command
       /\ spc[g] \in {"reconcile", "setIface"} => specs[g] \in Config

WireClear(g) == \A i \in 1 .. Len(wire[g]) : ~isConfig(wire[g][i])

(* The configuration of stream g furthest behind on its way is the last    *)
(* one sent.                                                               *)
LastOnTheWay(g) ==
    /\ \A i \in 1 .. Len(wire[g]) :
          isConfig(wire[g][i]) /\ (\A k \in i + 1 .. Len(wire[g]) : ~isConfig(wire[g][k])) =>
             wire[g][i] = last[g]
    /\ WireClear(g) /\ rpc[g] = "config" => msg[g] = last[g]
    /\ WireClear(g) /\ rpc[g] # "config" /\ cfgCh[g] # <<>> => cfgCh[g][Len(cfgCh[g])] = last[g]
    /\ WireClear(g) /\ rpc[g] # "config" /\ cfgCh[g] = <<>> => specs[g] = last[g]

(* The configurations of stream g at place k of their way. *)
Scheduled(g) == {specs[g]} \ {None}
Queued(g) == {cfgCh[g][i] : i \in 1 .. Len(cfgCh[g])}
Held(g) == IF rpc[g] = "config" THEN {msg[g]} ELSE {}
OnWire(g) == {m \in {wire[g][i] : i \in 1 .. Len(wire[g])} : isConfig(m)}

At(g, k) == IF k = 0 THEN Scheduled(g) ELSE IF k = 1 THEN Queued(g)
            ELSE IF k = 2 THEN Held(g) ELSE OnWire(g)

(* Further along means sent earlier, and so does an earlier stream. *)
Ahead(g, j, h, k) == g < h \/ (g = h /\ j < k)

Ordered ==
    \A g, h \in Streams, j, k \in 0 .. 3 : Ahead(g, j, h, k) =>
       \A c \in At(g, j), d \in At(h, k) : c.rev <= d.rev

QueuesOrdered ==
    \A g \in Streams :
       /\ \A i, k \in 1 .. Len(cfgCh[g]) : i < k => cfgCh[g][i].rev <= cfgCh[g][k].rev
       /\ \A i, k \in 1 .. Len(wire[g]) :
             i < k /\ isConfig(wire[g][i]) /\ isConfig(wire[g][k]) => wire[g][i].rev <= wire[g][k].rev

(* All that is on the way has been sent, and on a stream that was opened. *)
AllSent ==
    /\ \A g \in Streams, k \in 0 .. 3 : \A c \in At(g, k) : g <= cur /\ c.rev < sentN
    /\ \A x \in {refl, iface} \ {None} : x.rev < sentN

(* What the process goes by is no newer than what its newest stream has. *)
Behind ==
    \A x \in {refl, iface} \ {None} : \A g \in Streams : g = cur =>
       \A k \in 0 .. 3 : \A c \in At(g, k) : x.rev <= c.rev

IInv ==
    /\ TypeOK /\ InHand /\ \A g \in Streams : LastOnTheWay(g)
    /\ Ordered /\ QueuesOrdered /\ AllSent /\ Behind

-----------------------------------------------------------------------------
(* Messages and places *)

(* A configuration is told from a command, and from nothing at all. *)
LEMMA Sorts ==
  /\ \A m \in Config : isConfig(m) /\ m.rev \in Nat /\ m # None
  /\ \A m \in Command : ~isConfig(m)
  /\ \A m \in Config \cup Command : isConfig(m) => m \in Config
  <1>1. \A m \in Config : isConfig(m) /\ m.rev \in Nat
    BY DEF Config, isConfig
  <1>2. \A m \in Command : ~isConfig(m)
    BY DEF Command, isConfig
  <1>3. \A m \in Config : m # None
    BY AgentNone DEF Config
  <1> QED BY <1>1, <1>2, <1>3

(* A queue is empty when its length is 0. *)
LEMMA EmptyQueue ==
  ASSUME NEW S, NEW s \in Seq(S)
  PROVE  s = <<>> <=> Len(s) = 0
  OBVIOUS

(* Only configurations are on the way. *)
LEMMA PlacesTyped ==
  ASSUME TypeOK, InHand, NEW g \in Streams, NEW k \in 0 .. 3, NEW c \in At(g, k)
  PROVE  c \in Config /\ c.rev \in Nat
  <1> SUFFICES c \in Config
    BY Sorts
  <1>1. CASE k = 0
    BY <1>1 DEF At, Scheduled, TypeOK
  <1>2. CASE k = 1
    <2>1. cfgCh[g] \in Seq(Config)
      BY DEF TypeOK
    <2> QED BY <1>2, <2>1 DEF At, Queued
  <1>3. CASE k = 2
    BY <1>3 DEF At, Held, InHand
  <1>4. CASE k = 3
    <2>1. wire[g] \in Seq(Config \cup Command)
      BY DEF TypeOK
    <2>2. c \in Config \cup Command /\ isConfig(c)
      BY <1>4, <2>1 DEF At, OnWire
    <2> QED BY <2>2, Sorts
  <1> QED BY <1>1, <1>2, <1>3, <1>4

(* The part of the invariant about the order of the configurations. *)
Flow == Ordered /\ AllSent /\ Behind

(* A step that puts no configuration anywhere keeps their order, also one  *)
(* that opens a stream.                                                    *)
LEMMA NothingNew ==
  ASSUME TypeOK, Flow,
         \A g \in Streams, k \in 0 .. 3 : At(g, k)' \subseteq At(g, k),
         cur' \in {cur, cur + 1}, sentN' \in {sentN, sentN + 1},
         refl' = refl, iface' = iface, InHand
  PROVE  Flow'
  <1>1. Ordered'
    BY DEF Flow, Ordered, Ahead
  <1>2. AllSent'
    <2>1. \A g \in Streams, k \in 0 .. 3 : \A c \in At(g, k) : g <= cur /\ c.rev < sentN /\ c.rev \in Nat
      BY PlacesTyped DEF Flow, AllSent
    <2>2. \A x \in {refl, iface} \ {None} : x.rev < sentN /\ x.rev \in Nat
      BY Sorts DEF Flow, AllSent, TypeOK
    <2>3. cur \in Nat /\ sentN \in Nat /\ Streams \subseteq Nat
      BY DEF TypeOK, Streams
    <2> QED BY <2>1, <2>2, <2>3 DEF AllSent
  <1>3. Behind'
    <2>1. CASE cur' = cur
      BY <2>1 DEF Flow, Behind
    <2>2. CASE cur' = cur + 1
      <3>1. cur \in Nat /\ Streams \subseteq Nat
        BY DEF TypeOK, Streams
      <3>2. \A g \in Streams, k \in 0 .. 3 : g = cur + 1 => At(g, k)' = {}
        BY <3>1 DEF Flow, AllSent
      <3> QED BY <2>2, <3>2 DEF Behind
    <2> QED BY <2>1, <2>2
  <1> QED BY <1>1, <1>2, <1>3 DEF Flow

(* A configuration c goes from one place of its way to the next, the first *)
(* of those it leaves behind.                                              *)
LEMMA OneMoves ==
  ASSUME TypeOK, Flow, NEW g \in Streams, NEW k \in 0 .. 2, NEW c \in At(g, k + 1),
         \A h \in Streams, j \in 0 .. 3 :
            \A d \in At(h, j)' : d \in At(h, j) \/ (h = g /\ j = k /\ d = c),
         \A d \in At(g, k + 1)' : c.rev <= d.rev,
         cur' = cur, sentN' = sentN, refl' = refl, iface' = iface
  PROVE  Flow'
  <1>0. k + 1 \in 0 .. 3 /\ k \in 0 .. 3 /\ Streams \subseteq Nat
    BY DEF Streams
  <1>1. Ordered'
    <2> SUFFICES ASSUME NEW h1 \in Streams, NEW h2 \in Streams, NEW j1 \in 0 .. 3, NEW j2 \in 0 .. 3,
                        Ahead(h1, j1, h2, j2), NEW x \in At(h1, j1)', NEW y \in At(h2, j2)'
                 PROVE  x.rev <= y.rev
      BY DEF Ordered, Ahead
    <2>1. CASE x \in At(h1, j1) /\ y \in At(h2, j2)
      BY <2>1 DEF Flow, Ordered
    <2>2. CASE h1 = g /\ j1 = k /\ x = c /\ y \in At(h2, j2)
      <3>1. CASE h2 = g /\ j2 = k + 1
        BY <2>2, <3>1
      <3>2. CASE ~(h2 = g /\ j2 = k + 1)
        <4>1. Ahead(g, k + 1, h2, j2)
          BY <1>0, <2>2, <3>2 DEF Ahead
        <4> QED BY <1>0, <2>2, <4>1 DEF Flow, Ordered
      <3> QED BY <3>1, <3>2
    <2>3. CASE h2 = g /\ j2 = k /\ y = c /\ x \in At(h1, j1)
      <3>1. Ahead(h1, j1, g, k + 1)
        BY <1>0, <2>3 DEF Ahead
      <3> QED BY <1>0, <2>3, <3>1 DEF Flow, Ordered
    <2>4. ~(h1 = g /\ j1 = k /\ h2 = g /\ j2 = k)
      BY <1>0 DEF Ahead
    <2> QED BY <2>1, <2>2, <2>3, <2>4
  <1>2. AllSent'
    BY <1>0 DEF Flow, AllSent
  <1>3. Behind'
    BY <1>0 DEF Flow, Behind
  <1> QED BY <1>1, <1>2, <1>3 DEF Flow

(* A step that leaves a stream alone leaves its configurations in place.   *)
LEMMA StreamKept ==
  ASSUME NEW h, wire'[h] = wire[h], last'[h] = last[h], rpc'[h] = rpc[h], msg'[h] = msg[h],
         cfgCh'[h] = cfgCh[h], specs'[h] = specs[h]
  PROVE  /\ \A k : At(h, k)' = At(h, k)
         /\ LastOnTheWay(h) => LastOnTheWay(h)'
  BY DEF At, Scheduled, Queued, Held, OnWire, LastOnTheWay, WireClear

-----------------------------------------------------------------------------
(* One lemma per action that moves a configuration *)

LEMMA SendConfigStep ==
  ASSUME IInv, NEW g \in Streams, NEW tests \in SUBSET Tests, SendConfig(g, tests)
  PROVE  IInv'
  <1> DEFINE cfg == [rev |-> sentN, tests |-> tests]
  <1>1. /\ TypeOK /\ InHand /\ Flow /\ QueuesOrdered /\ \A h \in Streams : LastOnTheWay(h)
    BY DEF IInv, Flow
  <1>2. /\ g = cur /\ sentN < MaxMessages /\ sentN' = sentN + 1
        /\ wire' = [wire EXCEPT ![g] = Append(wire[g], cfg)] /\ last' = [last EXCEPT ![g] = cfg]
        /\ UNCHANGED <<cur, up, live, rpc, msg, cfgCh, cmdCh, spc, specs, iface, refl, ran, unknown>>
    BY DEF SendConfig, streamVars, receiverVars, schedulerVars
  <1>3. sentN \in Nat /\ cfg \in Config /\ isConfig(cfg) /\ cfg.rev = sentN /\ wire[g] \in Seq(Config \cup Command)
    <2>1. sentN \in Nat /\ wire[g] \in Seq(Config \cup Command)
      BY <1>1 DEF TypeOK
    <2>2. cfg \in Config /\ cfg.rev = sentN
      BY <2>1 DEF Config
    <2> HIDE DEF cfg
    <2> QED BY <2>1, <2>2, Sorts
  <1> HIDE DEF cfg
  <1>4. \A h \in Streams : /\ h # g => wire'[h] = wire[h] /\ last'[h] = last[h]
                           /\ h = g => wire'[h] = Append(wire[g], cfg) /\ last'[h] = cfg
    BY <1>1, <1>2 DEF TypeOK
  <1>5. /\ wire'[g] \in Seq(Config \cup Command) /\ Len(wire'[g]) = Len(wire[g]) + 1
        /\ wire'[g][Len(wire[g]) + 1] = cfg
        /\ \A i \in 1 .. Len(wire[g]) : wire'[g][i] = wire[g][i]
        /\ Len(wire[g]) \in Nat
    BY <1>3, <1>4
  <1>6. TypeOK'
    <2>1. wire' \in [Streams -> Seq(Config \cup Command)] /\ last' \in [Streams -> Config \cup {None}]
      BY <1>1, <1>2, <1>3, <1>5 DEF TypeOK
    <2>2. sentN' \in 0 .. MaxMessages
      BY <1>1, <1>2, <1>3, AgentBounds DEF TypeOK
    <2> QED BY <1>1, <1>2, <2>1, <2>2 DEF TypeOK
  <1>7. InHand'
    BY <1>1, <1>2 DEF InHand
  <1>8. \A h \in Streams : LastOnTheWay(h)'
    <2> SUFFICES ASSUME NEW h \in Streams PROVE LastOnTheWay(h)'
      OBVIOUS
    <2>1. CASE h # g
      BY <1>1, <1>2, <1>4, <2>1, StreamKept
    <2>2. CASE h = g
      <3>1. ~WireClear(g)'
        BY <1>3, <1>5 DEF WireClear
      <3>2. \A i \in 1 .. Len(wire'[g]) :
               (\A k \in i + 1 .. Len(wire'[g]) : ~isConfig(wire'[g][k])) => i = Len(wire[g]) + 1
        BY <1>3, <1>5
      <3> QED BY <1>4, <1>5, <2>2, <3>1, <3>2 DEF LastOnTheWay
    <2> QED BY <2>1, <2>2
  <1>9. QueuesOrdered'
    <2>1. \A i \in 1 .. Len(wire[g]) : isConfig(wire[g][i]) => wire[g][i].rev < sentN /\ wire[g][i].rev \in Nat
      <3> SUFFICES ASSUME NEW i \in 1 .. Len(wire[g]), isConfig(wire[g][i])
                   PROVE  wire[g][i].rev < sentN /\ wire[g][i].rev \in Nat
        OBVIOUS
      <3>1. wire[g][i] \in At(g, 3)
        BY DEF At, OnWire
      <3> QED BY <1>1, <3>1, PlacesTyped DEF Flow, AllSent
    <2>2. \A i, k \in 1 .. Len(wire'[g]) :
             i < k /\ isConfig(wire'[g][i]) /\ isConfig(wire'[g][k]) => wire'[g][i].rev <= wire'[g][k].rev
      <3> SUFFICES ASSUME NEW i \in 1 .. Len(wire'[g]), NEW k \in 1 .. Len(wire'[g]), i < k,
                          isConfig(wire'[g][i]), isConfig(wire'[g][k])
                   PROVE  wire'[g][i].rev <= wire'[g][k].rev
        OBVIOUS
      <3>1. i \in 1 .. Len(wire[g]) /\ wire'[g][i] = wire[g][i]
        BY <1>5
      <3>2. CASE k = Len(wire[g]) + 1
        BY <1>3, <1>5, <2>1, <3>1, <3>2
      <3>3. CASE k # Len(wire[g]) + 1
        <4>1. k \in 1 .. Len(wire[g]) /\ wire'[g][k] = wire[g][k]
          BY <1>5, <3>3
        <4> QED BY <1>1, <3>1, <4>1 DEF QueuesOrdered
      <3> QED BY <3>2, <3>3
    <2> QED BY <1>1, <1>2, <1>4, <2>2 DEF QueuesOrdered
  <1>10. Flow'
    <2>1. \A h \in Streams, k \in 0 .. 3 : \A d \in At(h, k)' :
             d \in At(h, k) \/ (h = g /\ k = 3 /\ d = cfg)
      <3> SUFFICES ASSUME NEW h \in Streams, NEW k \in 0 .. 3, NEW d \in At(h, k)'
                   PROVE  d \in At(h, k) \/ (h = g /\ k = 3 /\ d = cfg)
        OBVIOUS
      <3>1. CASE h # g
        BY <1>2, <1>4, <3>1, StreamKept
      <3>2. CASE h = g /\ k # 3
        BY <1>2, <3>2 DEF At, Scheduled, Queued, Held
      <3>3. CASE h = g /\ k = 3
        <4>1. PICK i \in 1 .. Len(wire'[g]) : d = wire'[g][i] /\ isConfig(d)
          BY <3>3 DEF At, OnWire
        <4>2. d = cfg \/ \E n \in 1 .. Len(wire[g]) : d = wire[g][n]
          BY <1>5, <4>1
        <4> QED BY <3>3, <4>1, <4>2 DEF At, OnWire
      <3> QED BY <3>1, <3>2, <3>3
    <2>2. \A h \in Streams, k \in 0 .. 3 : \A d \in At(h, k) : d.rev \in Nat /\ d.rev < sentN /\ h <= cur
      BY <1>1, PlacesTyped DEF Flow, AllSent
    <2>3. \A x \in {refl, iface} \ {None} : x.rev \in Nat /\ x.rev < sentN
      BY <1>1, Sorts DEF TypeOK, Flow, AllSent
    <2>4. Ordered'
      <3> SUFFICES ASSUME NEW h1 \in Streams, NEW h2 \in Streams, NEW j1 \in 0 .. 3, NEW j2 \in 0 .. 3,
                          Ahead(h1, j1, h2, j2), NEW x \in At(h1, j1)', NEW y \in At(h2, j2)'
                   PROVE  x.rev <= y.rev
        BY DEF Ordered, Ahead
      <3>1. CASE x \in At(h1, j1) /\ y \in At(h2, j2)
        BY <1>1, <3>1 DEF Flow, Ordered
      <3>2. CASE x \in At(h1, j1) /\ y = cfg
        BY <1>3, <2>2, <3>2
      <3>3. CASE ~(x \in At(h1, j1))
        <4>1. h1 = cur /\ j1 = 3
          BY <1>2, <2>1, <3>3
        <4>2. h2 > cur
          BY <4>1 DEF Ahead, Streams
        <4>3. h2 <= cur
          BY <1>2, <2>1, <2>2, <4>2 DEF Streams
        <4> QED BY <1>1, <4>2, <4>3 DEF TypeOK, Streams
      <3> QED BY <2>1, <3>1, <3>2, <3>3
    <2>5. AllSent'
      <3>1. \A h \in Streams, k \in 0 .. 3 : \A d \in At(h, k)' : h <= cur /\ d.rev < sentN + 1
        BY <1>2, <1>3, <2>1, <2>2 DEF Streams
      <3>2. \A x \in {refl, iface} \ {None} : x.rev < sentN + 1
        BY <1>3, <2>3
      <3> QED BY <1>2, <3>1, <3>2 DEF AllSent
    <2>6. Behind'
      <3> SUFFICES ASSUME NEW x \in {refl, iface} \ {None}, NEW h \in Streams, h = cur,
                          NEW k \in 0 .. 3, NEW d \in At(h, k)'
                   PROVE  x.rev <= d.rev
        BY <1>2 DEF Behind
      <3>1. CASE d \in At(h, k)
        BY <1>1, <3>1 DEF Flow, Behind
      <3>2. CASE d = cfg
        BY <1>3, <2>3, <3>2
      <3> QED BY <2>1, <3>1, <3>2
    <2> QED BY <2>4, <2>5, <2>6 DEF Flow
  <1> QED BY <1>6, <1>7, <1>8, <1>9, <1>10 DEF IInv, Flow

(* What the configurations are at when a step touches none of them.        *)
LEMMA PlacesKept ==
  ASSUME IInv, UNCHANGED <<wire, last, cfgCh, specs>>, refl' = refl, iface' = iface,
         \A h \in Streams : /\ rpc'[h] = "config" <=> rpc[h] = "config"
                            /\ rpc[h] = "config" => msg'[h] = msg[h],
         cur' \in {cur, cur + 1}, sentN' = sentN
  PROVE  Flow' /\ QueuesOrdered' /\ \A h \in Streams : LastOnTheWay(h)'
  <1>1. /\ TypeOK /\ InHand /\ Flow /\ QueuesOrdered /\ \A h \in Streams : LastOnTheWay(h)
    BY DEF IInv, Flow
  <1>2. \A h \in Streams, k \in 0 .. 3 : At(h, k)' \subseteq At(h, k)
    BY DEF At, Scheduled, Queued, Held, OnWire
  <1>3. Flow'
    BY <1>1, <1>2, NothingNew
  <1>4. QueuesOrdered'
    BY <1>1 DEF QueuesOrdered
  <1>5. \A h \in Streams : LastOnTheWay(h)'
    BY <1>1 DEF LastOnTheWay, WireClear
  <1> QED BY <1>3, <1>4, <1>5

(* A command is sent.                                                      *)
LEMMA SendCommandStep ==
  ASSUME IInv, NEW g \in Streams, NEW test \in Tests, SendCommand(g, test)
  PROVE  IInv'
  <1> DEFINE cmd == [test |-> test, rev |-> last[g].rev]
  <1>1. /\ TypeOK /\ InHand /\ Flow /\ QueuesOrdered /\ \A h \in Streams : LastOnTheWay(h)
    BY DEF IInv, Flow
  <1>2. /\ sentN < MaxMessages /\ sentN' = sentN + 1 /\ last[g] # None
        /\ wire' = [wire EXCEPT ![g] = Append(wire[g], cmd)] /\ last' = last
        /\ UNCHANGED <<cur, up, live, rpc, msg, cfgCh, cmdCh, spc, specs, iface, refl, ran, unknown>>
    BY DEF SendCommand, streamVars, receiverVars, schedulerVars
  <1>3. wire[g] \in Seq(Config \cup Command) /\ sentN \in Nat /\ cmd \in Command /\ ~isConfig(cmd)
    <2>1. wire[g] \in Seq(Config \cup Command) /\ sentN \in Nat
      BY <1>1 DEF TypeOK
    <2>2. last[g] \in Config
      BY <1>1, <1>2 DEF TypeOK
    <2>3. last[g].rev \in Nat
      BY <2>2, Sorts
    <2>4. cmd \in Command
      BY <2>3 DEF Command
    <2> HIDE DEF cmd
    <2> QED BY <2>1, <2>4, Sorts
  <1> HIDE DEF cmd
  <1>4. \A h \in Streams : /\ h # g => wire'[h] = wire[h]
                           /\ h = g => wire'[h] = Append(wire[g], cmd)
    BY <1>1, <1>2 DEF TypeOK
  <1>5. /\ wire'[g] \in Seq(Config \cup Command) /\ Len(wire'[g]) = Len(wire[g]) + 1
        /\ wire'[g][Len(wire[g]) + 1] = cmd
        /\ \A i \in 1 .. Len(wire[g]) : wire'[g][i] = wire[g][i]
        /\ Len(wire[g]) \in Nat
    BY <1>3, <1>4
  <1>6. \A i \in 1 .. Len(wire'[g]) : isConfig(wire'[g][i]) =>
           i \in 1 .. Len(wire[g]) /\ wire'[g][i] = wire[g][i]
    BY <1>3, <1>5
  <1>7. TypeOK'
    <2>1. wire' \in [Streams -> Seq(Config \cup Command)]
      BY <1>1, <1>2, <1>4, <1>5 DEF TypeOK
    <2>2. sentN' \in 0 .. MaxMessages
      BY <1>1, <1>2, <1>3, AgentBounds DEF TypeOK
    <2> QED BY <1>1, <1>2, <2>1, <2>2 DEF TypeOK
  <1>8. InHand'
    BY <1>1, <1>2 DEF InHand
  <1>9. \A h \in Streams : LastOnTheWay(h)'
    <2> SUFFICES ASSUME NEW h \in Streams PROVE LastOnTheWay(h)'
      OBVIOUS
    <2>1. CASE h # g
      BY <1>1, <1>2, <1>4, <2>1, StreamKept
    <2>2. CASE h = g
      <3>1. WireClear(g)' => WireClear(g)
        BY <1>5 DEF WireClear
      <3>2. \A i \in 1 .. Len(wire'[g]) :
               isConfig(wire'[g][i]) /\ (\A k \in i + 1 .. Len(wire'[g]) : ~isConfig(wire'[g][k])) =>
                  wire'[g][i] = last'[g]
        <4> SUFFICES ASSUME NEW i \in 1 .. Len(wire'[g]), isConfig(wire'[g][i]),
                            \A k \in i + 1 .. Len(wire'[g]) : ~isConfig(wire'[g][k])
                     PROVE  wire'[g][i] = last'[g]
          OBVIOUS
        <4>1. i \in 1 .. Len(wire[g]) /\ wire'[g][i] = wire[g][i]
          BY <1>6
        <4>2. \A k \in i + 1 .. Len(wire[g]) : ~isConfig(wire[g][k])
          BY <1>5, <4>1
        <4> QED BY <1>1, <1>2, <4>1, <4>2 DEF LastOnTheWay
      <3> QED BY <1>1, <1>2, <2>2, <3>1, <3>2 DEF LastOnTheWay
    <2> QED BY <2>1, <2>2
  <1>10. QueuesOrdered'
    <2>1. \A i, k \in 1 .. Len(wire'[g]) :
             i < k /\ isConfig(wire'[g][i]) /\ isConfig(wire'[g][k]) => wire'[g][i].rev <= wire'[g][k].rev
      BY <1>1, <1>6 DEF QueuesOrdered
    <2> QED BY <1>1, <1>2, <1>4, <2>1 DEF QueuesOrdered
  <1>11. Flow'
    <2>1. \A h \in Streams, k \in 0 .. 3 : At(h, k)' \subseteq At(h, k)
      <3> SUFFICES ASSUME NEW h \in Streams, NEW k \in 0 .. 3, NEW d \in At(h, k)'
                   PROVE  d \in At(h, k)
        OBVIOUS
      <3>1. CASE h # g
        BY <1>2, <1>4, <3>1, StreamKept
      <3>2. CASE h = g /\ k # 3
        BY <1>2, <3>2 DEF At, Scheduled, Queued, Held
      <3>3. CASE h = g /\ k = 3
        <4>1. PICK i \in 1 .. Len(wire'[g]) : d = wire'[g][i] /\ isConfig(d)
          BY <3>3 DEF At, OnWire
        <4> QED BY <1>6, <3>3, <4>1 DEF At, OnWire
      <3> QED BY <3>1, <3>2, <3>3
    <2> QED BY <1>1, <1>2, <2>1, NothingNew
  <1> QED BY <1>7, <1>8, <1>9, <1>10, <1>11 DEF IInv, Flow

(* The receiver takes the next message.                                    *)
LEMMA RecvStep ==
  ASSUME IInv, NEW g \in Streams, Recv(g)
  PROVE  IInv'
  <1> DEFINE m == Head(wire[g])
  <1>1. /\ TypeOK /\ InHand /\ Flow /\ QueuesOrdered /\ \A h \in Streams : LastOnTheWay(h)
    BY DEF IInv, Flow
  <1>2. /\ rpc[g] = "recv" /\ wire[g] # <<>>
        /\ wire' = [wire EXCEPT ![g] = Tail(wire[g])] /\ msg' = [msg EXCEPT ![g] = m]
        /\ rpc' = [rpc EXCEPT ![g] = IF isConfig(m) THEN "config" ELSE "command"]
        /\ UNCHANGED <<cur, up, live, last, sentN, cfgCh, cmdCh, spc, specs, iface, refl, ran, unknown>>
    BY DEF Recv, streamVars, schedulerVars
  <1>3. wire[g] \in Seq(Config \cup Command) /\ Len(wire[g]) \in Nat \ {0}
    BY <1>1, <1>2 DEF TypeOK
  <1>4. /\ m \in Config \cup Command /\ m = wire[g][1]
        /\ Tail(wire[g]) \in Seq(Config \cup Command) /\ Len(Tail(wire[g])) = Len(wire[g]) - 1
        /\ \A i \in 1 .. Len(Tail(wire[g])) : Tail(wire[g])[i] = wire[g][i + 1]
    BY <1>2, <1>3
  <1>5. (isConfig(m) => m \in Config) /\ (~isConfig(m) => m \in Command)
    BY <1>4, Sorts
  <1> HIDE DEF m
  <1>6. \A h \in Streams :
           /\ h # g => wire'[h] = wire[h] /\ msg'[h] = msg[h] /\ rpc'[h] = rpc[h]
           /\ h = g => /\ wire'[h] = Tail(wire[g]) /\ msg'[h] = m
                       /\ rpc'[h] = IF isConfig(m) THEN "config" ELSE "command"
    BY <1>1, <1>2 DEF TypeOK
  <1>7. TypeOK'
    <2>1. wire' \in [Streams -> Seq(Config \cup Command)] /\ msg' \in [Streams -> Config \cup Command \cup {None}]
      BY <1>1, <1>2, <1>4 DEF TypeOK
    <2>2. rpc' \in [Streams -> {"none", "recv", "config", "command", "done"}]
      BY <1>1, <1>2 DEF TypeOK
    <2> QED BY <1>1, <1>2, <2>1, <2>2 DEF TypeOK
  <1>8. InHand'
    BY <1>1, <1>2, <1>5, <1>6 DEF InHand
  <1>9. \A i \in 1 .. Len(wire'[g]) : wire'[g][i] = wire[g][i + 1] /\ i + 1 \in 1 .. Len(wire[g])
    <2>1. wire'[g] = Tail(wire[g])
      BY <1>6
    <2>2. \A i \in 1 .. Len(Tail(wire[g])) : i + 1 \in 1 .. Len(wire[g])
      BY <1>3, <1>4
    <2> QED BY <1>4, <2>1, <2>2
  <1>10. Len(wire'[g]) = Len(wire[g]) - 1
    BY <1>4, <1>6
  <1>11. \A h \in Streams : LastOnTheWay(h)'
    <2> SUFFICES ASSUME NEW h \in Streams PROVE LastOnTheWay(h)'
      OBVIOUS
    <2>1. CASE h # g
      BY <1>1, <1>2, <1>6, <2>1, StreamKept
    <2>2. CASE h = g
      <3>1. \A i \in 1 .. Len(wire'[g]) :
               isConfig(wire'[g][i]) /\ (\A k \in i + 1 .. Len(wire'[g]) : ~isConfig(wire'[g][k])) =>
                  wire'[g][i] = last'[g]
        <4> SUFFICES ASSUME NEW i \in 1 .. Len(wire'[g]), isConfig(wire'[g][i]),
                            \A k \in i + 1 .. Len(wire'[g]) : ~isConfig(wire'[g][k])
                     PROVE  wire'[g][i] = last'[g]
          OBVIOUS
        <4>1. \A k \in i + 2 .. Len(wire[g]) : ~isConfig(wire[g][k])
          <5> SUFFICES ASSUME NEW k \in i + 2 .. Len(wire[g]) PROVE ~isConfig(wire[g][k])
            OBVIOUS
          <5>1. k - 1 \in i + 1 .. Len(wire'[g]) /\ k - 1 \in 1 .. Len(wire'[g]) /\ (k - 1) + 1 = k
            BY <1>3, <1>10
          <5>2. wire'[g][k - 1] = wire[g][k]
            BY <1>9, <5>1
          <5> QED BY <5>1, <5>2
        <4>2. isConfig(wire[g][i + 1]) /\ i + 1 \in 1 .. Len(wire[g])
          BY <1>9
        <4>3. (i + 1) + 1 = i + 2
          OBVIOUS
        <4>4. wire[g][i + 1] = last[g]
          BY <1>1, <4>1, <4>2, <4>3 DEF LastOnTheWay
        <4> QED BY <1>2, <1>9, <4>4
      <3>2. WireClear(g)' => \A k \in 2 .. Len(wire[g]) : ~isConfig(wire[g][k])
        <4> SUFFICES ASSUME WireClear(g)', NEW k \in 2 .. Len(wire[g]) PROVE ~isConfig(wire[g][k])
          OBVIOUS
        <4>1. k - 1 \in 1 .. Len(wire'[g]) /\ (k - 1) + 1 = k
          BY <1>3, <1>10
        <4> QED BY <1>9, <4>1 DEF WireClear
      <3>3. CASE isConfig(m)
        <4>1. WireClear(g)' => m = last[g]
          <5>1. 1 \in 1 .. Len(wire[g]) /\ 1 + 1 = 2
            BY <1>3
          <5> QED BY <1>1, <1>4, <3>2, <3>3, <5>1 DEF LastOnTheWay
        <4>2. rpc'[g] = "config" /\ msg'[g] = m /\ last'[g] = last[g]
          BY <1>2, <1>6, <3>3
        <4> QED BY <2>2, <3>1, <4>1, <4>2 DEF LastOnTheWay
      <3>4. CASE ~isConfig(m)
        <4>1. WireClear(g)' => WireClear(g)
          BY <1>3, <1>4, <3>2, <3>4 DEF WireClear
        <4>2. rpc'[g] # "config" /\ rpc[g] # "config"
          BY <1>2, <1>6, <3>4
        <4> QED BY <1>1, <1>2, <2>2, <3>1, <4>1, <4>2 DEF LastOnTheWay
      <3> QED BY <3>3, <3>4
    <2> QED BY <2>1, <2>2
  <1>12. QueuesOrdered'
    <2>1. \A i, k \in 1 .. Len(wire'[g]) :
             i < k /\ isConfig(wire'[g][i]) /\ isConfig(wire'[g][k]) => wire'[g][i].rev <= wire'[g][k].rev
      <3> SUFFICES ASSUME NEW i \in 1 .. Len(wire'[g]), NEW k \in 1 .. Len(wire'[g]), i < k,
                          isConfig(wire'[g][i]), isConfig(wire'[g][k])
                   PROVE  wire'[g][i].rev <= wire'[g][k].rev
        OBVIOUS
      <3>1. /\ wire'[g][i] = wire[g][i + 1] /\ i + 1 \in 1 .. Len(wire[g])
            /\ wire'[g][k] = wire[g][k + 1] /\ k + 1 \in 1 .. Len(wire[g])
        BY <1>9
      <3>2. i + 1 < k + 1
        OBVIOUS
      <3> QED BY <1>1, <3>1, <3>2 DEF QueuesOrdered
    <2> QED BY <1>1, <1>2, <1>6, <2>1 DEF QueuesOrdered
  <1>13. \A d \in At(g, 3)' : \E i \in 2 .. Len(wire[g]) : d = wire[g][i] /\ isConfig(d)
    <2> SUFFICES ASSUME NEW d \in At(g, 3)' PROVE \E i \in 2 .. Len(wire[g]) : d = wire[g][i] /\ isConfig(d)
      OBVIOUS
    <2>1. PICK i \in 1 .. Len(wire'[g]) : d = wire'[g][i] /\ isConfig(d)
      BY DEF At, OnWire
    <2>2. i + 1 \in 2 .. Len(wire[g]) /\ d = wire[g][i + 1]
      BY <1>3, <1>9, <1>10, <2>1
    <2> QED BY <2>1, <2>2
  <1>14. Flow'
    <2>1. \A h \in Streams, j \in 0 .. 3 : \A d \in At(h, j)' :
             d \in At(h, j) \/ (h = g /\ j = 2 /\ isConfig(m) /\ d = m)
      <3> SUFFICES ASSUME NEW h \in Streams, NEW j \in 0 .. 3, NEW d \in At(h, j)'
                   PROVE  d \in At(h, j) \/ (h = g /\ j = 2 /\ isConfig(m) /\ d = m)
        OBVIOUS
      <3>1. CASE h # g
        BY <1>2, <1>6, <3>1, StreamKept
      <3>2. CASE h = g /\ j \in {0, 1}
        BY <1>2, <3>2 DEF At, Scheduled, Queued
      <3>3. CASE h = g /\ j = 2
        BY <1>6, <3>3 DEF At, Held
      <3>4. CASE h = g /\ j = 3
        <4>1. PICK i \in 2 .. Len(wire[g]) : d = wire[g][i] /\ isConfig(d)
          BY <1>13, <3>4
        <4>2. i \in 1 .. Len(wire[g])
          OBVIOUS
        <4> QED BY <3>4, <4>1, <4>2 DEF At, OnWire
      <3> QED BY <3>1, <3>2, <3>3, <3>4
    <2>2. CASE isConfig(m)
      <3>1. m \in At(g, 2 + 1)
        BY <1>3, <1>4, <2>2 DEF At, OnWire
      <3>2. \A d \in At(g, 2 + 1)' : m.rev <= d.rev
        <4> SUFFICES ASSUME NEW d \in At(g, 3)' PROVE m.rev <= d.rev
          OBVIOUS
        <4>1. PICK i \in 2 .. Len(wire[g]) : d = wire[g][i] /\ isConfig(d)
          BY <1>13
        <4>2. 1 \in 1 .. Len(wire[g]) /\ i \in 1 .. Len(wire[g]) /\ 1 < i
          BY <1>3
        <4> QED BY <1>1, <1>4, <2>2, <4>1, <4>2 DEF QueuesOrdered
      <3>3. 2 \in 0 .. 2 /\ UNCHANGED <<cur, sentN, refl, iface>>
        BY <1>2
      <3> QED BY <1>1, <2>1, <3>1, <3>2, <3>3, OneMoves
    <2>3. CASE ~isConfig(m)
      BY <1>1, <1>2, <2>1, <2>3, NothingNew
    <2> QED BY <2>2, <2>3
  <1> QED BY <1>7, <1>8, <1>11, <1>12, <1>14 DEF IInv, Flow

(* The receiver puts a configuration into the channel.                     *)
LEMMA DeliverConfigStep ==
  ASSUME IInv, NEW g \in Streams, DeliverConfig(g)
  PROVE  IInv'
  <1> DEFINE m == msg[g]
  <1>1. /\ TypeOK /\ InHand /\ Flow /\ QueuesOrdered /\ \A h \in Streams : LastOnTheWay(h)
    BY DEF IInv, Flow
  <1>2. /\ rpc[g] = "config" /\ Len(cfgCh[g]) < CfgCap
        /\ cfgCh' = [cfgCh EXCEPT ![g] = Append(cfgCh[g], m)]
        /\ rpc' = [rpc EXCEPT ![g] = "recv"] /\ msg' = [msg EXCEPT ![g] = None]
        /\ UNCHANGED <<cur, up, live, wire, last, sentN, cmdCh, spc, specs, iface, refl, ran, unknown>>
    BY DEF DeliverConfig, streamVars, serverVars, schedulerVars
  <1>3. m \in Config /\ cfgCh[g] \in Seq(Config) /\ Len(cfgCh[g]) \in Nat
    BY <1>1, <1>2 DEF InHand, TypeOK
  <1> HIDE DEF m
  <1>4. \A h \in Streams :
           /\ h # g => cfgCh'[h] = cfgCh[h] /\ msg'[h] = msg[h] /\ rpc'[h] = rpc[h]
           /\ h = g => cfgCh'[h] = Append(cfgCh[g], m) /\ rpc'[h] = "recv"
    BY <1>1, <1>2 DEF TypeOK
  <1>5. /\ cfgCh'[g] \in Seq(Config) /\ Len(cfgCh'[g]) = Len(cfgCh[g]) + 1
        /\ cfgCh'[g][Len(cfgCh[g]) + 1] = m /\ cfgCh'[g] # <<>>
        /\ \A i \in 1 .. Len(cfgCh[g]) : cfgCh'[g][i] = cfgCh[g][i]
    <2>1. cfgCh'[g] = Append(cfgCh[g], m)
      BY <1>4
    <2>2. /\ Append(cfgCh[g], m) \in Seq(Config) /\ Len(Append(cfgCh[g], m)) = Len(cfgCh[g]) + 1
          /\ Append(cfgCh[g], m)[Len(cfgCh[g]) + 1] = m
          /\ \A i \in 1 .. Len(cfgCh[g]) : Append(cfgCh[g], m)[i] = cfgCh[g][i]
      BY <1>3
    <2>3. Append(cfgCh[g], m) # <<>>
      BY <1>3, <2>2, EmptyQueue
    <2> QED BY <2>1, <2>2, <2>3
  <1>6. TypeOK'
    <2>1. cfgCh' \in [Streams -> Seq(Config)] /\ msg' \in [Streams -> Config \cup Command \cup {None}]
      BY <1>1, <1>2, <1>4, <1>5 DEF TypeOK
    <2>2. rpc' \in [Streams -> {"none", "recv", "config", "command", "done"}]
      BY <1>1, <1>2 DEF TypeOK
    <2>3. \A h \in Streams : Len(cfgCh'[h]) <= CfgCap /\ Len(cmdCh[h]) <= CmdCap
      <3>1. Len(cfgCh'[g]) <= CfgCap
        BY <1>2, <1>3, <1>5, ChannelCaps
      <3> QED BY <1>1, <1>4, <3>1 DEF TypeOK
    <2> QED BY <1>1, <1>2, <2>1, <2>2, <2>3 DEF TypeOK
  <1>7. InHand'
    BY <1>1, <1>2, <1>4 DEF InHand
  <1>8. \A h \in Streams : LastOnTheWay(h)'
    <2> SUFFICES ASSUME NEW h \in Streams PROVE LastOnTheWay(h)'
      OBVIOUS
    <2>1. CASE h # g
      BY <1>1, <1>2, <1>4, <2>1, StreamKept
    <2>2. CASE h = g
      <3>1. WireClear(g)' <=> WireClear(g)
        BY <1>2 DEF WireClear
      <3>2. WireClear(g) => m = last[g]
        BY <1>1, <1>2 DEF LastOnTheWay, m
      <3>3. cfgCh'[g][Len(cfgCh'[g])] = m
        BY <1>5
      <3> QED BY <1>1, <1>2, <1>4, <1>5, <2>2, <3>1, <3>2, <3>3 DEF LastOnTheWay
    <2> QED BY <2>1, <2>2
  <1>9. m \in At(g, 1 + 1)
    BY <1>2 DEF At, Held, m
  <1>10. QueuesOrdered'
    <2>1. \A i, k \in 1 .. Len(cfgCh'[g]) : i < k => cfgCh'[g][i].rev <= cfgCh'[g][k].rev
      <3> SUFFICES ASSUME NEW i \in 1 .. Len(cfgCh'[g]), NEW k \in 1 .. Len(cfgCh'[g]), i < k
                   PROVE  cfgCh'[g][i].rev <= cfgCh'[g][k].rev
        OBVIOUS
      <3>1. i \in 1 .. Len(cfgCh[g]) /\ cfgCh'[g][i] = cfgCh[g][i]
        BY <1>3, <1>5
      <3>2. CASE k = Len(cfgCh[g]) + 1
        <4>1. cfgCh[g][i] \in At(g, 1)
          BY <3>1 DEF At, Queued
        <4>2. Ahead(g, 1, g, 2) /\ 1 \in 0 .. 3 /\ 2 \in 0 .. 3 /\ 1 + 1 = 2
          BY DEF Ahead
        <4>3. cfgCh[g][i].rev <= m.rev
          BY <1>1, <1>9, <4>1, <4>2 DEF Flow, Ordered
        <4> QED BY <1>5, <3>1, <3>2, <4>3
      <3>3. CASE k # Len(cfgCh[g]) + 1
        <4>1. k \in 1 .. Len(cfgCh[g]) /\ cfgCh'[g][k] = cfgCh[g][k]
          BY <1>3, <1>5, <3>3
        <4> QED BY <1>1, <3>1, <4>1 DEF QueuesOrdered
      <3> QED BY <3>2, <3>3
    <2> QED BY <1>1, <1>2, <1>4, <2>1 DEF QueuesOrdered
  <1>11. Flow'
    <2>1. \A h \in Streams, j \in 0 .. 3 : \A d \in At(h, j)' : d \in At(h, j) \/ (h = g /\ j = 1 /\ d = m)
      <3> SUFFICES ASSUME NEW h \in Streams, NEW j \in 0 .. 3, NEW d \in At(h, j)'
                   PROVE  d \in At(h, j) \/ (h = g /\ j = 1 /\ d = m)
        OBVIOUS
      <3>1. CASE h # g
        BY <1>2, <1>4, <3>1, StreamKept
      <3>2. CASE h = g /\ j \in {0, 3}
        BY <1>2, <3>2 DEF At, Scheduled, OnWire
      <3>3. CASE h = g /\ j = 2
        BY <1>4, <3>3 DEF At, Held
      <3>4. CASE h = g /\ j = 1
        <4>1. PICK i \in 1 .. Len(cfgCh'[g]) : d = cfgCh'[g][i]
          BY <3>4 DEF At, Queued
        <4>2. d = m \/ \E n \in 1 .. Len(cfgCh[g]) : d = cfgCh[g][n]
          BY <1>3, <1>5, <4>1
        <4> QED BY <3>4, <4>2 DEF At, Queued
      <3> QED BY <3>1, <3>2, <3>3, <3>4
    <2>2. At(g, 1 + 1)' = {}
      BY <1>4 DEF At, Held
    <2>3. 1 \in 0 .. 2 /\ UNCHANGED <<cur, sentN, refl, iface>>
      BY <1>2
    <2> QED BY <1>1, <1>9, <2>1, <2>2, <2>3, OneMoves
  <1> QED BY <1>6, <1>7, <1>8, <1>10, <1>11 DEF IInv, Flow

(* The scheduler takes a configuration out of the channel.                 *)
LEMMA TakeConfigStep ==
  ASSUME IInv, NEW g \in Streams, TakeConfig(g)
  PROVE  IInv'
  <1> DEFINE m == Head(cfgCh[g])
  <1>1. /\ TypeOK /\ InHand /\ Flow /\ QueuesOrdered /\ \A h \in Streams : LastOnTheWay(h)
    BY DEF IInv, Flow
  <1>2. /\ spc[g] = "select" /\ cfgCh[g] # <<>>
        /\ specs' = [specs EXCEPT ![g] = m] /\ cfgCh' = [cfgCh EXCEPT ![g] = Tail(cfgCh[g])]
        /\ spc' = [spc EXCEPT ![g] = "reconcile"]
        /\ UNCHANGED <<cur, up, live, wire, last, sentN, rpc, msg, cmdCh, iface, refl, ran, unknown>>
    BY DEF TakeConfig, streamVars, serverVars, receiverVars
  <1>3. cfgCh[g] \in Seq(Config) /\ Len(cfgCh[g]) \in Nat \ {0}
    BY <1>1, <1>2 DEF TypeOK
  <1>4. /\ m \in Config /\ m = cfgCh[g][1]
        /\ Tail(cfgCh[g]) \in Seq(Config) /\ Len(Tail(cfgCh[g])) = Len(cfgCh[g]) - 1
        /\ \A i \in 1 .. Len(Tail(cfgCh[g])) : Tail(cfgCh[g])[i] = cfgCh[g][i + 1]
    BY <1>2, <1>3
  <1> HIDE DEF m
  <1>5. \A h \in Streams :
           /\ h # g => cfgCh'[h] = cfgCh[h] /\ specs'[h] = specs[h] /\ spc'[h] = spc[h]
           /\ h = g => cfgCh'[h] = Tail(cfgCh[g]) /\ specs'[h] = m /\ spc'[h] = "reconcile"
    BY <1>1, <1>2 DEF TypeOK
  <1>6. cfgCh'[g] = Tail(cfgCh[g]) /\ Len(cfgCh'[g]) = Len(cfgCh[g]) - 1
    BY <1>4, <1>5
  <1>7. \A i \in 1 .. Len(cfgCh'[g]) : cfgCh'[g][i] = cfgCh[g][i + 1] /\ i + 1 \in 2 .. Len(cfgCh[g])
    <2>1. \A i \in 1 .. Len(Tail(cfgCh[g])) : i + 1 \in 2 .. Len(cfgCh[g])
      BY <1>3, <1>4
    <2> QED BY <1>4, <1>6, <2>1
  <1>8. TypeOK'
    <2>1. cfgCh' \in [Streams -> Seq(Config)] /\ specs' \in [Streams -> Config \cup {None}]
      BY <1>1, <1>2, <1>4 DEF TypeOK
    <2>2. spc' \in [Streams -> {"none", "select", "reconcile", "setIface", "done"}]
      BY <1>1, <1>2 DEF TypeOK
    <2>3. \A h \in Streams : Len(cfgCh'[h]) <= CfgCap /\ Len(cmdCh[h]) <= CmdCap
      <3>1. Len(cfgCh[g]) <= CfgCap
        BY <1>1 DEF TypeOK
      <3>2. Len(cfgCh'[g]) <= CfgCap
        BY <1>3, <1>6, <3>1, ChannelCaps
      <3> QED BY <1>1, <1>5, <3>2 DEF TypeOK
    <2> QED BY <1>1, <1>2, <2>1, <2>2, <2>3 DEF TypeOK
  <1>9. InHand'
    BY <1>1, <1>2, <1>4, <1>5 DEF InHand
  <1>10. \A h \in Streams : LastOnTheWay(h)'
    <2> SUFFICES ASSUME NEW h \in Streams PROVE LastOnTheWay(h)'
      OBVIOUS
    <2>1. CASE h # g
      BY <1>1, <1>2, <1>5, <2>1, StreamKept
    <2>2. CASE h = g
      <3>1. WireClear(g)' <=> WireClear(g)
        BY <1>2 DEF WireClear
      <3>2. CASE Len(cfgCh[g]) = 1
        <4>1. cfgCh'[g] = <<>> /\ cfgCh[g][Len(cfgCh[g])] = m
          <5>1. cfgCh'[g] \in Seq(Config) /\ Len(cfgCh'[g]) = 0
            BY <1>4, <1>6, <3>2
          <5> QED BY <1>4, <3>2, <5>1, EmptyQueue
        <4> QED BY <1>1, <1>2, <1>5, <2>2, <3>1, <4>1 DEF LastOnTheWay
      <3>3. CASE Len(cfgCh[g]) # 1
        <4>1. /\ Len(cfgCh'[g]) \in 1 .. Len(cfgCh'[g]) /\ cfgCh'[g] # <<>>
              /\ Len(cfgCh'[g]) + 1 = Len(cfgCh[g])
          <5>1. cfgCh'[g] \in Seq(Config) /\ Len(cfgCh'[g]) = Len(cfgCh[g]) - 1
            BY <1>4, <1>6
          <5>2. Len(cfgCh'[g]) # 0 /\ Len(cfgCh'[g]) \in Nat
            BY <1>3, <3>3, <5>1
          <5>3. cfgCh'[g] # <<>>
            BY <5>1, <5>2, EmptyQueue
          <5>4. Len(cfgCh'[g]) \in 1 .. Len(cfgCh'[g]) /\ Len(cfgCh'[g]) + 1 = Len(cfgCh[g])
            <6>1. \A a \in Nat \ {0}, b \in Nat : b # 0 /\ b = a - 1 => b \in 1 .. b /\ b + 1 = a
              OBVIOUS
            <6> QED BY <1>3, <5>1, <5>2, <6>1
          <5> QED BY <5>3, <5>4
        <4>2. cfgCh'[g][Len(cfgCh'[g])] = cfgCh[g][Len(cfgCh[g])]
          BY <1>7, <4>1
        <4> QED BY <1>1, <1>2, <1>5, <2>2, <3>1, <4>1, <4>2 DEF LastOnTheWay
      <3> QED BY <3>2, <3>3
    <2> QED BY <2>1, <2>2
  <1>11. QueuesOrdered'
    <2>1. \A i, k \in 1 .. Len(cfgCh'[g]) : i < k => cfgCh'[g][i].rev <= cfgCh'[g][k].rev
      <3> SUFFICES ASSUME NEW i \in 1 .. Len(cfgCh'[g]), NEW k \in 1 .. Len(cfgCh'[g]), i < k
                   PROVE  cfgCh'[g][i].rev <= cfgCh'[g][k].rev
        OBVIOUS
      <3>1. /\ cfgCh'[g][i] = cfgCh[g][i + 1] /\ i + 1 \in 1 .. Len(cfgCh[g])
            /\ cfgCh'[g][k] = cfgCh[g][k + 1] /\ k + 1 \in 1 .. Len(cfgCh[g])
        BY <1>7
      <3>2. i + 1 < k + 1
        OBVIOUS
      <3> QED BY <1>1, <3>1, <3>2 DEF QueuesOrdered
    <2> QED BY <1>1, <1>2, <1>5, <2>1 DEF QueuesOrdered
  <1>12. Flow'
    <2>1. \A d \in At(g, 1)' : \E i \in 2 .. Len(cfgCh[g]) : d = cfgCh[g][i]
      <3> SUFFICES ASSUME NEW d \in At(g, 1)' PROVE \E i \in 2 .. Len(cfgCh[g]) : d = cfgCh[g][i]
        OBVIOUS
      <3>1. PICK i \in 1 .. Len(cfgCh'[g]) : d = cfgCh'[g][i]
        BY DEF At, Queued
      <3> QED BY <1>7, <3>1
    <2>2. \A h \in Streams, j \in 0 .. 3 : \A d \in At(h, j)' : d \in At(h, j) \/ (h = g /\ j = 0 /\ d = m)
      <3> SUFFICES ASSUME NEW h \in Streams, NEW j \in 0 .. 3, NEW d \in At(h, j)'
                   PROVE  d \in At(h, j) \/ (h = g /\ j = 0 /\ d = m)
        OBVIOUS
      <3>1. CASE h # g
        BY <1>2, <1>5, <3>1, StreamKept
      <3>2. CASE h = g /\ j \in {2, 3}
        BY <1>2, <3>2 DEF At, Held, OnWire
      <3>3. CASE h = g /\ j = 0
        BY <1>5, <3>3 DEF At, Scheduled
      <3>4. CASE h = g /\ j = 1
        <4>1. PICK i \in 2 .. Len(cfgCh[g]) : d = cfgCh[g][i]
          BY <2>1, <3>4
        <4>2. i \in 1 .. Len(cfgCh[g])
          OBVIOUS
        <4> QED BY <3>4, <4>1, <4>2 DEF At, Queued
      <3> QED BY <3>1, <3>2, <3>3, <3>4
    <2>3. m \in At(g, 0 + 1)
      BY <1>3, <1>4 DEF At, Queued
    <2>4. \A d \in At(g, 0 + 1)' : m.rev <= d.rev
      <3> SUFFICES ASSUME NEW d \in At(g, 1)' PROVE m.rev <= d.rev
        OBVIOUS
      <3>1. PICK i \in 2 .. Len(cfgCh[g]) : d = cfgCh[g][i]
        BY <2>1
      <3>2. 1 \in 1 .. Len(cfgCh[g]) /\ i \in 1 .. Len(cfgCh[g]) /\ 1 < i
        BY <1>3
      <3> QED BY <1>1, <1>4, <3>1, <3>2 DEF QueuesOrdered
    <2>5. 0 \in 0 .. 2 /\ UNCHANGED <<cur, sentN, refl, iface>>
      BY <1>2
    <2> QED BY <1>1, <2>2, <2>3, <2>4, <2>5, OneMoves
  <1> QED BY <1>8, <1>9, <1>10, <1>11, <1>12 DEF IInv, Flow

(* The reflector and the interface override follow the schedule.           *)
LEMMA ApplyStep ==
  ASSUME IInv, NEW g \in Streams, reconcilePerfmonReflector(g) \/ setWlanIface(g)
  PROVE  /\ IInv'
         /\ g = cur => /\ refl # None /\ refl' # None => refl'.rev >= refl.rev
                       /\ iface # None /\ iface' # None => iface'.rev >= iface.rev
  <1>1. /\ TypeOK /\ InHand /\ Flow /\ QueuesOrdered /\ \A h \in Streams : LastOnTheWay(h)
    BY DEF IInv, Flow
  <1>2. /\ spc[g] \in {"reconcile", "setIface"}
        /\ refl' \in {specs[g], None, refl} /\ iface' \in {specs[g], iface}
        /\ \E w \in {"select", "setIface"} : spc' = [spc EXCEPT ![g] = w]
        /\ UNCHANGED <<cur, up, live, wire, last, sentN, rpc, msg, cfgCh, cmdCh, specs, ran, unknown>>
    BY DEF reconcilePerfmonReflector, setWlanIface, streamVars, serverVars, receiverVars
  <1>3. specs[g] \in Config /\ specs[g] # None
    BY <1>1, <1>2, Sorts DEF InHand
  <1>4. spc' \in [Streams -> {"none", "select", "reconcile", "setIface", "done"}]
    BY <1>1, <1>2 DEF TypeOK
  <1>5. TypeOK'
    BY <1>1, <1>2, <1>3, <1>4 DEF TypeOK
  <1>6. InHand'
    <2>1. \A h \in Streams : /\ h # g => spc'[h] = spc[h]
                             /\ h = g => specs[h] \in Config
      BY <1>1, <1>2, <1>3 DEF TypeOK
    <2> QED BY <1>1, <1>2, <2>1 DEF InHand
  <1>7. \A h \in Streams, k \in 0 .. 3 : At(h, k)' = At(h, k)
    BY <1>2, StreamKept
  <1>8. QueuesOrdered' /\ \A h \in Streams : LastOnTheWay(h)'
    <2>1. QueuesOrdered'
      BY <1>1, <1>2 DEF QueuesOrdered
    <2> QED BY <1>1, <1>2, <2>1, StreamKept
  <1>9. specs[g] \in At(g, 0) /\ 0 \in 0 .. 3
    BY <1>3 DEF At, Scheduled
  <1>10. \A h \in Streams : h = cur => \A k \in 0 .. 3 : \A c \in At(h, k) : specs[g].rev <= c.rev
    <2> SUFFICES ASSUME NEW h \in Streams, h = cur, NEW k \in 0 .. 3, NEW c \in At(h, k)
                 PROVE  specs[g].rev <= c.rev
      OBVIOUS
    <2>1. g <= cur
      BY <1>1, <1>9 DEF Flow, AllSent
    <2>2. CASE g = h /\ k = 0
      <3>1. c = specs[g] /\ c.rev \in Nat
        BY <1>3, <2>2, Sorts DEF At, Scheduled
      <3> QED BY <3>1
    <2>3. CASE ~(g = h /\ k = 0)
      <3>1. Ahead(g, 0, h, k)
        BY <2>1, <2>3 DEF Ahead, Streams
      <3> QED BY <1>1, <1>9, <3>1 DEF Flow, Ordered
    <2> QED BY <2>2, <2>3
  <1>11. \A x \in {refl', iface'} \ {None} : x \in {refl, iface} \ {None} \/ x = specs[g]
    BY <1>2
  <1>12. Flow'
    <2>1. Ordered'
      BY <1>1, <1>7 DEF Flow, Ordered, Ahead
    <2>2. AllSent'
      BY <1>1, <1>2, <1>7, <1>9, <1>11 DEF Flow, AllSent
    <2>3. Behind'
      BY <1>1, <1>2, <1>7, <1>10, <1>11 DEF Flow, Behind
    <2> QED BY <2>1, <2>2, <2>3 DEF Flow
  <1>13. g = cur => \A x \in {refl, iface} \ {None} : x.rev <= specs[g].rev
    BY <1>1, <1>9 DEF Flow, Behind
  <1>14. \A x \in {refl, iface} \ {None} : x.rev \in Nat
    BY <1>1, Sorts DEF TypeOK
  <1>15. specs[g].rev \in Nat
    BY <1>3, Sorts
  <1>16. g = cur => /\ refl # None /\ refl' # None => refl'.rev >= refl.rev
                    /\ iface # None /\ iface' # None => iface'.rev >= iface.rev
    BY <1>2, <1>13, <1>14, <1>15
  <1> QED BY <1>5, <1>6, <1>8, <1>12, <1>16 DEF IInv, Flow

(* The steps that touch no configuration.                                  *)
LEMMA OtherSteps ==
  ASSUME IInv, NEW g \in Streams,
         \/ Connect(g) \/ StreamEnds(g) \/ RecvFails(g) \/ DeliverCommand(g)
         \/ TakeCommand(g) \/ SchedulerEnds(g) \/ UNCHANGED vars
  PROVE  IInv'
  <1>1. TypeOK /\ InHand /\ cur \in Nat /\ MaxStreams \in Nat
    BY AgentBounds DEF IInv, TypeOK
  <1>2. ASSUME UNCHANGED <<wire, last, cfgCh, specs>>, refl' = refl, iface' = iface,
               \A h \in Streams : /\ rpc'[h] = "config" <=> rpc[h] = "config"
                                  /\ rpc[h] = "config" => msg'[h] = msg[h],
               cur' \in {cur, cur + 1}, sentN' = sentN, TypeOK', InHand'
        PROVE  IInv'
    BY <1>2, PlacesKept DEF IInv, Flow
  <1>3. CASE Connect(g)
    <2>1. /\ g = cur + 1 /\ cur' = g /\ up' = TRUE /\ live' = [live EXCEPT ![g] = TRUE]
          /\ rpc' = [rpc EXCEPT ![g] = "recv"] /\ spc' = [spc EXCEPT ![g] = "select"]
          /\ UNCHANGED <<wire, last, sentN, msg, cfgCh, cmdCh, specs, iface, refl, ran, unknown>>
      BY <1>3 DEF Connect, serverVars
    <2>2. \A h \in Streams : /\ h # g => rpc'[h] = rpc[h] /\ spc'[h] = spc[h]
                             /\ h = g => rpc'[h] = "recv" /\ spc'[h] = "select"
      BY <1>1, <2>1 DEF TypeOK
    <2>3. rpc[g] # "config"
      <3>1. rpc[g] = "config" => msg[g] \in At(g, 2) /\ 2 \in 0 .. 3
        BY DEF At, Held
      <3>2. rpc[g] = "config" => g <= cur
        BY <3>1 DEF IInv, AllSent
      <3> QED BY <1>1, <2>1, <3>2
    <2>4. TypeOK'
      <3>1. cur' \in 0 .. MaxStreams
        BY <1>1, <2>1 DEF Streams
      <3>2. live' \in [Streams -> BOOLEAN]
        BY <1>1, <2>1 DEF TypeOK
      <3>3. /\ rpc' \in [Streams -> {"none", "recv", "config", "command", "done"}]
            /\ spc' \in [Streams -> {"none", "select", "reconcile", "setIface", "done"}]
        BY <1>1, <2>1 DEF TypeOK
      <3> QED BY <1>1, <2>1, <3>1, <3>2, <3>3 DEF TypeOK
    <2>5. InHand'
      BY <1>1, <2>1, <2>2 DEF InHand
    <2> QED BY <1>2, <2>1, <2>2, <2>3, <2>4, <2>5
  <1>4. CASE StreamEnds(g)
    <2>1. /\ up' = FALSE /\ live' = [live EXCEPT ![g] = FALSE]
          /\ UNCHANGED <<cur, wire, last, sentN, rpc, msg, cfgCh, cmdCh, spc, specs, iface, refl, ran, unknown>>
      BY <1>4 DEF StreamEnds, serverVars, receiverVars, schedulerVars
    <2>2. live' \in [Streams -> BOOLEAN]
      BY <1>1, <2>1 DEF TypeOK
    <2>3. TypeOK' /\ InHand'
      BY <1>1, <2>1, <2>2 DEF TypeOK, InHand
    <2> QED BY <1>2, <2>1, <2>3
  <1>5. CASE RecvFails(g)
    <2>1. /\ rpc[g] = "recv" /\ rpc' = [rpc EXCEPT ![g] = "done"] /\ live' = [live EXCEPT ![g] = FALSE]
          /\ UNCHANGED <<cur, up, wire, last, sentN, msg, cfgCh, cmdCh, spc, specs, iface, refl, ran, unknown>>
      BY <1>5 DEF RecvFails, serverVars, schedulerVars
    <2>2. \A h \in Streams : (h # g => rpc'[h] = rpc[h]) /\ (h = g => rpc'[h] = "done")
      BY <1>1, <2>1 DEF TypeOK
    <2>3. live' \in [Streams -> BOOLEAN]
      BY <1>1, <2>1 DEF TypeOK
    <2>4. rpc' \in [Streams -> {"none", "recv", "config", "command", "done"}]
      BY <1>1, <2>1 DEF TypeOK
    <2>5. TypeOK' /\ InHand'
      BY <1>1, <2>1, <2>2, <2>3, <2>4 DEF TypeOK, InHand
    <2> QED BY <1>2, <2>1, <2>2, <2>5
  <1>6. CASE DeliverCommand(g)
    <2>1. /\ rpc[g] = "command" /\ Len(cmdCh[g]) < CmdCap
          /\ cmdCh' = [cmdCh EXCEPT ![g] = Append(cmdCh[g], msg[g])]
          /\ rpc' = [rpc EXCEPT ![g] = "recv"] /\ msg' = [msg EXCEPT ![g] = None]
          /\ UNCHANGED <<cur, up, live, wire, last, sentN, cfgCh, spc, specs, iface, refl, ran, unknown>>
      BY <1>6 DEF DeliverCommand, streamVars, serverVars, schedulerVars
    <2>2. msg[g] \in Command /\ cmdCh[g] \in Seq(Command)
      BY <1>1, <2>1 DEF InHand, TypeOK
    <2>3. \A h \in Streams :
             /\ h # g => rpc'[h] = rpc[h] /\ msg'[h] = msg[h] /\ cmdCh'[h] = cmdCh[h]
             /\ h = g => rpc'[h] = "recv" /\ cmdCh'[h] = Append(cmdCh[g], msg[g])
      BY <1>1, <2>1 DEF TypeOK
    <2>4. Append(cmdCh[g], msg[g]) \in Seq(Command) /\ Len(Append(cmdCh[g], msg[g])) <= CmdCap
      BY <2>1, <2>2, ChannelCaps
    <2>5. /\ cmdCh' \in [Streams -> Seq(Command)]
          /\ msg' \in [Streams -> Config \cup Command \cup {None}]
          /\ rpc' \in [Streams -> {"none", "recv", "config", "command", "done"}]
      BY <1>1, <2>1, <2>4 DEF TypeOK
    <2>6. TypeOK' /\ InHand'
      BY <1>1, <2>1, <2>3, <2>4, <2>5 DEF TypeOK, InHand
    <2> QED BY <1>2, <2>1, <2>3, <2>6
  <1>7. CASE TakeCommand(g)
    <2> DEFINE cmd == Head(cmdCh[g])
    <2>1. /\ cmdCh[g] # <<>> /\ cmdCh' = [cmdCh EXCEPT ![g] = Tail(cmdCh[g])]
          /\ ran' \in {ran, ran \cup {cmd}} /\ unknown' \in {unknown, unknown \cup {cmd}}
          /\ UNCHANGED <<cur, up, live, wire, last, sentN, rpc, msg, cfgCh, spc, specs, iface, refl>>
      BY <1>7 DEF TakeCommand, streamVars, serverVars, receiverVars
    <2>2. cmdCh[g] \in Seq(Command) /\ Len(cmdCh[g]) <= CmdCap
      BY <1>1 DEF TypeOK
    <2>3. cmd \in Command /\ Tail(cmdCh[g]) \in Seq(Command) /\ Len(Tail(cmdCh[g])) <= CmdCap
      BY <2>1, <2>2, ChannelCaps
    <2> HIDE DEF cmd
    <2>4. \A h \in Streams : /\ h # g => cmdCh'[h] = cmdCh[h]
                             /\ h = g => cmdCh'[h] = Tail(cmdCh[g])
      BY <1>1, <2>1 DEF TypeOK
    <2>5. cmdCh' \in [Streams -> Seq(Command)] /\ ran' \subseteq Command /\ unknown' \subseteq Command
      BY <1>1, <2>1, <2>3 DEF TypeOK
    <2>6. TypeOK' /\ InHand'
      BY <1>1, <2>1, <2>3, <2>4, <2>5 DEF TypeOK, InHand
    <2> QED BY <1>2, <2>1, <2>6
  <1>8. CASE SchedulerEnds(g)
    <2>1. /\ spc' = [spc EXCEPT ![g] = "done"]
          /\ UNCHANGED <<cur, up, live, wire, last, sentN, rpc, msg, cfgCh, cmdCh, specs, iface, refl, ran, unknown>>
      BY <1>8 DEF SchedulerEnds, streamVars, serverVars, receiverVars
    <2>2. \A h \in Streams : (h # g => spc'[h] = spc[h]) /\ (h = g => spc'[h] = "done")
      BY <1>1, <2>1 DEF TypeOK
    <2>3. spc' \in [Streams -> {"none", "select", "reconcile", "setIface", "done"}]
      BY <1>1, <2>1 DEF TypeOK
    <2>4. TypeOK' /\ InHand'
      BY <1>1, <2>1, <2>2, <2>3 DEF TypeOK, InHand
    <2> QED BY <1>2, <2>1, <2>4
  <1>9. CASE UNCHANGED vars
    <2>1. UNCHANGED <<cur, up, live, wire, last, sentN, rpc, msg, cfgCh, cmdCh, spc, specs, iface, refl, ran, unknown>>
      BY <1>9 DEF vars, streamVars, serverVars, receiverVars, schedulerVars
    <2>2. TypeOK' /\ InHand'
      BY <1>1, <2>1 DEF TypeOK, InHand
    <2> QED BY <1>2, <2>1, <2>2
  <1> QED BY <1>3, <1>4, <1>5, <1>6, <1>7, <1>8, <1>9

-----------------------------------------------------------------------------
(* The theorems *)

(* Before the first stream there is nothing on the way.                    *)
LEMMA InitIInv == Init => IInv
  <1> SUFFICES ASSUME Init PROVE IInv
    OBVIOUS
  <1>1. /\ cur = 0 /\ up = FALSE /\ live = [g \in Streams |-> FALSE]
        /\ wire = [g \in Streams |-> <<>>] /\ last = [g \in Streams |-> None] /\ sentN = 0
        /\ rpc = [g \in Streams |-> "none"] /\ msg = [g \in Streams |-> None]
        /\ cfgCh = [g \in Streams |-> <<>>] /\ cmdCh = [g \in Streams |-> <<>>]
        /\ spc = [g \in Streams |-> "none"] /\ specs = [g \in Streams |-> None]
        /\ iface = None /\ refl = None /\ ran = {} /\ unknown = {}
    BY DEF Init
  <1>2. TypeOK
    <2>1. /\ live \in [Streams -> BOOLEAN] /\ last \in [Streams -> Config \cup {None}]
          /\ msg \in [Streams -> Config \cup Command \cup {None}] /\ specs \in [Streams -> Config \cup {None}]
      BY <1>1
    <2>2. /\ wire \in [Streams -> Seq(Config \cup Command)]
          /\ cfgCh \in [Streams -> Seq(Config)] /\ cmdCh \in [Streams -> Seq(Command)]
      BY <1>1
    <2>3. /\ rpc \in [Streams -> {"none", "recv", "config", "command", "done"}]
          /\ spc \in [Streams -> {"none", "select", "reconcile", "setIface", "done"}]
      BY <1>1
    <2>4. \A g \in Streams : Len(cfgCh[g]) <= CfgCap /\ Len(cmdCh[g]) <= CmdCap
      BY <1>1, ChannelCaps
    <2>5. cur \in 0 .. MaxStreams /\ sentN \in 0 .. MaxMessages
      BY <1>1, AgentBounds
    <2> QED BY <1>1, <2>1, <2>2, <2>3, <2>4, <2>5 DEF TypeOK
  <1>3. \A g \in Streams : /\ Len(wire[g]) = 0 /\ Len(cfgCh[g]) = 0 /\ specs[g] = None /\ last[g] = None
                           /\ rpc[g] = "none" /\ spc[g] = "none" /\ cfgCh[g] = <<>>
    BY <1>1
  <1>4. \A g \in Streams, k \in 0 .. 3 : At(g, k) = {}
    BY <1>3 DEF At, Scheduled, Queued, Held, OnWire
  <1>5. InHand
    BY <1>3 DEF InHand
  <1>6. \A g \in Streams : LastOnTheWay(g)
    BY <1>3 DEF LastOnTheWay
  <1>7. Ordered /\ QueuesOrdered
    BY <1>3, <1>4 DEF Ordered, QueuesOrdered
  <1>8. AllSent /\ Behind
    BY <1>1, <1>4 DEF AllSent, Behind
  <1> QED BY <1>2, <1>5, <1>6, <1>7, <1>8 DEF IInv

(* Every step of the server, the stream and its goroutines keeps it.       *)
LEMMA NextIInv == IInv /\ [Next]_vars => IInv'
  <1> SUFFICES ASSUME IInv, [Next]_vars PROVE IInv'
    OBVIOUS
  <1>1. CASE Next
    <2>1. PICK g \in Streams : Connect(g) \/ StreamEnds(g) \/ Server(g) \/ Receiver(g) \/ Scheduler(g)
      BY <1>1 DEF Next
    <2>2. CASE Server(g)
      BY <2>2, SendConfigStep, SendCommandStep DEF Server
    <2>3. CASE Receiver(g)
      BY <2>3, RecvStep, DeliverConfigStep, OtherSteps DEF Receiver
    <2>4. CASE Scheduler(g)
      BY <2>4, TakeConfigStep, ApplyStep, OtherSteps DEF Scheduler
    <2> QED BY <2>1, <2>2, <2>3, <2>4, OtherSteps
  <1>2. CASE UNCHANGED vars
    <2>1. CASE Streams = {}
      <3>1. UNCHANGED <<cur, up, live, wire, last, sentN, rpc, msg, cfgCh, cmdCh, spc, specs, iface, refl, ran, unknown>>
        BY <1>2 DEF vars, streamVars, serverVars, receiverVars, schedulerVars
      <3>2. TypeOK' /\ InHand'
        BY <3>1 DEF IInv, TypeOK, InHand
      <3>3. Flow' /\ QueuesOrdered' /\ \A h \in Streams : LastOnTheWay(h)'
        BY <3>1, PlacesKept
      <3> QED BY <3>2, <3>3 DEF IInv, Flow
    <2>2. CASE Streams # {}
      BY <1>2, <2>2, OtherSteps
    <2> QED BY <2>1, <2>2
  <1> QED BY <1>1, <1>2

(* On every stream the last configuration sent is the last on its way, and *)
(* those on the way are in order, for any channels and messages.           *)
THEOREM Invariance == Spec => []IInv
  BY InitIInv, NextIInv, PTL DEF Spec

(* Types, and the bounds of both channels.                                 *)
THEOREM TypeCorrect == Spec => []TypeOK
  <1>1. IInv => TypeOK
    BY DEF IInv
  <1> QED BY <1>1, Invariance, PTL

(* A stream that has settled runs the tests of the last configuration sent *)
(* on it, for channels of any capacity and any number of streams.          *)
THEOREM SettledIsCurrent == Spec => []ScheduleCurrent
  <1>1. IInv => ScheduleCurrent
    <2> SUFFICES ASSUME IInv, NEW g \in Streams, Settled(g) PROVE specs[g] = last[g]
      BY DEF ScheduleCurrent
    <2>1. wire[g] = <<>> /\ rpc[g] = "recv" /\ cfgCh[g] = <<>>
      BY DEF Settled
    <2>2. WireClear(g)
      BY <2>1 DEF WireClear
    <2> QED BY <2>1, <2>2 DEF IInv, LastOnTheWay
  <1> QED BY <1>1, Invariance, PTL

(* A step by which a scheduler applies a configuration. *)
MovesOn ==
    \A g \in Streams : g = cur /\ spc[g] \in {"reconcile", "setIface"} /\ spc'[g] # spc[g] =>
       /\ refl # None /\ refl' # None => refl'.rev >= refl.rev
       /\ iface # None /\ iface' # None => iface'.rev >= iface.rev

(* Only applying it takes a scheduler out of those two places.             *)
LEMMA StepMovesOn == IInv /\ [Next]_vars => MovesOn \/ UNCHANGED vars
  <1> SUFFICES ASSUME IInv, Next,
                      NEW g \in Streams, g = cur, spc[g] \in {"reconcile", "setIface"}, spc'[g] # spc[g]
               PROVE  /\ refl # None /\ refl' # None => refl'.rev >= refl.rev
                      /\ iface # None /\ iface' # None => iface'.rev >= iface.rev
    BY DEF MovesOn
  <1>1. spc \in [Streams -> {"none", "select", "reconcile", "setIface", "done"}] /\ cur \in Nat
    BY DEF IInv, TypeOK
  <1>2. PICK h \in Streams : Connect(h) \/ StreamEnds(h) \/ Server(h) \/ Receiver(h) \/ Scheduler(h)
    BY DEF Next
  <1>3. CASE Connect(h)
    <2>1. spc' = [spc EXCEPT ![h] = "select"] /\ h # g
      BY <1>1, <1>3 DEF Connect
    <2> QED BY <1>1, <2>1
  <1>4. CASE StreamEnds(h) \/ Server(h) \/ Receiver(h)
    BY <1>4 DEF StreamEnds, Server, SendConfig, SendCommand, Receiver, Recv, RecvFails, DeliverConfig,
                DeliverCommand, schedulerVars
  <1>5. CASE TakeConfig(h) \/ TakeCommand(h) \/ SchedulerEnds(h)
    <2>1. /\ spc[h] = "select"
          /\ spc' = spc \/ \E w : spc' = [spc EXCEPT ![h] = w]
      BY <1>5 DEF TakeConfig, TakeCommand, SchedulerEnds
    <2> QED BY <1>1, <2>1
  <1>6. CASE reconcilePerfmonReflector(h) \/ setWlanIface(h)
    <2>1. \E w : spc' = [spc EXCEPT ![h] = w]
      BY <1>6 DEF reconcilePerfmonReflector, setWlanIface
    <2>2. h = g
      BY <1>1, <2>1
    <2> QED BY <1>6, <2>2, ApplyStep
  <1> QED BY <1>2, <1>3, <1>4, <1>5, <1>6 DEF Scheduler

(* The newest stream's scheduler never sets the reflector or the interface *)
(* override back to an older configuration, whatever the schedulers of     *)
(* older streams do meanwhile.                                             *)
THEOREM NewestMovesOn == Spec => NewestStreamMovesOn
  <1>1. IInv /\ [Next]_vars => [MovesOn]_vars
    BY StepMovesOn
  <1>2. NewestStreamMovesOn <=> [][MovesOn]_vars
    BY PTL DEF NewestStreamMovesOn, MovesOn
  <1> QED BY <1>1, <1>2, Invariance, PTL DEF Spec

=============================================================================

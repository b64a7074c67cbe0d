--------------------------- MODULE VerdictsProofs ---------------------------
(***************************************************************************)
(* Proofs about Verdicts: test definitions (TestDefs) for any requests,    *)
(* catalogues and agents, and the dashboard's verdicts (Overview) for any  *)
(* sites, agents, results and windows.                                     *)
(***************************************************************************)
EXTENDS Verdicts, FiniteSetTheorems, TLAPS

-----------------------------------------------------------------------------
(* Parameters *)

(* Trimming changes nothing the second time. *)
LEMMA TrimTwice == \A s : TrimSpace(TrimSpace(s)) = TrimSpace(s)
  BY DEF TrimSpace

(* Trimmed text is text. *)
LEMMA TrimType == \A s \in Text : TrimSpace(s) \in Text
  <1> TAKE s \in Text
  <1>1. TrimSpace(s) \in {"", "plain", s}
    BY DEF TrimSpace
  <1> QED BY <1>1, DefsText, Zenon

(* The check of one type's parameters gives Error, or parameters of that   *)
(* type which it gives back unchanged.                                     *)
Settles(type, p, q) == q # Error => q \in ParamsOf(type) /\ Validate(type, q) = q

(* PingParams.Validate settles: the count is filled in once. *)
LEMMA PingSettles ==
  ASSUME NEW p \in ParamsOf("ping") PROVE Settles("ping", p, Validate("ping", p))
  <1> SUFFICES ASSUME Validate("ping", p) # Error
               PROVE  LET q == Validate("ping", p) IN q \in ParamsOf("ping") /\ Validate("ping", q) = q
    BY DEF Settles
  <1>1. p \in [targets : SUBSET Text, count : Nat]
    BY DEF ParamsOf
  <1> DEFINE q == [p EXCEPT !.count = orElse(@, 0, 5)]
  <1>2. Validate("ping", p) = q /\ q.targets # {} /\ q.count <= 20
    BY DEF Validate, ValidatePing, normal
  <1>3. q \in [targets : SUBSET Text, count : Nat] /\ q.count # 0
    BY <1>1 DEF orElse
  <1>4. [q EXCEPT !.count = orElse(@, 0, 5)] = q
    BY <1>3 DEF orElse
  <1>5. Validate("ping", q) = q
    BY <1>2, <1>4 DEF Validate, ValidatePing, normal
  <1>6. q \in ParamsOf("ping")
    BY <1>3 DEF ParamsOf
  <1> QED BY <1>2, <1>5, <1>6

(* DNSParams.Validate settles: it changes nothing. *)
LEMMA DNSSettles ==
  ASSUME NEW p \in ParamsOf("dns") PROVE Settles("dns", p, Validate("dns", p))
  BY DEF Settles, Validate, ValidateDNS, normal

(* HTTPParams.Validate settles: the URL is trimmed, the timeout filled in. *)
LEMMA HTTPSettles ==
  ASSUME NEW p \in ParamsOf("http") PROVE Settles("http", p, Validate("http", p))
  <1> SUFFICES ASSUME Validate("http", p) # Error
               PROVE  LET q == Validate("http", p) IN q \in ParamsOf("http") /\ Validate("http", q) = q
    BY DEF Settles
  <1>1. p \in [url : Text, timeout : Nat]
    BY DEF ParamsOf
  <1> DEFINE q == [p EXCEPT !.url = TrimSpace(@), !.timeout = orElse(@, 0, 10)]
  <1>2. Validate("http", p) = q /\ q.url = "plain"
    BY DEF Validate, ValidateHTTP, normal
  <1>a. \A s \in Text, n \in Nat : LET r == [p EXCEPT !.url = s, !.timeout = n]
                                     IN  r \in [url : Text, timeout : Nat] /\ r.url = s /\ r.timeout = n
    BY <1>1
  <1>b. TrimSpace(p.url) \in Text /\ orElse(p.timeout, 0, 10) \in Nat \ {0}
    BY <1>1, TrimType DEF orElse
  <1>c. TrimSpace(TrimSpace(p.url)) = TrimSpace(p.url)
    BY TrimTwice
  <1>3. q \in [url : Text, timeout : Nat] /\ q.timeout # 0 /\ TrimSpace(q.url) = q.url
    BY <1>a, <1>b, <1>c
  <1>4. [q EXCEPT !.url = TrimSpace(@), !.timeout = orElse(@, 0, 10)] = q
    BY <1>3 DEF orElse
  <1>5. Validate("http", q) = q
    BY <1>2, <1>4 DEF Validate, ValidateHTTP, normal
  <1>6. q \in ParamsOf("http")
    BY <1>3 DEF ParamsOf
  <1> QED BY <1>2, <1>5, <1>6

(* TCPParams.Validate settles: the timeout is filled in once. *)
LEMMA TCPSettles ==
  ASSUME NEW p \in ParamsOf("tcp") PROVE Settles("tcp", p, Validate("tcp", p))
  <1> SUFFICES ASSUME Validate("tcp", p) # Error
               PROVE  LET q == Validate("tcp", p) IN q \in ParamsOf("tcp") /\ Validate("tcp", q) = q
    BY DEF Settles
  <1>1. p \in [targets : SUBSET Text, timeout : Nat]
    BY DEF ParamsOf
  <1> DEFINE q == [p EXCEPT !.timeout = orElse(@, 0, 5)]
  <1>2. Validate("tcp", p) = q /\ p.targets # {} /\ p.targets \subseteq {"host:port"}
    BY DEF Validate, ValidateTCP, normal
  <1>3. q \in [targets : SUBSET Text, timeout : Nat] /\ q.timeout # 0 /\ q.targets = p.targets
    BY <1>1 DEF orElse
  <1>4. [q EXCEPT !.timeout = orElse(@, 0, 5)] = q
    BY <1>3 DEF orElse
  <1>5. Validate("tcp", q) = q
    BY <1>2, <1>3, <1>4 DEF Validate, ValidateTCP, normal
  <1>6. q \in ParamsOf("tcp")
    BY <1>3 DEF ParamsOf
  <1> QED BY <1>2, <1>5, <1>6

(* Speedtests and passive WLAN tests are stored as they come. *)
LEMMA PlainSettles ==
  /\ \A p \in ParamsOf("speedtest") : Settles("speedtest", p, Validate("speedtest", p))
  /\ \A p \in ParamsOf("wlan_passive") : Settles("wlan_passive", p, Validate("wlan_passive", p))
  <1>1. \A p \in ParamsOf("speedtest") : Settles("speedtest", p, Validate("speedtest", p))
    BY DEF Settles, Validate, ValidateSpeedtest, normal
  <1>2. \A p \in ParamsOf("wlan_passive") : Settles("wlan_passive", p, Validate("wlan_passive", p))
    BY DEF Settles, Validate, ValidateWlanPassive
  <1> QED BY <1>1, <1>2

(* WlanActiveParams.Validate settles: what it fills in needs no more. *)
LEMMA WlanActiveSettles ==
  ASSUME NEW p \in ParamsOf("wlan_active") PROVE Settles("wlan_active", p, Validate("wlan_active", p))
  <1> DEFINE Fields == [ssid : Text, security : Text, password : BOOLEAN, identity : BOOLEAN,
                        ca : BOOLEAN, skip : BOOLEAN, mac : Text]
             Fill(x) == [x EXCEPT !.ssid = TrimSpace(@), !.security = orElse(@, "", "psk"),
                                  !.mac = orElse(@, "", "permanent")]
             Usable(q) == /\ q.ssid # ""
                          /\ q.security \in {"psk", "eap-peap", "open"}
                          /\ q.security = "psk" => q.password
                          /\ q.security = "eap-peap" => q.identity /\ q.password /\ (q.ca \/ q.skip)
                          /\ q.mac \in {"permanent", "random"}
  <1> SUFFICES ASSUME Validate("wlan_active", p) # Error
               PROVE  LET q == Validate("wlan_active", p) IN q \in ParamsOf("wlan_active") /\ Validate("wlan_active", q) = q
    BY DEF Settles
  <1>1. p \in Fields
    BY DEF ParamsOf
  <1>2. \A x : Validate("wlan_active", x) = IF Usable(Fill(x)) THEN Fill(x) ELSE Error
    BY DEF Validate, ValidateWlanActive, normal
  <1>3. Usable(Fill(p)) /\ Validate("wlan_active", p) = Fill(p)
    BY <1>2
  <1>4. TrimSpace(p.ssid) \in Text /\ TrimSpace(TrimSpace(p.ssid)) = TrimSpace(p.ssid)
    BY <1>1, TrimType, TrimTwice
  <1>a. \A s, c, m \in Text : LET r == [p EXCEPT !.ssid = s, !.security = c, !.mac = m]
                                IN  r \in Fields /\ r.ssid = s /\ r.security = c /\ r.mac = m
    BY <1>1
  <1>b. orElse(p.security, "", "psk") \in Text \ {""} /\ orElse(p.mac, "", "permanent") \in Text \ {""}
    BY <1>1, DefsText DEF orElse
  <1>5. Fill(p) \in Fields /\ Fill(p).security # "" /\ Fill(p).mac # "" /\ TrimSpace(Fill(p).ssid) = Fill(p).ssid
    BY <1>a, <1>b, <1>4
  <1>6. \A q \in Fields : q.security # "" /\ q.mac # "" /\ TrimSpace(q.ssid) = q.ssid => Fill(q) = q
    BY DEF orElse
  <1>7. Fill(Fill(p)) = Fill(p)
    BY <1>5, <1>6
  <1>8. Fill(p) \in ParamsOf("wlan_active")
    BY <1>5 DEF ParamsOf
  <1> HIDE DEF Fill, Usable, Fields
  <1> QED BY <1>2, <1>3, <1>7, <1>8

(* PerfmonParams.Validate settles: trimmed, and the duration in range. *)
LEMMA PerfmonSettles ==
  ASSUME NEW p \in ParamsOf("perfmon") PROVE Settles("perfmon", p, Validate("perfmon", p))
  <1> DEFINE Fields == [source : Text \cup Devices, target : Text, duration : Nat]
             Fill(x) == [x EXCEPT !.source = TrimSpace(@), !.target = TrimSpace(@), !.duration = orElse(@, 0, 5)]
             Usable(q) == q.source # "" /\ q.target = "host:port" /\ q.duration <= 30
  <1> SUFFICES ASSUME Validate("perfmon", p) # Error
               PROVE  LET q == Validate("perfmon", p) IN q \in ParamsOf("perfmon") /\ Validate("perfmon", q) = q
    BY DEF Settles
  <1>1. p \in Fields
    BY DEF ParamsOf
  <1>2. \A x : Validate("perfmon", x) = IF Usable(Fill(x)) THEN Fill(x) ELSE Error
    BY DEF Validate, ValidatePerfmon, normal
  <1>3. Usable(Fill(p)) /\ Validate("perfmon", p) = Fill(p)
    BY <1>2
  <1>4. /\ TrimSpace(p.source) \in Text \cup Devices /\ TrimSpace(p.target) \in Text
        /\ orElse(p.duration, 0, 5) \in Nat \ {0}
    <2>1. p.source \in Text \cup Devices /\ p.target \in Text /\ p.duration \in Nat
      BY <1>1
    <2>2. TrimSpace(p.source) \in {"", "plain", p.source}
      BY DEF TrimSpace
    <2>3. TrimSpace(p.source) \in Text \cup Devices
      BY <2>1, <2>2, DefsText, Zenon
    <2> QED BY <2>1, <2>3, TrimType DEF orElse
  <1>5. \A s \in Text \cup Devices, t \in Text, n \in Nat :
           LET r == [p EXCEPT !.source = s, !.target = t, !.duration = n]
           IN  r \in Fields /\ r.source = s /\ r.target = t /\ r.duration = n
    BY <1>1
  <1>6. /\ Fill(p) \in Fields /\ Fill(p).duration # 0
        /\ TrimSpace(Fill(p).source) = Fill(p).source /\ TrimSpace(Fill(p).target) = Fill(p).target
    BY <1>4, <1>5, TrimTwice
  <1>7. \A q \in Fields : /\ q.duration # 0 /\ TrimSpace(q.source) = q.source /\ TrimSpace(q.target) = q.target
                          => Fill(q) = q
    BY DEF orElse
  <1>8. Fill(Fill(p)) = Fill(p)
    BY <1>6, <1>7
  <1>9. Fill(p) \in ParamsOf("perfmon")
    BY <1>6 DEF ParamsOf
  <1> HIDE DEF Fill, Usable, Fields
  <1> QED BY <1>2, <1>3, <1>8, <1>9

(* SaasParams.Validate settles while the catalogue stays. *)
LEMMA SaasSettles ==
  ASSUME NEW p \in ParamsOf("saas") PROVE Settles("saas", p, Validate("saas", p))
  <1> DEFINE Fields == [service : Text]
             Fill(x) == [x EXCEPT !.service = TrimSpace(@)]
             Usable(q) == q.service \in catalog
  <1> SUFFICES ASSUME Validate("saas", p) # Error
               PROVE  LET q == Validate("saas", p) IN q \in ParamsOf("saas") /\ Validate("saas", q) = q
    BY DEF Settles
  <1>1. p \in Fields
    BY DEF ParamsOf
  <1>2. \A x : Validate("saas", x) = IF Usable(Fill(x)) THEN Fill(x) ELSE Error
    BY DEF Validate, ValidateSaas, normal
  <1>3. Usable(Fill(p)) /\ Validate("saas", p) = Fill(p)
    BY <1>2
  <1>4. TrimSpace(p.service) \in Text
    BY <1>1, TrimType
  <1>5. \A s \in Text : LET r == [p EXCEPT !.service = s] IN r \in Fields /\ r.service = s
    BY <1>1
  <1>6. Fill(p) \in Fields /\ TrimSpace(Fill(p).service) = Fill(p).service
    BY <1>4, <1>5, TrimTwice
  <1>7. \A q \in Fields : TrimSpace(q.service) = q.service => Fill(q) = q
    OBVIOUS
  <1>8. Fill(Fill(p)) = Fill(p)
    BY <1>6, <1>7
  <1>9. Fill(p) \in ParamsOf("saas")
    BY <1>6 DEF ParamsOf
  <1> HIDE DEF Fill, Usable, Fields
  <1> QED BY <1>2, <1>3, <1>8, <1>9

(* The port goes by the protocol that has been filled in, not by the one   *)
(* that was asked for.                                                     *)
LEMMA TracerouteSettles ==
  ASSUME NEW p \in ParamsOf("traceroute") PROVE Settles("traceroute", p, Validate("traceroute", p))
  <1> DEFINE Fields == [target : Text, protocol : Text, port : Nat, hops : Nat, probes : Nat]
             Proto(x) == orElse(x.protocol, "", "tcp")
             Fill(x) == [x EXCEPT !.target = TrimSpace(@), !.protocol = Proto(x),
                                  !.port = IF Proto(x) \in {"tcp", "udp"} THEN orElse(@, 0, 443) ELSE @,
                                  !.hops = orElse(@, 0, 30), !.probes = orElse(@, 0, 5)]
             Usable(x, q) == q.target # "" /\ Proto(x) \in {"icmp", "tcp", "udp"} /\ q.hops <= 64
             Port(x) == IF Proto(x) \in {"tcp", "udp"} THEN orElse(x.port, 0, 443) ELSE x.port
  <1> SUFFICES ASSUME Validate("traceroute", p) # Error
               PROVE  LET q == Validate("traceroute", p) IN q \in ParamsOf("traceroute") /\ Validate("traceroute", q) = q
    BY DEF Settles
  <1>1. p \in Fields
    BY DEF ParamsOf
  <1>2. \A x : Validate("traceroute", x) = IF Usable(x, Fill(x)) THEN Fill(x) ELSE Error
    BY DEF Validate, ValidateTraceroute, normal
  <1>3. Usable(p, Fill(p)) /\ Validate("traceroute", p) = Fill(p)
    <2> HIDE DEF Fill, Usable
    <2> QED BY <1>2
  <1>4. /\ TrimSpace(p.target) \in Text /\ Proto(p) \in Text \ {""} /\ Port(p) \in Nat
        /\ Proto(p) \in {"tcp", "udp"} => Port(p) # 0
        /\ orElse(p.hops, 0, 30) \in Nat \ {0} /\ orElse(p.probes, 0, 5) \in Nat \ {0}
    <2>1. p.target \in Text /\ p.protocol \in Text /\ p.port \in Nat /\ p.hops \in Nat /\ p.probes \in Nat
      BY <1>1
    <2>2. Proto(p) \in Text \ {""}
      BY <2>1, DefsText DEF orElse
    <2>3. orElse(p.hops, 0, 30) \in Nat \ {0} /\ orElse(p.probes, 0, 5) \in Nat \ {0}
      BY <2>1 DEF orElse
    <2> HIDE DEF Proto
    <2>4. Port(p) \in Nat /\ (Proto(p) \in {"tcp", "udp"} => Port(p) # 0)
      BY <2>1 DEF orElse
    <2> QED BY <2>1, <2>2, <2>3, <2>4, TrimType
  <1>6. /\ Fill(p) \in Fields /\ Fill(p).protocol = Proto(p) /\ Fill(p).port = Port(p)
        /\ Fill(p).hops # 0 /\ Fill(p).probes # 0 /\ TrimSpace(Fill(p).target) = Fill(p).target
    <2>1. TrimSpace(TrimSpace(p.target)) = TrimSpace(p.target)
      BY TrimTwice
    <2>2. Fill(p) = [p EXCEPT !.target = TrimSpace(p.target), !.protocol = Proto(p), !.port = Port(p),
                              !.hops = orElse(p.hops, 0, 30), !.probes = orElse(p.probes, 0, 5)]
      OBVIOUS
    <2> DEFINE h == orElse(p.hops, 0, 30)
               b == orElse(p.probes, 0, 5)
               s == TrimSpace(p.target)
               t == Proto(p)
               n == Port(p)
    <2>3. h \in Nat \ {0} /\ b \in Nat \ {0} /\ s \in Text /\ t \in Text /\ n \in Nat
      BY <1>4
    <2> DEFINE r == [p EXCEPT !.target = s, !.protocol = t, !.port = n, !.hops = h, !.probes = b]
    <2> HIDE DEF h, b, s, t, n
    <2>4. r \in Fields /\ r.target = s /\ r.protocol = t /\ r.port = n /\ r.hops = h /\ r.probes = b
      <3>1. r \in Fields
        BY <1>1, <2>3
      <3>2. r.target = s /\ r.protocol = t /\ r.port = n /\ r.hops = h /\ r.probes = b
        BY <1>1, <2>3
      <3> QED BY <3>1, <3>2
    <2>5. Fill(p) = r
      BY <2>2 DEF s, t, n, h, b
    <2> HIDE DEF Fill, Fields, r
    <2>6. Fill(p) \in Fields /\ Fill(p).target = s /\ Fill(p).protocol = t /\ Fill(p).port = n
          /\ Fill(p).hops # 0 /\ Fill(p).probes # 0
      BY <2>3, <2>4, <2>5
    <2>7. TrimSpace(s) = s
      BY <2>1 DEF s
    <2> QED BY <2>6, <2>7 DEF t, n
  <1>7. \A q \in Fields : /\ q.protocol # "" /\ (q.protocol \in {"tcp", "udp"} => q.port # 0)
                          /\ q.hops # 0 /\ q.probes # 0 /\ TrimSpace(q.target) = q.target
                          => Fill(q) = q /\ Proto(q) = q.protocol
    BY DEF orElse
  <1>8. Fill(Fill(p)) = Fill(p) /\ Proto(Fill(p)) = Proto(p)
    <2> HIDE DEF Fill, Proto, Port, Fields
    <2> QED BY <1>4, <1>6, <1>7
  <1>9. Fill(p) \in ParamsOf("traceroute")
    BY <1>6 DEF ParamsOf
  <1>10. Usable(Fill(p), Fill(Fill(p)))
    <2>1. Fill(p).target # "" /\ Proto(p) \in {"icmp", "tcp", "udp"} /\ Fill(p).hops <= 64
      BY <1>3
    <2> DEFINE f == Fill(p)
               g == Fill(f)
               t == Proto(f)
    <2>2. g = f /\ t = Proto(p) /\ f.target # "" /\ f.hops <= 64
      BY <1>8, <2>1
    <2>3. g.target # "" /\ t \in {"icmp", "tcp", "udp"} /\ g.hops <= 64
      <3> HIDE DEF f, g, t, Proto
      <3> QED BY <2>1, <2>2
    <2> QED BY <2>3
  <1> HIDE DEF Fill, Usable, Fields, Proto
  <1> QED BY <1>2, <1>3, <1>8, <1>9, <1>10

(* What the check of any type lets through it gives back unchanged. *)
LEMMA ChecksSettle ==
  ASSUME NEW type \in Types, NEW p \in ParamsOf(type)
  PROVE  Settles(type, p, Validate(type, p))
  BY PingSettles, DNSSettles, HTTPSettles, TCPSettles, PlainSettles, WlanActiveSettles, PerfmonSettles, SaasSettles,
     TracerouteSettles DEF Types

-----------------------------------------------------------------------------
(* Definitions *)

Definitions == [type : Types, interval : Nat, warn : Nat, crit : Nat, params : UNION {ParamsOf(type) : type \in Types}]

(* A stored definition is one the check gives back as it is. *)
Kept(t) ==
    /\ t \in Definitions /\ t.params \in ParamsOf(t.type) /\ Validate(t.type, t.params) = t.params
    /\ Get(t.type) # Absent /\ ~ (t.interval < Get(t.type).minInterval) /\ bandsInOrder(t)

DefsInv ==
    /\ stored = Absent \/ Kept(stored)
    /\ DOMAIN caps = Devices /\ DOMAIN binary = Devices
    /\ \A a \in Devices : caps[a] \in {Absent, DetectCapabilities(host[a])}

(* Parameters of a type are told from the markers. *)
LEMMA ParamsReal ==
  ASSUME NEW type \in Types, NEW p \in ParamsOf(type)
  PROVE  p # Absent /\ p # Garbage /\ p # Error /\ Normalized(type, p) = Validate(type, p)
  BY DefsMarkers DEF Normalized, DecodeParams

(* The zero value of a type is one of its values. *)
LEMMA ZeroTyped == ASSUME NEW type \in Types PROVE Zero(type) \in ParamsOf(type)
  <1>1. CASE type = "ping"
    BY <1>1 DEF Zero, ParamsOf
  <1>2. CASE type = "dns"
    BY <1>2 DEF Zero, ParamsOf
  <1>3. CASE type = "http"
    BY <1>3, DefsText DEF Zero, ParamsOf
  <1>4. CASE type = "tcp"
    BY <1>4 DEF Zero, ParamsOf
  <1>5. CASE type = "speedtest"
    BY <1>5, DefsText DEF Zero, ParamsOf
  <1>6. CASE type = "wlan_passive"
    BY <1>6 DEF Zero, ParamsOf
  <1>7. CASE type = "wlan_active"
    BY <1>7, DefsText DEF Zero, ParamsOf
  <1>8. CASE type = "perfmon"
    BY <1>8, DefsText DEF Zero, ParamsOf
  <1>9. CASE type = "saas"
    BY <1>9, DefsText DEF Zero, ParamsOf
  <1>10. CASE type = "traceroute"
    BY <1>10, DefsText DEF Zero, ParamsOf
  <1> QED BY <1>1, <1>2, <1>3, <1>4, <1>5, <1>6, <1>7, <1>8, <1>9, <1>10 DEF Types

(* What the check of a request lets through may be stored. *)
LEMMA CheckedIsKept ==
  ASSUME NEW t \in Saves, ValidateTestDef(t) # Error
  PROVE  Kept(ValidateTestDef(t))
  <1> DEFINE p == Normalized(t.type, t.params)
             d == [t EXCEPT !.params = p]
  <1>1. /\ Get(t.type) # Absent /\ ~ (t.interval < Get(t.type).minInterval) /\ bandsInOrder(t)
        /\ p # Error /\ ValidateTestDef(t) = d
    BY DEF ValidateTestDef
  <1>2. t.type \in Types
    BY <1>1 DEF Get
  <1>3. /\ t \in [type : Types \cup {"unknown"}, interval : Nat, warn : Nat, crit : Nat, params : {t.params}]
        /\ t.params \in ParamsOf(t.type) \cup {Absent, Garbage}
    BY <1>2, DefsSaves
  <1>4. DecodeParams(t.type, t.params) \in ParamsOf(t.type) /\ p = Validate(t.type, DecodeParams(t.type, t.params))
    <2>1. t.params # Garbage /\ p = Validate(t.type, DecodeParams(t.type, t.params))
      BY <1>1 DEF Normalized
    <2> QED BY <1>2, <1>3, <2>1, ZeroTyped DEF DecodeParams
  <1>5. p \in ParamsOf(t.type) /\ Validate(t.type, p) = p
    BY <1>1, <1>2, <1>4, ChecksSettle DEF Settles
  <1> HIDE DEF p
  <1>6. /\ d.type = t.type /\ d.interval = t.interval /\ d.warn = t.warn /\ d.crit = t.crit /\ d.params = p
        /\ d \in [type : Types, interval : Nat, warn : Nat, crit : Nat, params : {p}]
    BY <1>2, <1>3
  <1> HIDE DEF d
  <1>7. d \in Definitions
    BY <1>2, <1>5, <1>6 DEF Definitions
  <1>8. bandsInOrder(d)
    BY <1>1, <1>6 DEF bandsInOrder
  <1> QED BY <1>1, <1>5, <1>6, <1>7, <1>8 DEF Kept

(* What agents are sent is no error. *)
LEMMA AppliedTyped ==
  ASSUME NEW type \in Types, NEW p \in ParamsOf(type)
  PROVE  Apply(type, p) \in SentOf(type)
  <1>1. CASE type = "saas"
    <2>1. p \in [service : Text]
      BY <1>1 DEF ParamsOf
    <2>2. Apply(type, p) = [endpointsOf |-> p.service] /\ SentOf(type) = [endpointsOf : Text]
      BY <1>1 DEF Apply, SentOf
    <2> QED BY <2>1, <2>2
  <1>2. CASE type = "perfmon"
    <2>1. p \in [source : Text \cup Devices, target : Text, duration : Nat]
      BY <1>2 DEF ParamsOf
    <2>2. Apply(type, p) = [target |-> p.target, duration |-> p.duration] /\ SentOf(type) = [target : Text, duration : Nat]
      BY <1>2 DEF Apply, SentOf
    <2> QED BY <2>1, <2>2
  <1>3. CASE type \notin {"saas", "perfmon"}
    <2>1. Apply(type, p) = p /\ SentOf(type) = ParamsOf(type)
      BY <1>3 DEF Apply, SentOf
    <2> QED BY <2>1
  <1> QED BY <1>1, <1>2, <1>3

(* A kept definition is accepted again as it is, and a spec made of it. *)
LEMMA KeptIsGood ==
  ASSUME NEW t, Kept(t)
  PROVE  ValidateTestDef(t) = t /\ TestSpec(t) # Error
  <1>1. /\ t \in Definitions /\ t.type \in Types /\ t.params \in ParamsOf(t.type)
        /\ Validate(t.type, t.params) = t.params
    BY DEF Kept, Definitions
  <1>2. Normalized(t.type, t.params) = t.params /\ t.params # Error
    BY <1>1, ParamsReal
  <1>3. [t EXCEPT !.params = t.params] = t
    BY <1>1 DEF Definitions
  <1>4. ValidateTestDef(t) = t
    BY <1>2, <1>3 DEF ValidateTestDef, Kept
  <1>5. TestSpec(t) = [type |-> t.type, interval |-> t.interval, params |-> Apply(t.type, t.params)]
    BY <1>2 DEF TestSpec, Kept
  <1>6. Apply(t.type, t.params) \in SentOf(t.type) /\ t.interval \in Nat
    BY <1>1, AppliedTyped DEF Definitions
  <1>7. TestSpec(t) \in [type : {t.type}, interval : Nat, params : SentOf(t.type)]
    BY <1>5, <1>6
  <1> QED BY <1>1, <1>4, <1>7, DefsMarkers

(* A later build accepts what an earlier one has stored: it knows more     *)
(* services and checks the rest alike.                                     *)
LEMMA LaterBuildKeeps ==
  ASSUME NEW t, Kept(t), catalog \subseteq catalog'
  PROVE  Kept(t)'
  <1>1. t.type \in Types /\ t.params \in ParamsOf(t.type) /\ Validate(t.type, t.params) = t.params
    BY DEF Kept, Definitions
  <1>2. Validate(t.type, t.params)' = t.params
    <2>1. CASE t.type = "saas"
      <3> DEFINE q == [t.params EXCEPT !.service = TrimSpace(@)]
      <3>1. t.params = normal(q.service \in catalog, q)
        BY <1>1, <2>1 DEF Validate, ValidateSaas
      <3>2. t.params # Error
        BY <1>1, ParamsReal
      <3>3. q.service \in catalog /\ q = t.params
        BY <3>1, <3>2 DEF normal
      <3>4. Validate(t.type, t.params)' = normal(q.service \in catalog', q)
        BY <2>1 DEF Validate, ValidateSaas
      <3>5. q.service \in catalog'
        BY <3>3
      <3> QED BY <3>3, <3>4, <3>5 DEF normal
    <2>2. CASE t.type # "saas"
      <3> DEFINE p == t.params
      <3>1. Validate(t.type, p)' = Validate(t.type, p)
        <4>1. CASE t.type = "ping"
          <5>1. \A x : Validate("ping", x)' = Validate("ping", x)
            BY DEF Validate, ValidatePing
          <5> QED BY <4>1, <5>1
        <4>2. CASE t.type = "dns"
          <5>1. \A x : Validate("dns", x)' = Validate("dns", x)
            BY DEF Validate, ValidateDNS
          <5> QED BY <4>2, <5>1
        <4>3. CASE t.type = "http"
          <5>1. \A x : Validate("http", x)' = Validate("http", x)
            BY DEF Validate, ValidateHTTP
          <5> QED BY <4>3, <5>1
        <4>4. CASE t.type = "tcp"
          <5>1. \A x : Validate("tcp", x)' = Validate("tcp", x)
            BY DEF Validate, ValidateTCP
          <5> QED BY <4>4, <5>1
        <4>5. CASE t.type = "speedtest"
          <5>1. \A x : Validate("speedtest", x)' = Validate("speedtest", x)
            BY DEF Validate, ValidateSpeedtest
          <5> QED BY <4>5, <5>1
        <4>6. CASE t.type = "wlan_passive"
          <5>1. \A x : Validate("wlan_passive", x)' = Validate("wlan_passive", x)
            BY DEF Validate, ValidateWlanPassive
          <5> QED BY <4>6, <5>1
        <4>7. CASE t.type = "wlan_active"
          <5>1. \A x : Validate("wlan_active", x)' = Validate("wlan_active", x)
            BY DEF Validate, ValidateWlanActive
          <5> QED BY <4>7, <5>1
        <4>8. CASE t.type = "perfmon"
          <5>1. \A x : Validate("perfmon", x)' = Validate("perfmon", x)
            BY DEF Validate, ValidatePerfmon
          <5> QED BY <4>8, <5>1
        <4>9. CASE t.type = "traceroute"
          <5>1. \A x : Validate("traceroute", x)' = Validate("traceroute", x)
            BY DEF Validate, ValidateTraceroute
          <5> QED BY <4>9, <5>1
        <4> QED BY <1>1, <2>2, <4>1, <4>2, <4>3, <4>4, <4>5, <4>6, <4>7, <4>8, <4>9 DEF Types
      <3> QED BY <1>1, <3>1
    <2> QED BY <2>1, <2>2
  <1> QED BY <1>2 DEF Kept, bandsInOrder, Get

(* An agent that says what it can do is not taken for an old one. *)
LEMMA DetectedIsNotLegacy ==
  ASSUME NEW h PROVE ~ isLegacyCapabilities(DetectCapabilities(h))
  <1>1. "perfmon" \in DetectCapabilities(h) /\ "perfmon" \notin legacyCapabilities
    BY DEF DetectCapabilities, legacyCapabilities
  <1> QED BY <1>1 DEF isLegacyCapabilities

(* Nothing is stored or recorded at first. *)
LEMMA DefsStart == DefsInit => DefsInv
  BY DEF DefsInit, DefsInv

(* A step of the dashboard leaves the definitions alone. *)
LEMMA DefsFrame ==
  ASSUME DefsInv, UNCHANGED defVars
  PROVE  DefsInv'
  <1>1. UNCHANGED <<stored, catalog, host, binary, caps>>
    BY DEF defVars
  <1>2. Kept(stored) => Kept(stored)'
    BY <1>1, LaterBuildKeeps
  <1> QED BY <1>1, <1>2 DEF DefsInv

(* Every step of the definitions. *)
LEMMA DefsStep == DefsInv /\ DefsNext => DefsInv'
  <1> SUFFICES ASSUME DefsInv, DefsNext PROVE DefsInv'
    OBVIOUS
  <1>1. ASSUME NEW req \in Saves, HandleCreateTest(req) \/ HandleUpdateTest(req)
        PROVE  DefsInv'
    <2>1. /\ ValidateTestDef(req) # Error /\ stored' = ValidateTestDef(req)
          /\ UNCHANGED <<catalog, host, binary, caps>>
      BY <1>1 DEF HandleCreateTest, HandleUpdateTest
    <2>2. Kept(stored')
      BY <2>1, CheckedIsKept
    <2>3. \A t : Kept(t) => Kept(t)'
      BY <2>1, LaterBuildKeeps
    <2>4. (stored = Absent \/ Kept(stored))'
      BY <2>1, <2>2 DEF Kept, Validate, ValidateSaas, ValidatePing, ValidateDNS, ValidateHTTP, ValidateTCP, ValidateSpeedtest,
             ValidateWlanPassive, ValidateWlanActive, ValidatePerfmon, ValidateTraceroute
    <2> QED BY <2>1, <2>4 DEF DefsInv
  <1>2. CASE HandleDeleteTest
    BY <1>2 DEF HandleDeleteTest, DefsInv
  <1>3. ASSUME NEW more \in SUBSET Services, Upgrade(more)
        PROVE  DefsInv'
    <2>1. catalog \subseteq catalog' /\ UNCHANGED <<stored, host, binary, caps>>
      BY <1>3 DEF Upgrade
    <2>2. Kept(stored) => Kept(stored)'
      BY <2>1, LaterBuildKeeps
    <2> QED BY <2>1, <2>2 DEF DefsInv
  <1>4. ASSUME NEW a \in Devices, NEW b \in {"old", "new"}, RegisterWith(a, b)
        PROVE  DefsInv'
    <2>1. UNCHANGED <<stored, catalog, host>>
      BY <1>4 DEF RegisterWith
    <2>2. binary' = [binary EXCEPT ![a] = b]
      BY <1>4 DEF RegisterWith
    <2>3. caps' = caps \/ caps' = [caps EXCEPT ![a] = DetectCapabilities(host[a])]
      BY <1>4, DetectedIsNotLegacy DEF RegisterWith, isLegacyCapabilities
    <2>4. Kept(stored) => Kept(stored)'
      BY <2>1, LaterBuildKeeps
    <2>5. \A d \in Devices : caps'[d] \in {Absent, DetectCapabilities(host[d])}
      BY <2>3 DEF DefsInv
    <2>6. DOMAIN caps' = Devices /\ DOMAIN binary' = Devices
      BY <2>2, <2>3 DEF DefsInv
    <2> QED BY <2>1, <2>4, <2>5, <2>6 DEF DefsInv
  <1> QED BY <1>1, <1>2, <1>3, <1>4 DEF DefsNext

-----------------------------------------------------------------------------
(* Results *)

(* A date is no further in the future than a clock may be ahead. *)
Ages == {n \in Int : n + Ahead >= 0}

Row == [res : UNION {Outcomes[type] : type \in Types}, age : Ages, at : Sites]

OvTyped ==
    /\ test \in Drafts /\ assigned \subseteq Sites
    /\ place \in [Devices -> Sites] /\ before \in [Devices -> Sites]
    /\ moved \in [Devices -> 0 .. Forever] /\ rows \in [Devices -> Seq(Row)]

(* A result younger than its agent's last move, by more than clocks are    *)
(* ahead, was measured where the agent is.  Ages stand still at Forever.   *)
MeasuredHere == \A a \in Devices : \A i \in DOMAIN rows[a] :
    rows[a][i].age < Forever /\ rows[a][i].age + Ahead < moved[a] => rows[a][i].at = place[a]

OvInv == OvTyped /\ MeasuredHere

(* There is nothing to judge at first. *)
LEMMA OvStarts == OverviewInit => OvInv
  <1> SUFFICES ASSUME OverviewInit PROVE OvInv
    OBVIOUS
  <1>1. Forever \in 0 .. Forever
    BY OverviewBounds DEF Forever
  <1>2. OvTyped
    BY <1>1 DEF OverviewInit, OvTyped
  <1>3. MeasuredHere
    BY DEF OverviewInit, MeasuredHere
  <1> QED BY <1>2, <1>3 DEF OvInv

(* A step of the definitions leaves the dashboard alone. *)
LEMMA OvFrame ==
  ASSUME OvInv, UNCHANGED ovVars
  PROVE  OvInv'
  BY DEF OvInv, OvTyped, MeasuredHere, ovVars

(* The rows that pruning drops are the oldest. *)
LEMMA PrunedRows ==
  ASSUME NEW q \in Seq(Row), NEW x \in Row, NEW left \in {pruned(Append(q, x)), Append(q, x)}
  PROVE  /\ left \in Seq(Row)
         /\ \A i \in DOMAIN left : left[i] = x \/ \E j \in DOMAIN q : left[i] = q[j]
  <1> DEFINE s == Append(q, x)
             m == Len(s) - ResultsPerTest + 1
             t == SubSeq(s, m, Len(s))
  <1>1. s \in Seq(Row) /\ Len(s) = Len(q) + 1 /\ \A i \in 1 .. Len(s) : s[i] = IF i = Len(s) THEN x ELSE q[i]
    BY DEF Row
  <1>2. \A i \in 1 .. Len(s) : s[i] = x \/ \E j \in DOMAIN q : s[i] = q[j]
    BY <1>1
  <1> HIDE DEF s
  <1>3. Len(s) > ResultsPerTest =>
           /\ t \in Seq(Row)
           /\ \A i \in DOMAIN t : i + m - 1 \in 1 .. Len(s) /\ t[i] = s[i + m - 1]
    <2> SUFFICES ASSUME Len(s) > ResultsPerTest
                 PROVE  /\ t \in Seq(Row)
                        /\ \A i \in DOMAIN t : i + m - 1 \in 1 .. Len(s) /\ t[i] = s[i + m - 1]
      OBVIOUS
    <2>1. m \in 1 .. Len(s) /\ Len(s) \in Nat
      BY <1>1, OverviewBounds
    <2> HIDE DEF m
    <2>2. t = [i \in 1 .. Len(s) - m + 1 |-> s[i + m - 1]] /\ Len(s) - m + 1 \in Nat
      BY <1>1, <2>1
    <2>3. \A i \in 1 .. Len(s) - m + 1 : i + m - 1 \in 1 .. Len(s)
      BY <2>1
    <2> HIDE DEF t
    <2>4. \A i \in 1 .. Len(s) - m + 1 : s[i + m - 1] \in Row
      BY <1>1, <2>3
    <2>5. t \in [1 .. Len(s) - m + 1 -> Row]
      BY <2>2, <2>4
    <2> QED BY <2>2, <2>3, <2>5
  <1>4. left = s \/ (left = t /\ Len(s) > ResultsPerTest)
    <2>1. Len(s) <= ResultsPerTest \/ Len(s) > ResultsPerTest
      BY <1>1, OverviewBounds
    <2>2. pruned(s) = IF Len(s) <= ResultsPerTest THEN s ELSE t
      BY DEF pruned
    <2>3. left \in {pruned(s), s}
      BY DEF s
    <2> QED BY <2>1, <2>2, <2>3
  <1> HIDE DEF t, m
  <1>5. CASE left = s
    BY <1>1, <1>2, <1>5
  <1>6. CASE left = t /\ Len(s) > ResultsPerTest
    BY <1>2, <1>3, <1>6
  <1> QED BY <1>4, <1>5, <1>6

(* A result arrives, with the time its agent's clock gives it. *)
LEMMA ResultKeeps ==
  ASSUME OvInv, NEW a \in Devices, NEW r \in Outcomes[test.type], NEW late \in 0 .. MaxDelay,
         NEW off \in -Behind .. Ahead, HandleResult(a, r, late, off)
  PROVE  OvInv'
  <1> DEFINE x == [res |-> r, age |-> resultTime(late, off),
                   at |-> IF late <= moved[a] THEN place[a] ELSE before[a]]
             q == Append(rows[a], x)
  <1>1. /\ OvTyped /\ MeasuredHere /\ test.type \in Types /\ moved[a] \in Nat /\ late \in Nat
        /\ off \in Int /\ off <= Ahead /\ Ahead \in Nat
    BY OverviewDrafts, OverviewBounds DEF OvInv, OvTyped, Forever
  <1>2. PICK left \in {pruned(q), q} :
           rows' = [rows EXCEPT ![a] = left] /\ UNCHANGED <<test, assigned, place, before, moved>>
    BY DEF HandleResult
  <1>3. x \in Row /\ x.age = late - off /\ (late <= moved[a] => x.at = place[a])
    BY <1>1 DEF Row, Ages, resultTime, OvTyped
  <1> HIDE DEF x
  <1>4. /\ left \in Seq(Row)
        /\ \A i \in DOMAIN left : left[i] = x \/ \E j \in DOMAIN rows[a] : left[i] = rows[a][j]
    <2>1. rows[a] \in Seq(Row)
      BY <1>1 DEF OvTyped
    <2>2. left \in {pruned(Append(rows[a], x)), Append(rows[a], x)}
      BY <1>2
    <2> QED BY <1>3, <2>1, <2>2, PrunedRows
  <1> HIDE DEF q
  <1>5. OvTyped'
    BY <1>1, <1>2, <1>4 DEF OvTyped, Forever
  <1>6. ASSUME NEW i \in DOMAIN left, left[i].age < Forever, left[i].age + Ahead < moved[a]
        PROVE  left[i].at = place[a]
    <2>1. CASE left[i] = x
      BY <1>1, <1>3, <1>6, <2>1
    <2>2. CASE \E j \in DOMAIN rows[a] : left[i] = rows[a][j]
      BY <1>1, <1>6, <2>2 DEF MeasuredHere
    <2> QED BY <1>4, <2>1, <2>2
  <1>7. MeasuredHere'
    BY <1>1, <1>2, <1>6 DEF MeasuredHere, OvTyped, Forever
  <1> QED BY <1>5, <1>7 DEF OvInv

(* Results and moves age together. *)
LEMMA ElapseKeeps ==
  ASSUME OvInv, Elapse
  PROVE  OvInv'
  <1>1. OvTyped /\ MeasuredHere /\ Forever \in Nat
    BY OverviewBounds DEF OvInv, Forever
  <1>2. /\ moved' = [a \in Devices |-> IF moved[a] < Forever THEN moved[a] + 1 ELSE Forever]
        /\ before' = [a \in Devices |-> IF moved'[a] < MaxDelay THEN before[a] ELSE place[a]]
        /\ UNCHANGED <<test, assigned, place>> /\ DOMAIN rows' = Devices
        /\ \A a \in Devices : rows'[a] = [i \in DOMAIN rows[a] |->
              [rows[a][i] EXCEPT !.age = IF @ < Forever THEN @ + 1 ELSE Forever]]
    BY DEF Elapse
  <1>3. ASSUME NEW a \in Devices
        PROVE  /\ rows'[a] \in Seq(Row) /\ DOMAIN rows'[a] = DOMAIN rows[a]
               /\ \A i \in DOMAIN rows[a] : /\ rows'[a][i].at = rows[a][i].at
                                            /\ rows'[a][i].age = IF rows[a][i].age < Forever THEN rows[a][i].age + 1 ELSE Forever
    <2> DEFINE q == rows[a]
               s == [i \in DOMAIN q |-> [q[i] EXCEPT !.age = IF @ < Forever THEN @ + 1 ELSE Forever]]
    <2>1. q \in Seq(Row) /\ rows'[a] = s
      BY <1>1, <1>2 DEF OvTyped
    <2> HIDE DEF q
    <2>2. \A i \in DOMAIN q : q[i] \in Row
      BY <2>1
    <2>3. \A z \in Row : LET y == [z EXCEPT !.age = IF @ < Forever THEN @ + 1 ELSE Forever] IN
             y \in Row /\ y.at = z.at /\ y.age = IF z.age < Forever THEN z.age + 1 ELSE Forever
      BY <1>1, OverviewBounds DEF Row, Ages
    <2>4. \A i \in DOMAIN q : /\ s[i] \in Row /\ s[i].at = q[i].at
                              /\ s[i].age = IF q[i].age < Forever THEN q[i].age + 1 ELSE Forever
      BY <2>2, <2>3
    <2>5. DOMAIN s = 1 .. Len(q) /\ Len(q) \in Nat
      BY <2>1
    <2> HIDE DEF s
    <2>6. s \in Seq(Row)
      <3>1. s \in [1 .. Len(q) -> Row]
        BY <2>1, <2>4, <2>5 DEF s
      <3> QED BY <2>5, <3>1
    <2> QED BY <2>1, <2>4, <2>5, <2>6 DEF q
  <1>4. moved' \in [Devices -> 0 .. Forever] /\ rows' \in [Devices -> Seq(Row)]
    <2>1. moved' \in [Devices -> 0 .. Forever]
      BY <1>1, <1>2 DEF OvTyped
    <2>2. rows' = [a \in Devices |-> rows'[a]]
      BY DEF Elapse
    <2> QED BY <1>3, <2>1, <2>2
  <1>5. OvTyped'
    BY <1>1, <1>2, <1>4 DEF OvTyped, Forever
  <1>6. MeasuredHere'
    <2> SUFFICES ASSUME NEW a \in Devices, NEW i \in DOMAIN rows'[a], rows'[a][i].age < Forever,
                        rows'[a][i].age + Ahead < moved'[a]
                 PROVE  rows'[a][i].at = place'[a]
      BY DEF MeasuredHere, Forever
    <2>1. i \in DOMAIN rows[a] /\ rows'[a][i].at = rows[a][i].at /\ moved[a] \in 0 .. Forever
      BY <1>1, <1>3 DEF OvTyped
    <2>2. rows[a][i].age \in Ages
      <3>1. rows[a] \in Seq(Row)
        BY <1>1 DEF OvTyped
      <3>2. rows[a][i] \in Row
        BY <2>1, <3>1
      <3> QED BY <3>2 DEF Row
    <2>3. rows[a][i].age < Forever /\ rows[a][i].age + Ahead < moved[a]
      <3> DEFINE g == rows[a][i].age
                 h == moved[a]
      <3>1. /\ rows'[a][i].age = IF g < Forever THEN g + 1 ELSE Forever
            /\ moved'[a] = IF h < Forever THEN h + 1 ELSE Forever
        BY <1>2, <1>3, <2>1
      <3>2. g \in Int /\ h \in Nat /\ Ahead \in Nat /\ h <= Forever
        BY <1>1, <2>1, <2>2, OverviewBounds DEF Ages
      <3> HIDE DEF g, h
      <3>3. g < Forever /\ g + Ahead < h
        BY <1>1, <3>1, <3>2
      <3> QED BY <3>3 DEF g, h
    <2> QED BY <1>1, <1>2, <2>1, <2>3 DEF MeasuredHere
  <1> QED BY <1>5, <1>6 DEF OvInv

(* An agent that has just moved has no younger result. *)
LEMMA MoveKeeps ==
  ASSUME OvInv, NEW a \in Devices, NEW s \in Sites, MoveAgent(a, s)
  PROVE  OvInv'
  <1>1. OvTyped /\ MeasuredHere /\ Forever \in Nat
    BY OverviewBounds DEF OvInv, Forever
  <1>2. /\ place' = [place EXCEPT ![a] = s] /\ before' = [before EXCEPT ![a] = place[a]]
        /\ moved' = [moved EXCEPT ![a] = 0] /\ UNCHANGED <<test, assigned, rows>>
    BY DEF MoveAgent
  <1>3. OvTyped'
    BY <1>1, <1>2 DEF OvTyped, Forever
  <1>4. MeasuredHere'
    <2> SUFFICES ASSUME NEW d \in Devices, NEW i \in DOMAIN rows'[d], rows'[d][i].age < Forever,
                        rows'[d][i].age + Ahead < moved'[d]
                 PROVE  rows'[d][i].at = place'[d]
      BY DEF MeasuredHere, Forever
    <2>1. rows[d][i].age \in Ages
      <3>1. rows[d] \in Seq(Row) /\ i \in DOMAIN rows[d]
        BY <1>1, <1>2 DEF OvTyped
      <3>2. rows[d][i] \in Row
        BY <3>1
      <3> QED BY <3>2 DEF Row
    <2>2. d # a
      BY <1>1, <1>2, <2>1, OverviewBounds DEF OvTyped, Ages
    <2> QED BY <1>1, <1>2, <2>2 DEF MeasuredHere, OvTyped
  <1> QED BY <1>3, <1>4 DEF OvInv

(* Every step of the dashboard. *)
LEMMA OvStep == OvInv /\ OverviewNext => OvInv'
  <1> SUFFICES ASSUME OvInv, OverviewNext PROVE OvInv'
    OBVIOUS
  <1>1. ASSUME NEW d \in Drafts, EditTest(d)
        PROVE  OvInv'
    BY <1>1 DEF EditTest, OvInv, OvTyped, MeasuredHere
  <1>2. ASSUME NEW sites \in SUBSET Sites, AssignSites(sites)
        PROVE  OvInv'
    BY <1>2 DEF AssignSites, OvInv, OvTyped, MeasuredHere
  <1> QED BY <1>1, <1>2, ResultKeeps, ElapseKeeps, MoveKeeps DEF OverviewNext

-----------------------------------------------------------------------------
(* Verdicts *)

(* The window is a time, no longer than the longest, and reaches back one  *)
(* interval where the longest window does: three intervals do not wrap.    *)
LEMMA WindowReaches ==
  ASSUME OvTyped
  PROVE  /\ windowSec \in 0 .. WindowMax /\ test.interval \in Nat
         /\ test.interval <= WindowMax => test.interval <= windowSec
  <1> DEFINE n == test.interval
             w == (n * 3) % Width
  <1>1. n \in Nat \ {0}
    BY OverviewDrafts DEF OvTyped
  <1>2. Width \in Nat \ {0} /\ WindowMin \in Nat /\ WindowMax \in Nat /\ WindowMin <= WindowMax /\ 3 * WindowMax < Width
    BY OverviewBounds
  <1>3. windowSec = IF w < WindowMin THEN WindowMin ELSE IF w > WindowMax THEN WindowMax ELSE w
    BY DEF windowSec
  <1> HIDE DEF n
  <1>4. n * 3 \in Nat /\ (n <= WindowMax => n * 3 < Width)
    BY <1>1, <1>2
  <1>5. w \in Nat /\ (n * 3 < Width => w = n * 3)
    <2>1. \A x \in Nat : x % Width \in Nat /\ (x < Width => x % Width = x)
      BY <1>2
    <2> QED BY <1>4, <2>1
  <1> HIDE DEF w
  <1> QED BY <1>1, <1>2, <1>3, <1>4, <1>5 DEF n

(* The rows of an agent are those of its list. *)
LEMMA EntryIs ==
  ASSUME OvTyped
  PROVE  \A e \in Entries : /\ e[1] \in Devices /\ e[2] \in DOMAIN rows[e[1]] /\ row(e) \in Row
                            /\ row(e).age \in Int /\ moved[e[1]] \in Nat /\ place[e[1]] \in Sites
  <1> TAKE e \in Entries
  <1>1. PICK a \in Devices : e \in {a} \X DOMAIN rows[a]
    BY DEF Entries
  <1>2. e[1] = a /\ e[2] \in DOMAIN rows[a]
    BY <1>1
  <1>3. rows[a] \in Seq(Row) /\ moved[a] \in 0 .. Forever /\ place[a] \in Sites
    BY <1>1 DEF OvTyped
  <1>4. row(e) \in Row
    BY <1>2, <1>3 DEF row
  <1> QED BY <1>2, <1>3, <1>4, OverviewBounds DEF Row, Ages, Forever

(* The results that count are finitely many, those of a site among those   *)
(* of the tenant.                                                          *)
LEMMA CountedFinite ==
  ASSUME OvTyped, NEW s
  PROVE  /\ IsFiniteSet(counted(s)) /\ counted(s) \subseteq counted(Tenant)
         /\ counted(s) \subseteq Entries
  <1> DEFINE own(a) == {a} \X DOMAIN rows[a]
             F == {own(a) : a \in Devices}
  <1>1. IsFiniteSet(Devices) /\ \A a \in Devices : rows[a] \in Seq(Row)
    BY OverviewNames DEF OvTyped
  <1>2. ASSUME NEW a \in Devices PROVE IsFiniteSet(own(a))
    <2>1. DOMAIN rows[a] = 1 .. Len(rows[a]) /\ Len(rows[a]) \in Nat
      BY <1>1
    <2>2. IsFiniteSet(1 .. Len(rows[a]))
      BY <2>1, FS_Interval
    <2> QED BY <2>1, <2>2, FS_Product, FS_Singleton
  <1>3. Entries = UNION F
    BY DEF Entries
  <1> HIDE DEF own
  <1>4. IsFiniteSet(F)
    <2> DEFINE f == [a \in Devices |-> own(a)]
    <2>1. f \in Surjection(Devices, F)
      BY DEF Surjection
    <2> QED BY <1>1, <2>1, FS_Surjection
  <1>5. IsFiniteSet(Entries)
    <2>1. \A T \in F : IsFiniteSet(T)
      BY <1>2
    <2> HIDE DEF F
    <2> QED BY <1>3, <1>4, <2>1, FS_UNION
  <1>6. counted(s) \in SUBSET Entries
    BY DEF counted
  <1> QED BY <1>5, <1>6, FS_Subset DEF counted

Good(S) == {e \in S : resultOK(row(e).res)}
Colours(S) == {colour(row(e).res) : e \in S}

(* How the share of good results settles a status. *)
LEMMA Status ==
  ASSUME OvTyped, NEW s
  PROVE  LET S == counted(s) IN
         /\ testStatus(s) = "nodata" <=> S = {}
         /\ testStatus(s) = "healthy" <=> /\ S # {} /\ Good(S) = S
                                          /\ "red" \notin Colours(S) /\ "orange" \notin Colours(S)
         /\ testStatus(s) = "failing" <=> /\ S # {}
                                          /\ \/ "red" \in Colours(S)
                                             \/ "orange" \notin Colours(S) /\ Good(S) = {}
  <1> DEFINE S == counted(s)
             G == Good(S)
             C == Colours(S)
  <1>1. testStatus(s) = statusOf(C, Cardinality(S), Cardinality(G))
    BY DEF testStatus, Good, Colours
  <1>2. IsFiniteSet(S) /\ G \in SUBSET S
    BY CountedFinite DEF Good
  <1> HIDE DEF S, G, C
  <1>3. IsFiniteSet(G) /\ (Cardinality(S) = Cardinality(G) => S = G)
    BY <1>2, FS_Subset
  <1>4. (Cardinality(S) = 0 <=> S = {}) /\ (Cardinality(G) = 0 <=> G = {})
    BY <1>2, <1>3, FS_EmptySet
  <1>5. /\ testStatus(s) = "nodata" <=> S = {}
        /\ testStatus(s) = "healthy" <=> S # {} /\ G = S /\ "red" \notin C /\ "orange" \notin C
        /\ testStatus(s) = "failing" <=> S # {} /\ ("red" \in C \/ ("orange" \notin C /\ G = {}))
    BY <1>1, <1>2, <1>3, <1>4 DEF statusOf
  <1> QED BY <1>5 DEF S, G, C

(* What a site counts, the tenant counts too. *)
LEMMA MaskNothing == ASSUME OvInv PROVE NoMasking
  <1> DEFINE T == counted(Tenant)
  <1>0. OvTyped
    BY DEF OvInv
  <1>1. \A s \in Sites : counted(s) \subseteq T
    BY <1>0, CountedFinite
  <1>2. assigned \subseteq Sites /\ \A s \in assigned : SiteHealth[s] = testStatus(s)
    BY DEF OvInv, OvTyped, SiteHealth
  <1>3. ASSUME TestHealth = "healthy", NEW s \in assigned
        PROVE  SiteHealth[s] \in {"healthy", "nodata"}
    <2>1. Good(T) = T /\ "red" \notin Colours(T) /\ "orange" \notin Colours(T)
      BY <1>3, <1>0, Status DEF TestHealth
    <2>2. counted(s) \subseteq T
      BY <1>1, <1>2
    <2>3. Good(counted(s)) = counted(s) /\ "red" \notin Colours(counted(s)) /\ "orange" \notin Colours(counted(s))
      BY <2>1, <2>2 DEF Good, Colours
    <2> QED BY <1>2, <2>3, <1>0, Status
  <1>4. ASSUME TestHealth = "failing"
        PROVE  \E s \in Sites : testStatus(s) = "failing"
    <2>1. T # {} /\ ("red" \in Colours(T) \/ ("orange" \notin Colours(T) /\ Good(T) = {}))
      BY <1>4, <1>0, Status DEF TestHealth
    <2>2. \A e \in T : place[e[1]] \in Sites /\ e \in counted(place[e[1]])
      BY <1>0, EntryIs DEF counted
    <2>3. CASE "red" \in Colours(T)
      <3>1. PICK e \in T : colour(row(e).res) = "red"
        BY <2>3 DEF Colours
      <3>2. "red" \in Colours(counted(place[e[1]])) /\ counted(place[e[1]]) # {}
        BY <2>2, <3>1 DEF Colours
      <3> QED BY <2>2, <3>2, <1>0, Status
    <2>4. CASE "red" \notin Colours(T)
      <3>1. PICK e \in T : TRUE
        BY <2>1
      <3> DEFINE s == place[e[1]]
      <3>2. s \in Sites /\ counted(s) # {} /\ counted(s) \subseteq T
        BY <1>1, <2>2
      <3>3. "orange" \notin Colours(counted(s)) /\ Good(counted(s)) = {}
        BY <2>1, <2>4, <3>2 DEF Colours, Good
      <3> QED BY <3>2, <3>3, <1>0, Status
    <2> QED BY <2>3, <2>4
  <1>5. ASSUME TestHealth = "nodata", NEW s \in assigned
        PROVE  SiteHealth[s] = "nodata"
    <2>1. T = {} /\ counted(s) \subseteq T
      BY <1>1, <1>2, <1>5, <1>0, Status DEF TestHealth
    <2> QED BY <1>2, <2>1, <1>0, Status
  <1> QED BY <1>3, <1>4, <1>5 DEF NoMasking

(* Once the window has passed, only results of the place itself count. *)
LEMMA VerdictSettles == ASSUME OvInv PROVE SiteVerdictSettles
  <1>1. OvTyped /\ MeasuredHere
    BY DEF OvInv
  <1>2. \A e \in Entries : /\ e[1] \in Devices /\ e[2] \in DOMAIN rows[e[1]] /\ row(e).age \in Int
                           /\ moved[e[1]] \in Nat /\ place[e[1]] \in Sites
    BY <1>1, EntryIs
  <1>3. ASSUME NEW s \in Sites, NEW e \in counted(s), moved[e[1]] > windowSec + Ahead
        PROVE  row(e).at = s
    <2>1. e \in Entries /\ row(e).age <= windowSec /\ place[e[1]] = s /\ windowSec \in 0 .. WindowMax
      BY <1>1, WindowReaches, OverviewNames, OverviewBounds DEF counted
    <2>2. row(e).age < Forever /\ row(e).age + Ahead < moved[e[1]]
      BY <1>2, <1>3, <2>1, OverviewBounds DEF Forever
    <2> QED BY <1>1, <1>2, <2>1, <2>2 DEF MeasuredHere, row
  <1>4. ASSUME NEW e \in Entries, row(e).age <= test.interval, test.interval <= WindowMax
        PROVE  testStatus(place[e[1]]) # "nodata"
    <2>1. row(e).age <= windowSec
      BY <1>1, <1>2, <1>4, WindowReaches
    <2>2. e \in counted(place[e[1]])
      BY <2>1 DEF counted
    <2> QED BY <1>1, <2>2, Status
  <1> QED BY <1>3, <1>4 DEF SiteVerdictSettles

(* The two readings of one result. *)
LEMMA ReadAlike ==
  ASSUME NEW r
  PROVE  resultState(r) = CASE colour(r) \in {"red", "failed"} -> 2
                            [] colour(r) = "orange" -> 1
                            [] OTHER -> 0
  <1> DEFINE v == Primary(test.type, r)
             low == Get(test.type).lowerIsWorse
             red == test.crit > 0 /\ (IF low THEN v < test.crit ELSE v > test.crit)
             orange == test.warn > 0 /\ (IF low THEN v < test.warn ELSE v > test.warn)
             ok == resultOK(r)
  <1>1. ~ok => colour(r) = "failed" /\ resultState(r) = 2
    BY DEF colour, resultState
  <1>2. ok /\ v = 0 => colour(r) = "green" /\ resultState(r) = 0
    BY DEF colour, resultState
  <1>3. ok /\ v # 0 => /\ colour(r) = IF red THEN "red" ELSE IF orange THEN "orange" ELSE "green"
                       /\ resultState(r) = IF red THEN 2 ELSE IF orange THEN 1 ELSE 0
    BY DEF colour, resultState, computeResultState
  <1> HIDE DEF ok, v, red, orange
  <1>4. \/ colour(r) \in {"red", "failed"} /\ resultState(r) = 2
        \/ colour(r) = "orange" /\ resultState(r) = 1
        \/ colour(r) = "green" /\ resultState(r) = 0
    BY <1>1, <1>2, <1>3
  <1> HIDE DEF resultState, colour
  <1> QED BY <1>4

-----------------------------------------------------------------------------
(* Theorems *)

(* Both parts start as their invariants say and keep them. *)
THEOREM Invariance == Spec => [](DefsInv /\ OvInv)
  <1>1. Init => DefsInv /\ OvInv
    BY DefsStart, OvStarts DEF Init
  <1>2. DefsInv /\ OvInv /\ [Next]_vars => (DefsInv /\ OvInv)'
    BY DefsStep, DefsFrame, OvStep, OvFrame DEF Next, vars
  <1> QED BY <1>1, <1>2, PTL DEF Spec

(* A definition that ValidateTestDef has let through is accepted again as  *)
(* it was stored and a spec can be made of it, by this build and by every  *)
(* later one: for each of the ten types the check gives its own result     *)
(* back unchanged.                                                         *)
THEOREM StoredIsGood == Spec => []StoredStaysGood
  <1>1. DefsInv => StoredStaysGood
    BY KeptIsGood DEF DefsInv, StoredStaysGood
  <1> QED BY <1>1, Invariance, PTL

(* ConfigForAgent leaves out no agent that can run the test, though what   *)
(* it goes by is what the agent said when it last registered, or nothing   *)
(* where an old agent sent its fixed list.                                 *)
THEOREM CapableAreSent == Spec => []CapableAgentsRun
  <1>1. DefsInv => CapableAgentsRun
    <2> SUFFICES ASSUME DefsInv, NEW a \in Devices, stored # Absent, binary[a] # "none"
                 PROVE  /\ /\ requiredCapability(stored.type) \in canRun(a)
                           /\ stored.type = "perfmon" => stored.params.source = a
                           => SpecForAgent(a) # Error
                        /\ stored.type = "perfmon" /\ stored.params.source # a => SpecForAgent(a) = Error
      BY DEF CapableAgentsRun
    <2>1. TestSpec(stored) # Error
      BY KeptIsGood DEF DefsInv
    <2>2. canRun(a) \subseteq DetectCapabilities(host[a])
      BY DEF canRun
    <2>3. caps[a] = Absent \/ caps[a] = DetectCapabilities(host[a])
      BY DEF DefsInv
    <2> QED BY <2>1, <2>2, <2>3 DEF SpecForAgent, isPerfmonSource
  <1> QED BY <1>1, Invariance, PTL

(* testStatus over all agents never hides a site: TenantOverview's line    *)
(* for the test is healthy only if every assigned site with data is, and   *)
(* failing only if a site is.                                              *)
THEOREM NothingMasked == Spec => []NoMasking
  <1>1. OvInv => NoMasking
    BY MaskNothing
  <1> QED BY <1>1, Invariance, PTL

(* One window after a move, and what a clock may be ahead, testStatus      *)
(* judges a site by what was measured there, and an agent that reports on  *)
(* time keeps its site's verdict.                                          *)
THEOREM VerdictsSettle == Spec => []SiteVerdictSettles
  <1>1. OvInv => SiteVerdictSettles
    BY VerdictSettles
  <1> QED BY <1>1, Invariance, PTL

(* computeResultState and the alert engine's resultState judge alike.      *)
THEOREM AlertsAlwaysAgree == Spec => []AlertsAgree
  <1>1. AlertsAgree
    BY ReadAlike DEF AlertsAgree
  <1> QED BY <1>1, PTL
=============================================================================

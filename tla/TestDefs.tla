------------------------------ MODULE TestDefs ------------------------------
(***************************************************************************)
(* Test definitions from the request that saves one to the configuration   *)
(* that runs it: the registry of types (internal/testtype), the check and  *)
(* the normal form of the parameters, the stored definition, and the specs *)
(* pushed to the agents of the site that can run it (internal/server:      *)
(* config.go, ConfigForAgent, registerAgent).                              *)
(*                                                                         *)
(* A parameter is what its check tells apart: a text is empty, blank,      *)
(* padded with blanks or plain; an address has a port or not; a list is    *)
(* the set of its entries.                                                 *)
(***************************************************************************)
EXTENDS Integers, Sequences, FiniteSets

CONSTANTS
    Devices,   \* agents of the site the test is assigned to
    Hosts,     \* what the agents may run on
    Saves,     \* definitions that requests ask to be stored
    Services,  \* catalogue ids, of this build and of later ones
    Text,      \* what a text field may hold
    Absent,    \* no definition, no payload, nothing reported
    Garbage,   \* a payload that does not parse
    Error      \* what a check gives for what it refuses

Types == {"ping", "dns", "http", "tcp", "saas", "speedtest", "perfmon",
          "traceroute", "wlan_passive", "wlan_active"}

(* The fields of each type's parameters. *)
ParamsOf(type) ==
    CASE type = "ping" -> [targets : SUBSET Text, count : Nat]
      [] type = "dns" -> [queries : SUBSET Text, servers : SUBSET Text]
      [] type = "http" -> [url : Text, timeout : Nat]
      [] type = "tcp" -> [targets : SUBSET Text, timeout : Nat]
      [] type = "speedtest" -> [provider : Text]
      [] type = "wlan_passive" -> {<<>>}
      [] type = "wlan_active" -> [ssid : Text, security : Text, password : BOOLEAN, identity : BOOLEAN,
                                  ca : BOOLEAN, skip : BOOLEAN, mac : Text]
      [] type = "perfmon" -> [source : Text \cup Devices, target : Text, duration : Nat]
      [] type = "saas" -> [service : Text]
      [] type = "traceroute" -> [target : Text, protocol : Text, port : Nat, hops : Nat, probes : Nat]

(* What an agent is sent of them: a saas test names its endpoints, perfmon *)
(* leaves its source out.                                                  *)
SentOf(type) ==
    CASE type = "saas" -> [endpointsOf : Text]
      [] type = "perfmon" -> [target : Text, duration : Nat]
      [] OTHER -> ParamsOf(type)

ASSUME DefsSaves ==
    \A s \in Saves :
       /\ s \in [type : Types \cup {"unknown"}, interval : Nat, warn : Nat, crit : Nat, params : {s.params}]
       /\ s.type \in Types => s.params \in ParamsOf(s.type) \cup {Absent, Garbage}
ASSUME DefsMarkers ==
    /\ \A type \in Types : Absent \notin ParamsOf(type) /\ Garbage \notin ParamsOf(type) /\ Error \notin ParamsOf(type)
    /\ \A type \in Types : Error \notin [type : {type}, interval : Nat, params : SentOf(type)]
ASSUME DefsText == {"", "plain", "psk", "permanent", "tcp"} \subseteq Text
ASSUME DefsHosts == \A h \in Hosts : h.linux \in BOOLEAN /\ h.monitor \in BOOLEAN /\ h.active \in BOOLEAN

VARIABLES
    stored,    \* the test, or Absent
    catalog,   \* the services this build of the server knows
    host,      \* per agent: what it runs on
    binary,    \* per agent: the running binary, "old", "new" or "none"
    caps       \* per agent: the capabilities on record, or Absent

defVars == <<stored, catalog, host, binary, caps>>

DefsInit ==
    /\ stored = Absent
    /\ catalog \in (SUBSET Services) \ {{}}
    /\ host \in [Devices -> Hosts]
    /\ binary = [a \in Devices |-> "none"]
    /\ caps = [a \in Devices |-> Absent]

-----------------------------------------------------------------------------
(* The registry *)

(* register: the capability is the type's name, the interval at least 5 s, *)
(* unless the entry says otherwise.                                        *)
register(type) ==
    [capability |-> IF type = "wlan_passive" THEN "wlan" ELSE type,
     lowerIsWorse |-> type = "speedtest",
     minInterval |-> CASE type \in {"saas", "speedtest", "perfmon", "wlan_passive"} -> 60
                       [] type = "traceroute" -> 30
                       [] type = "wlan_active" -> 300
                       [] OTHER -> 5]

Specs == [type \in Types |-> register(type)]

(* Get: the entry, or nothing for an unknown type. *)
Get(type) == IF type \in Types THEN Specs[type] ELSE Absent

-----------------------------------------------------------------------------
(* Parameters: Validate gives the normal form or Error, Apply what the     *)
(* agent is sent.                                                          *)

TrimSpace(s) == CASE s = "blank" -> "" [] s = "padded" -> "plain" [] OTHER -> s
orElse(v, zero, default) == IF v = zero THEN default ELSE v
normal(usable, p) == IF usable THEN p ELSE Error

ValidatePing(p) ==
    LET q == [p EXCEPT !.count = orElse(@, 0, 5)]
    IN  normal(q.targets # {} /\ q.count <= 20, q)

ValidateDNS(p) == normal(p.queries # {} /\ p.servers # {}, p)

ValidateHTTP(p) ==
    LET q == [p EXCEPT !.url = TrimSpace(@), !.timeout = orElse(@, 0, 10)]
    IN  normal(q.url = "plain", q)

ValidateTCP(p) ==
    normal(p.targets # {} /\ p.targets \subseteq {"host:port"}, [p EXCEPT !.timeout = orElse(@, 0, 5)])

ValidateSpeedtest(p) == normal(p.provider \in {"", "ookla", "ndt7", "cloudflare"}, p)

ValidateWlanPassive(p) == p

ValidateWlanActive(p) ==
    LET q == [p EXCEPT !.ssid = TrimSpace(@), !.security = orElse(@, "", "psk"),
                       !.mac = orElse(@, "", "permanent")]
    IN  normal(/\ q.ssid # ""
               /\ q.security \in {"psk", "eap-peap", "open"}
               /\ q.security = "psk" => q.password
               /\ q.security = "eap-peap" => q.identity /\ q.password /\ (q.ca \/ q.skip)
               /\ q.mac \in {"permanent", "random"}, q)

ValidatePerfmon(p) ==
    LET q == [p EXCEPT !.source = TrimSpace(@), !.target = TrimSpace(@),
                       !.duration = orElse(@, 0, 5)]
    IN  normal(q.source # "" /\ q.target = "host:port" /\ q.duration <= 30, q)

(* saas.Get is a lookup in the catalogue of this build. *)
ValidateSaas(p) ==
    LET q == [p EXCEPT !.service = TrimSpace(@)]
    IN  normal(q.service \in catalog, q)

(* Mutant of ValidateTraceroute: the port is filled in before the protocol. *)
ValidateTraceroutePortFirst(p) ==
    LET q == [p EXCEPT !.target = TrimSpace(@), !.protocol = orElse(@, "", "tcp"),
                       !.port = IF p.protocol \in {"tcp", "udp"} THEN orElse(@, 0, 443) ELSE @,
                       !.hops = orElse(@, 0, 30), !.probes = orElse(@, 0, 5)]
    IN  normal(q.target # "" /\ q.protocol \in {"icmp", "tcp", "udp"} /\ q.hops <= 64, q)

ValidateTraceroute(p) ==
    LET proto == orElse(p.protocol, "", "tcp")
        q == [p EXCEPT !.target = TrimSpace(@), !.protocol = proto,
                       !.port = IF proto \in {"tcp", "udp"} THEN orElse(@, 0, 443) ELSE @,
                       !.hops = orElse(@, 0, 30), !.probes = orElse(@, 0, 5)]
    IN  normal(q.target # "" /\ proto \in {"icmp", "tcp", "udp"} /\ q.hops <= 64, q)

Validate(type, p) ==
    CASE type = "ping" -> ValidatePing(p)
      [] type = "dns" -> ValidateDNS(p)
      [] type = "http" -> ValidateHTTP(p)
      [] type = "tcp" -> ValidateTCP(p)
      [] type = "speedtest" -> ValidateSpeedtest(p)
      [] type = "wlan_passive" -> ValidateWlanPassive(p)
      [] type = "wlan_active" -> ValidateWlanActive(p)
      [] type = "perfmon" -> ValidatePerfmon(p)
      [] type = "saas" -> ValidateSaas(p)
      [] type = "traceroute" -> ValidateTraceroute(p)

(* The parameters as they are, but for saas, whose endpoints come from the *)
(* catalogue, and perfmon, whose source is the agent that gets the spec.   *)
Apply(type, p) ==
    CASE type = "saas" -> [endpointsOf |-> p.service]
      [] type = "perfmon" -> [target |-> p.target, duration |-> p.duration]
      [] OTHER -> p

(* An empty payload is the type's zero value. *)
Zero(type) ==
    CASE type = "ping" -> [targets |-> {}, count |-> 0]
      [] type = "dns" -> [queries |-> {}, servers |-> {}]
      [] type = "http" -> [url |-> "", timeout |-> 0]
      [] type = "tcp" -> [targets |-> {}, timeout |-> 0]
      [] type = "speedtest" -> [provider |-> ""]
      [] type = "wlan_passive" -> <<>>
      [] type = "wlan_active" -> [ssid |-> "", security |-> "", password |-> FALSE, identity |-> FALSE,
                                  ca |-> FALSE, skip |-> FALSE, mac |-> ""]
      [] type = "perfmon" -> [source |-> "", target |-> "", duration |-> 0]
      [] type = "saas" -> [service |-> ""]
      [] type = "traceroute" -> [target |-> "", protocol |-> "", port |-> 0, hops |-> 0, probes |-> 0]

DecodeParams(type, raw) == IF raw = Absent THEN Zero(type) ELSE raw

(* The payload in normal form; one that does not parse is an error. *)
Normalized(type, raw) == IF raw = Garbage THEN Error ELSE Validate(type, DecodeParams(type, raw))

-----------------------------------------------------------------------------
(* Definitions *)

(* Both bands set: orange must come before red in the type's direction. *)
bandsInOrder(t) ==
    t.warn > 0 /\ t.crit > 0 =>
       IF Get(t.type).lowerIsWorse THEN t.warn > t.crit ELSE t.warn < t.crit

(* The definition with its parameters in normal form, or Error. *)
ValidateTestDef(t) ==
    IF Get(t.type) = Absent THEN Error
    ELSE IF t.interval < Get(t.type).minInterval \/ ~bandsInOrder(t) THEN Error
    ELSE LET p == Normalized(t.type, t.params)
         IN  IF p = Error THEN Error ELSE [t EXCEPT !.params = p]

(* What is pushed for a stored definition, checked once more, or Error. *)
TestSpec(t) ==
    IF Get(t.type) = Absent THEN Error
    ELSE LET p == Normalized(t.type, t.params)
         IN  IF p = Error THEN Error
             ELSE [type |-> t.type, interval |-> t.interval, params |-> Apply(t.type, p)]

HandleCreateTest(req) ==
    /\ stored = Absent /\ ValidateTestDef(req) # Error
    /\ stored' = ValidateTestDef(req)
    /\ UNCHANGED <<catalog, host, binary, caps>>

(* The type of a test does not change. *)
HandleUpdateTest(req) ==
    /\ stored # Absent /\ req.type = stored.type /\ ValidateTestDef(req) # Error
    /\ stored' = ValidateTestDef(req)
    /\ UNCHANGED <<catalog, host, binary, caps>>

HandleDeleteTest ==
    /\ stored # Absent
    /\ stored' = Absent
    /\ UNCHANGED <<catalog, host, binary, caps>>

(* The server is replaced by a later build; ids are never removed. *)
Upgrade(more) ==
    /\ more # {} /\ more \cap catalog = {}
    /\ catalog' = catalog \cup more
    /\ UNCHANGED <<stored, host, binary, caps>>

-----------------------------------------------------------------------------
(* Agents and what they can run *)

(* The list of the agents from before detection.  Lists of capabilities    *)
(* are sets here: the code also compares the order, but a list of today's  *)
(* agents has other members, perfmon for one.                              *)
legacyCapabilities == {"speedtest", "ping", "dns", "http", "tcp", "wlan"}

(* Mutant of isLegacyCapabilities: the old list is taken at its word. *)
isLegacyNever(cs) == FALSE

isLegacyCapabilities(cs) == cs = legacyCapabilities

DetectCapabilities(h) ==
    {"ping", "dns", "http", "tcp", "speedtest", "perfmon", "saas"}
      \cup (IF h.linux THEN {"traceroute"} ELSE {})
      \cup (IF h.monitor THEN {"wlan"} ELSE {})
      \cup (IF h.active THEN {"wlan_active"} ELSE {})

(* What an agent can run.  An old one runs traceroute where it can, though *)
(* its list does not say so, and does not know the newer types.            *)
canRun(a) ==
    IF binary[a] = "new" THEN DetectCapabilities(host[a])
    ELSE DetectCapabilities(host[a]) \ {"perfmon", "saas", "wlan_active"}

(* The agent starts, as an old or a new binary, and registers: what it     *)
(* reports is recorded, but for the list of the old ones, and unless the   *)
(* store fails, which is only logged.                                      *)
RegisterWith(a, b) ==
    LET reported == IF b = "new" THEN DetectCapabilities(host[a]) ELSE legacyCapabilities IN
    /\ binary' = [binary EXCEPT ![a] = b]
    /\ \/ caps' = caps
       \/ ~isLegacyCapabilities(reported) /\ caps' = [caps EXCEPT ![a] = reported]
    /\ UNCHANGED <<stored, catalog, host>>

requiredCapability(type) == IF Get(type) = Absent THEN type ELSE Get(type).capability

isPerfmonSource(a) == stored.params.source = a

(* The spec of the test if agent a is sent it: the capability is on record *)
(* or nothing is, perfmon goes to its source, the definition is valid.     *)
SpecForAgent(a) ==
    IF \/ stored = Absent
       \/ caps[a] # Absent /\ requiredCapability(stored.type) \notin caps[a]
       \/ stored.type = "perfmon" /\ ~isPerfmonSource(a)
    THEN Error ELSE TestSpec(stored)

DefsNext ==
    \/ \E req \in Saves : HandleCreateTest(req) \/ HandleUpdateTest(req)
    \/ HandleDeleteTest
    \/ \E more \in SUBSET Services : Upgrade(more)
    \/ \E a \in Devices, b \in {"old", "new"} : RegisterWith(a, b)

-----------------------------------------------------------------------------
(* Properties *)

(* What is stored is in normal form and stays good: saved again as it was  *)
(* read, it is accepted unchanged, also by a later build, and a spec can   *)
(* always be made of it.                                                   *)
StoredStaysGood ==
    stored # Absent => ValidateTestDef(stored) = stored /\ TestSpec(stored) # Error

(* A test of the site reaches every agent that can run it, old or new and  *)
(* whichever of the two was upgraded first, and perfmon its source only.   *)
CapableAgentsRun ==
    \A a \in Devices : stored # Absent /\ binary[a] # "none" =>
       /\ requiredCapability(stored.type) \in canRun(a) /\ (stored.type = "perfmon" => stored.params.source = a)
             => SpecForAgent(a) # Error
       /\ stored.type = "perfmon" /\ stored.params.source # a => SpecForAgent(a) = Error

=============================================================================

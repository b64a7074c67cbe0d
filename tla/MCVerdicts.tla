----------------------------- MODULE MCVerdicts -----------------------------
(* Verdicts for TLC.  A definition varies in its parameters, or in its     *)
(* interval and thresholds.                                                *)
EXTENDS Verdicts, TLC

MCHosts ==
    {[linux |-> TRUE, monitor |-> FALSE, active |-> FALSE], [linux |-> TRUE, monitor |-> TRUE, active |-> TRUE]}

Texts == {"", "blank", "padded", "plain"}

MCText == Texts \cup {"other", "later", "a", "host", "host:port", "ookla", "ndt7", "cloudflare", "psk", "eap-peap",
                      "open", "permanent", "random", "icmp", "tcp", "udp"}

Wlan(names, securities, password, certificate, mac) ==
    [ssid : names, security : securities, password : password, identity : password,
     ca : certificate, skip : certificate, mac : mac]

Payloads(type) ==
    CASE type = "ping" -> [targets : SUBSET {"a"}, count : {0, 1, 5, 20, 21}]
      [] type = "dns" -> [queries : SUBSET {"a"}, servers : SUBSET {"a"}]
      [] type = "http" -> [url : Texts \cup {"other"}, timeout : {0, 1}]
      [] type = "tcp" -> [targets : SUBSET {"host:port", "host"}, timeout : {0, 1}]
      [] type = "speedtest" -> [provider : {"", "ookla", "ndt7", "cloudflare", "other"}]
      [] type = "wlan_passive" -> {<<>>}
      [] type = "wlan_active" -> Wlan({"blank", "padded"}, {"psk", "other"}, {TRUE}, {FALSE}, {""})
                                 \cup Wlan({"padded"}, {"", "eap-peap"}, BOOLEAN, BOOLEAN, {""})
                                 \cup Wlan({"padded"}, {"open"}, {FALSE}, {FALSE}, {"", "random", "other"})
      [] type = "perfmon" -> [source : {"", "blank"} \cup Devices, target : {"", "host", "host:port"}, duration : {0, 30, 31}]
      [] type = "saas" -> [service : Texts \cup {"later"}]
      [] type = "traceroute" -> [target : {"blank", "padded"}, protocol : {"", "icmp", "udp", "other"},
                                 port : {0, 53}, hops : {0, 64, 65}, probes : {0, 1}]

MCSaves ==
    {[type |-> t, interval |-> 300, warn |-> 0, crit |-> 0, params |-> p] :
        <<t, p>> \in UNION {{t} \X (Payloads(t) \cup {Absent, Garbage}) : t \in Types}}
    \cup {[type |-> t, interval |-> i, warn |-> w, crit |-> c, params |-> Absent] :
             t \in {"speedtest", "wlan_passive", "unknown"}, i \in {59, 60}, w \in 0 .. 2, c \in 0 .. 2}

MCDrafts ==
    {[type |-> t, interval |-> i, warn |-> 2, crit |-> IF t = "speedtest" THEN 1 ELSE 3] :
        t \in {"speedtest", "saas"}, i \in {1}}
    \cup {[type |-> "saas", interval |-> 5, warn |-> 0, crit |-> 3]}

Failed(payload) == [payload |-> payload, error |-> TRUE, good |-> FALSE, first |-> 0, total |-> 0]
Measured(payload, first, total) ==
    [payload |-> payload, error |-> FALSE, good |-> TRUE, first |-> first, total |-> total]

MCOutcomes ==
    "speedtest" :> {Failed("speedtest")} \cup {Measured("speedtest", 0, v) : v \in {0, 1}}
    @@ "saas" :> {[Failed("tcp") EXCEPT !.error = FALSE], Measured("http", 4, 1)}

(* Saves names every agent as a source, so agents are told apart by nothing. *)
Symmetry == Permutations(Sites) \cup Permutations(Devices)
=============================================================================

-------------------------- MODULE MCInvestigations --------------------------
(* Small sets of measurements for every command: the ordinary ones, the    *)
(* ones on both sides of each threshold, and the ones that were lost.      *)
EXTENDS Investigations

Figures(S) == S \cup {Missing}

(* iperf3 documents.                                                       *)
Block(bps, seconds, packets, lost) ==
  [bps |-> bps, bytes |-> bps * seconds, seconds |-> seconds, packets |-> packets, lost |-> lost]
Document(sent, got, legacy) ==
  [json |-> TRUE, error |-> FALSE, version |-> 317, connected |-> 1, bidir |-> FALSE,
   reverse |-> FALSE, target |-> 20, end |-> TRUE, sum_sent |-> sent, sum_received |-> got,
   sum |-> legacy, sent_rev |-> Absent, recv_rev |-> Absent]
Full(bps, lost) == Document(Block(bps + 2, 10, 9, 0), Block(bps, 10, 9, lost), Block(bps + 1, 10, 9, lost))
Bidir(up, down) ==
  [Document(Block(up, 10, 9, 0), Block(up, 10, 9, 0), Absent) EXCEPT
     !.bidir = TRUE, !.recv_rev = IF Known(down) THEN Block(down, 10, 9, 0) ELSE Absent]
Garbled == [Full(10, 0) EXCEPT !.json = FALSE]
Refused == [Full(10, 0) EXCEPT !.error = TRUE, !.connected = 0]
NoReceiver == Document(Block(9, 10, 9, 0), Absent, Absent)
Hollow  == Document(Block(9, 10, 9, 0), Block(0, 10, 0, 0), Block(8, 10, 9, 1))
Shorter == Document(Block(9, 10, 9, 0), Block(40, 5, 9, 0), Absent)
Legacy  == Document(Block(9, 10, 9, 0), Absent, Block(8, 10, 9, 3))
Endless == [Full(10, 0) EXCEPT !.end = FALSE]
Child(d)  == [outcome |-> "exited", document |-> d]
Killed    == [outcome |-> "killed", document |-> Full(10, 0)]

Point(offered, up, down) == [offered |-> offered, up |-> up, down |-> down, rejected |-> "none"]
KneePoints == {Point(r, r, r) : r \in {10, 20, 30}} \cup {Point(r, 15, 2) : r \in {20, 30}}
              \cup {Point(30, 12, 12), [Point(20, 20, 20) EXCEPT !.rejected = "ProcessFailure"]}
FlowPoint(n, rep) == {[flows |-> n, aggregate |-> x, loss |-> l, repeated |-> rep] :
                        x \in Figures({10, 13}), l \in {0, 12}}
Phase(rpm)  == [outcome |-> "json", rpm |-> rpm]
Phases      == {Phase(450), Phase(150), Phase(Missing), [outcome |-> "killed", rpm |-> 450]}
Cadences    == {<<10, 10>>, <<10, Missing>>, <<40, 40>>, <<Missing, Missing>>}

(* Circuits, access points, gateways.                                      *)
CircuitPhase(s) == {[state |-> s, mbps |-> m, loss |-> l, members |-> mem] :
  m \in Figures({10, 20}), l \in Figures({8}),
  mem \in {<<TelemetryFields>>, <<TelemetryFields, TelemetryFields \ {"drops"}>>}}
ResilienceSample(id) == {[session |-> id, alive |-> a, route |-> r, nat |-> "n", resync |-> "none"] :
                           a \in {"yes", "no", "none"}, r \in {"r", "s", "none"}}
ApSamples == [salt : {TRUE}, wdutil : {"ok", "denied"}, bssid : {"x", "y", "none"}, band : {"2", "5"}]
Cell(mode, model, hw) == [phy |-> "802.11ax", mode |-> mode, model |-> model, hardware |-> hw,
                          width |-> 80, ap_width |-> 160, band |-> "5", ap_band |-> "5"]
Samplers == [wrote : BOOLEAN, replies : {<<4, 5>>, <<4, Missing>>, <<Missing, Missing>>}]
SiteReports == [redirected : BOOLEAN, mbps : Figures({10}), clean : BOOLEAN]
Bundles == {[ap |-> ap, metrics |-> ms] :
              ap \in {NoIdentity, [label |-> "x", band |-> "5"], [label |-> "y", band |-> "5"]},
              ms \in {<<[name |-> "rtt", value |-> v]>> : v \in Figures({5, 9})} \cup {<<>>}}
Platforms == {[os |-> o, driver |-> d, kernel |-> "k", phy |-> "ax", iperf |-> "3.17", mbps |-> m] :
                o \in {"mac", "linux"}, d \in {"a", "b"}, m \in Figures({10, 20})}

(* Clocks: the true error lies within the round trip of the offset.        *)
ClockAnswers ==
  {n \in [error : {0, 2, 4, 5, 6, 8}, offset : 0..4, delay : {0, 1, 2, 4}] : Distance(n.error, n.offset) <= n.delay}
  \cup {[error |-> e, offset |-> Missing, delay |-> Missing] : e \in {0, 8}}
Rows == {<<[own |-> TRUE, columns |-> 7, ipkts |-> n]>> : n \in {0, 5, 60, 250}}
        \cup {<<[own |-> FALSE, columns |-> 7, ipkts |-> 3]>>}
Counters == [rx : {2, 9}, tx : {1}, errors : {0, 3}]
AirportLines ==
  {[key |-> "Current"], [key |-> "Other"], [key |-> "Signal", rssi |-> -60, noise |-> -70],
   [key |-> "Channel", channel |-> 36, band |-> "5", width |-> 80], [key |-> "PHY", phy |-> "802.11ax"]}
Wdutil == {[installed |-> FALSE], [installed |-> TRUE, success |-> FALSE, mentions_privilege |-> TRUE],
           [installed |-> TRUE, success |-> TRUE,
            fields |-> [rssi |-> -80, noise |-> Missing, cca |-> 12]]}
Fresh == {[name |-> "n", at |-> t, valid |-> v] : t \in {0, 5, 12, NotFinite}, v \in {3, 10}}
Claims == {Unclaimed} \cup {[value |-> v, provenance |-> "Measured"] : v \in {0, 95, 100, NotFinite}}

(* Controls.                                                               *)
Descriptors == {NoDescriptor} \cup
  {[start |-> s, marks |-> m, listeners |-> {"l"}] : s \in {0, 3}, m \in {{}, {1, 2}, {2, 5}, {6}}}
ControlPaths == [loss : Figures({0, 1, 4}), egress : {"p", "q", "none"}]
Snap(ch) == [Unavailable EXCEPT !.associated = TRUE, !.channel = ch, !.rssi = -60]
EdgeSnaps == {[f \in EdgeFields \cup {"poe_requested"} |->
                 CASE f = "crc_errors" -> n [] f = "reduced" -> r [] f = "poe_negotiated" -> p
                   [] f = "poe_requested" -> 30 [] OTHER -> 1] :
               n \in Figures({0, 2}), r \in Figures({0, 1}), p \in Figures({15, 30})}
Measurement == {[stratum |-> s, offered |-> o, capacity |-> 100, sampled |-> t, measured |-> 40,
                 strong |-> TRUE, directional |-> s = 1] :
                  s \in {1, 2}, o \in {40, 80}, t \in Figures({20, 0})}
Clients == {Child(Full(10, 0)), Child(Full(10, 3)), Child(Full(10, Missing)), Child(Hollow), Child(Legacy), Child(Garbled), Killed}

(* The path.                                                               *)
Trial(size) == {[size |-> size, local |-> l, runtime |-> TRUE, quic |-> q, df |-> l] :
                  l \in BOOLEAN, q \in {"acknowledged", "estimate_below", "silent"}}
Frames == {[src |-> 1, dst |-> 2, syn |-> TRUE, ack |-> FALSE, mss |-> 1460],
           [src |-> 2, dst |-> 1, syn |-> TRUE, ack |-> TRUE, mss |-> 1380],
           [src |-> 2, dst |-> 1, syn |-> FALSE, ack |-> TRUE, mss |-> Missing]}
Hop(n) == {[hop |-> n, stars |-> FALSE, addr |-> a, rtt |-> 5] : a \in {"p", "q"}}
          \cup {[hop |-> n, stars |-> TRUE, addr |-> "none", rtt |-> Missing]}
PathLine == {[timeout |-> FALSE, addr |-> a, rtt |-> r] : a \in {"p", "q"}, r \in {5, 300}}
            \cup {[timeout |-> TRUE, addr |-> "none", rtt |-> Missing]}
Bucket == {[binds |-> TRUE, sends |-> s, connects |-> x, before |-> b, after |-> "m"] :
             s \in BOOLEAN, x \in BOOLEAN, b \in {"m", "n", "none"}}
Dig(S) == {[ran |-> TRUE, success |-> TRUE, values |-> v] : v \in S}
          \cup {[ran |-> TRUE, success |-> FALSE, values |-> {}]}

(* Packets.                                                                *)
Fate(i) == {[kind |-> k, addr |-> a] : k \in {"mapped", "late"}, a \in {10 + i, 20 + i}}
           \cup {[kind |-> k, addr |-> 0] : k \in {"lost", "send_fails", "error", "foreign"}}
Answer(kind, code) == [kind |-> kind, own |-> TRUE, lifetime |-> TRUE, relayed |-> kind = "success",
                       code |-> code, challenge |-> code = 401]
Relay == {[asked |-> TRUE, resolves |-> TRUE, transport |-> "udp", socket |-> TRUE,
           credentials |-> c, first |-> Answer("error", 401), second |-> s] :
            c \in BOOLEAN, s \in {Answer("success", 0), Answer("error", 438), Answer("silent", 0)}}
Transfer ==
  LET done == [spawned |-> TRUE, ended |-> TRUE, exited |-> TRUE, status |-> 200, down |-> 20000,
               up |-> 20000, ip |-> "a", final |-> "none"]
  IN  {done, [done EXCEPT !.ended = FALSE], [done EXCEPT !.status = 404], [done EXCEPT !.down = 9],
       [done EXCEPT !.up = Missing]}
Segment(src, dst, seq, len, ack) ==
  [orig |-> 60 + len, captured |-> 60 + len, at |-> 1, net |-> "ip", transport |-> "tcp", src |-> src,
   dst |-> dst, port443 |-> FALSE, long |-> FALSE, checksum |-> "right", v4 |-> TRUE, seq |-> seq,
   len |-> len, isack |-> TRUE, ack |-> ack]
Packets == {Segment(1, 2, s, 10, 0) : s \in {0, 10, 30}} \cup {Segment(2, 1, 0, 0, 10)}
           \cup {[Segment(1, 2, 0, 2000, 0) EXCEPT !.captured = 60], [Segment(3, 1, 0, 0, 0) EXCEPT !.net = "bad"]}
Ticks == [exit : {"running", "denied", "error", "zero"}, bytes : {0, 100}]

Table ==
  ("capacity-knee" :> <<{20}, {20, 30}, KneePoints, KneePoints, KneePoints,
                        {Point(10, 10, 10)}, {Point(20, 20, 20), Point(20, 15, 2)}, {Point(30, 30, 30), Point(30, 20, 20)}>>)
  @@ ("size-rate-matrix" :> <<Figures({1400})>> \o [i \in 1..4 |->
        {[size |-> IF i % 2 = 1 THEN 200 ELSE 1372, offered |-> 10, received |-> r] : r \in {4, 9, 10}}
        \cup {[size |-> 1372, offered |-> o, received |-> 0] : o \in Figures({0})}])
  @@ ("flow-dscp-matrix" :> <<FlowPoint(1, FALSE), FlowPoint(4, FALSE), FlowPoint(1, TRUE),
                              [sent_ok : BOOLEAN, observed : Figures({0, 46})]>>)
  @@ ("iperf-analyze" :> <<{Full(10, 1), Garbled, Refused, NoReceiver, Hollow, Endless, Bidir(10, 5)}>>)
  @@ ("iperf-summary" :> <<{Full(10, 1), Refused, NoReceiver, Hollow, Endless}>>)
  @@ ("iperf-discover" :> <<{Full(10, 0), Garbled, Refused}, {[Full(10, 0) EXCEPT !.version = 315], Endless}>>)
  @@ ("throughput-tuner" :> <<{Full(10, 0), Full(30, 0), NoReceiver, Shorter, Garbled},
                              {Full(20, 0), Hollow, Refused, Shorter}, Figures({10}), Figures({10, 14})>>)
  @@ ("upload-sweep" :> [i \in 1..2 |-> [fails : {"dns", "tls", "write", "none"}, status : {0, 200}]])
  @@ ("bufferbloat" :> [i \in 1..3 |-> Phases])
  @@ ("probe-rate" :> [i \in 1..5 |-> Cadences])
  @@ ("burst-analysis" :> [i \in 1..6 |-> Figures(0..(i - 1))])
  @@ ("media-quality" :> <<{"Audio", "Video"}, {"echo", "bind_error"}, {"none", "connects"}>>
                         \o [i \in 1..5 |-> Figures({0, i - 1})])
  @@ ("packet-loss" :> [i \in 1..9 |-> BOOLEAN])
  @@ ("rtt" :> <<{<<>>, <<1, 20, 30, 5>>, <<1, 20, 90, 15>>, <<1, 250, 300, 9>>}, Figures({0, 12})>>)
  @@ ("circuit-compare" :> <<CircuitPhase("a-only"), CircuitPhase("b-only"), CircuitPhase("dual-active")>>)
  @@ ("resilience" :> <<ResilienceSample(1), ResilienceSample(1), ResilienceSample(2), ResilienceSample(1)>>)
  @@ ("ap-identity" :> <<ApSamples, ApSamples>>)
  @@ ("roaming" :> <<ApSamples, ApSamples>>)
  @@ ("ap-compat-matrix" :> <<{[phy |-> "802.11be", width |-> 80, band |-> "5"]},
        {Cell("Be", "none", "Wifi6e"), Cell("none", "none", "Wifi7")}, {Cell("Ax", "m", "Wifi6e"), Cell("Ax", "none", "Wifi7")}>>)
  @@ ("first-hop" :> <<Figures({4}), Figures({4}), {"connected", "refused", "timeout"}>>)
  @@ ("gateway-bracket" :> <<Samplers, Samplers, {[ok |-> TRUE, bytes |-> 90, target |-> 100],
        [ok |-> TRUE, bytes |-> 120, target |-> 100], [ok |-> FALSE, bytes |-> 0, target |-> 0]}>>)
  @@ ("site-ab" :> [i \in 1..4 |-> {s \in SiteReports : i <= 2 \/ ~s.redirected}])
  @@ ("second-network" :> <<Bundles, Bundles>>)
  @@ ("vpn-matrix" :> <<{"refused", "error", "answered", "timeout"}, {"refused", "timeout"}, {0, 1360}>>)
  @@ ("platform-matrix" :> <<Platforms, Platforms>>)
  @@ ("clock-guard" :> <<ClockAnswers, {n \in ClockAnswers : n.error \in {0, 5} /\ n.offset \in {Missing, 0, 3}}>>)
  @@ ("counter-liveness" :> <<Rows, Rows, {0, 4, 10}, {0, 1}, {<<>>, <<0>>, <<0, 2>>}>>)
  @@ ("counter-deltas" :> <<Counters, Counters, BOOLEAN, BOOLEAN>>)
  @@ ("radio-diagnostic" :> [i \in 1..3 |-> AirportLines] \o <<{l \in AirportLines : l.key \in {"Other", "Signal", "Channel"}}, Wdutil>>)
  @@ ("coverage" :> [i \in 1..5 |-> {"measured", "no_answer", "not_attempted"}])
  @@ ("freshness" :> <<Fresh, Fresh, {10, 20}>>)
  @@ ("corroborate" :> <<Claims, Claims, {5, -1}>>)
  @@ ("multiclient-fairness" :> <<Descriptors, Descriptors, {0, 10}, {0, 20}>>)
  @@ ("wired-control" :> <<ControlPaths, ControlPaths>>)
  @@ ("tcp-vs-udp" :> <<Clients, Clients, {Snap(1), Unavailable}, {Snap(1), Snap(6), Unavailable}>>)
  @@ ("independent-rates" :> [i \in 1..4 |-> Clients])
  @@ ("process-model" :> <<{Child(Bidir(10, 9)), Child(Bidir(10, 5)), Child(Bidir(10, Missing)), Killed},
        {Child(Full(10, 0)), Child(Garbled)}, {Child(Full(12, 0)), Child(Full(5, 0)), Child(NoReceiver)}, Figures({3}),
        [readable : {TRUE}, given : BOOLEAN, value : Figures({7})]>>)
  @@ ("wired-edge" :> <<EdgeSnaps, EdgeSnaps>>)
  @@ ("rf-survey" :> <<{Snap(1), Unavailable}, {Snap(1), Unavailable}, Figures({10, 50}), Figures({10})>>)
  @@ ("phy-normalized" :> <<Measurement, Measurement, {m \in Measurement : m.stratum = 1}>>)
  @@ ("mss-evidence" :> <<{"true", "none"}, Trial(1400), Frames, Frames, {1460}, {1460, 1400}>>)
  @@ ("pmtu" :> <<Trial(1100), Trial(1300), Trial(1400)>>)
  @@ ("mtu" :> <<(MinProbe - 1)..MaxProbe>>)
  @@ ("tunnel" :> <<{0, 1200, 1340, 1380, 1460}, {100, 1280, 1500}, {"wireguard", "gre"}, {"ipsec", "other"}>>)
  @@ ("provider-path" :> <<Hop(1), Hop(2), Hop(1), Hop(2) \cup Hop(3)>>)
  @@ ("path-analysis" :> <<PathLine, PathLine, {<<5, 90>>, <<5, Missing>>}, {<<Missing, 90>>, <<5>>}>>)
  @@ ("ecmp-nat" :> <<{"udp", "tcp"}, Bucket, Bucket>>)
  @@ ("dns-steering" :> <<Dig({{1}, {1, 2}}), Dig({{}, {7}}), Dig({{1}, {2}}), Dig({{}, {8}})>>)
  @@ ("stun-turn" :> <<Fate(1), Fate(2), {f \in Fate(3) : f.addr = 13 \/ f.kind = "lost"}, Relay>>)
  @@ ("tcp-options" :> <<[resolves : {TRUE}, connects : BOOLEAN, v6 : BOOLEAN,
                          route_mtu : Figures({1500}), mss : {1380, 1440, 1460}]>>)
  @@ ("tcp-segmentation" :> <<SUBSET {80, 443}>> \o [i \in 1..2 |->
        [size : {IF i = 1 THEN 500 ELSE 1460}, connects : {TRUE}, written : BOOLEAN, answered : BOOLEAN]])
  @@ ("ecn-aqm" :> [i \in 1..3 |-> Codepoints \cup {"other"}]
                   \o <<[codepoint : {"ect0", "none"}, bound : {TRUE}, set : BOOLEAN, confirmed : BOOLEAN, sent : {TRUE}]>>)
  @@ ("ipv6-validate" :> <<[ifconfig : BOOLEAN, addrs : {<<"fe80", "2001">>, <<"fe80">>}, route : {"ok", "error"},
        ndp : {"ok", "empty"}, aaaa : BOOLEAN, reachable : BOOLEAN, arpa : {{}, {"embedded"}, {"other"}}, a : {TRUE},
        reachable4 : {TRUE}, raced : {TRUE},
        race : [v6 : Figures({5}), v4 : Figures({3}), offers6 : {TRUE}, offers4 : {TRUE}]]>>)
  @@ ("protocol-compare" :> [i \in 1..4 |-> Transfer])
  @@ ("pcap-report" :> [i \in 1..5 |-> Packets])
  @@ ("capture" :> [i \in 1..3 |-> Ticks])
  @@ ("rules" :> <<{[tcp_success |-> TRUE, diagnosis |-> d] : d \in {"none", "TlsTimeout", "HttpResponseTimeout"}},
                   Figures({1300, 1460}), {"yes", "no", "none"}, Figures({0, 20, 150})>>)
  @@ ("https" :> <<{[tcp_success |-> b, diagnosis |-> d] : b \in BOOLEAN, d \in {"none", "TlsTimeout"}}>>)
  @@ ("report" :> <<SUBSET {"https", "rtt", "ssh"}, {"yes", "no"}, Figures({150}), Figures({300})>>)
  @@ ("diagnose" :> <<BOOLEAN, BOOLEAN, Figures({1500, 1300}), Figures({1500, 1280}), BOOLEAN>>)
  @@ ("kitchen-sink" :> [i \in 1..2 |-> {[port |-> p, resolves |-> r, icmp |-> m, tcp |-> t, udp |-> 1500, quic |-> Missing] :
        p \in {0, 443}, r \in {TRUE, i = 2}, m \in Figures({1300, 1500}), t \in Figures({1500})}]
        \o <<Figures({1500}), Figures({1300})>>)
  @@ ("thresholds" :> [i \in 1..6 |-> {0, 30, 90, 400}])

(* The table as one function, which TLC evaluates once.                    *)
MCMeasurements == [c \in DOMAIN Table |-> Table[c]]

(* The evidence of the rule engine alone.                                  *)
MCRules == [c \in {"rules"} |-> Table[c]]
=============================================================================

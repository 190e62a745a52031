--------------------------- MODULE Investigations ---------------------------
(***************************************************************************)
(* The commands that measure and conclude, as one machine.  A command      *)
(* gathers its measurements one at a time, any of which may be lost (the   *)
(* tool was killed, the counter was not readable, the peer did not answer),*)
(* and then reports what the modules this one extends conclude from them.  *)
(*                                                                         *)
(* The order of the measurements of a command is stated with its report.   *)
(***************************************************************************)
EXTENDS LoadVerdicts, StreamVerdicts, Comparators, Controls, PathVerdicts, PacketVerdicts,
        Diagnosis

CONSTANTS Measurements,  \* for each command, the values of each of its measurements
          MaxSkew,       \* clock-guard --max-skew
          MinProbe,      \* sizes that the MTU search
          MaxProbe       \*   goes through

ASSUME InvestigationsAssumption ==
  /\ MaxSkew \in Nat
  /\ MinProbe \in Nat /\ MaxProbe \in Nat /\ MinProbe <= MaxProbe
  /\ \A c \in DOMAIN Measurements :
       /\ Len(Measurements[c]) \in Nat \ {0}
       /\ DOMAIN Measurements[c] = 1..Len(Measurements[c])

(* What the measurements of a command are made of, for the commands whose  *)
(* verdicts are proved about.  Any set of such measurements will do.       *)
IperfBlock == [bps : Int, bytes : Int, seconds : Int, packets : Int, lost : Int]
IperfDocument ==
  [json : BOOLEAN, error : BOOLEAN, version : Int, connected : Int, bidir : BOOLEAN,
   reverse : BOOLEAN, target : Int, end : BOOLEAN, sum_sent : IperfBlock,
   sum_received : IperfBlock, sum : IperfBlock, sent_rev : IperfBlock, recv_rev : IperfBlock]
IperfClient == [outcome : STRING, document : IperfDocument]
RadioSnapshot == [associated : BOOLEAN, phy_mode : STRING, band : STRING, channel : Int,
                  width : Int, rssi : Int, noise : Int]
AirportLine ==
  [key : {"Current", "Other"}] \cup [key : {"Status"}, associated : BOOLEAN]
  \cup [key : {"PHY"}, phy : STRING] \cup [key : {"Signal"}, rssi : Int, noise : Int]
  \cup [key : {"Channel"}, channel : Int, band : STRING, width : Int]
WdutilAnswer ==
  [installed : {FALSE}]
  \cup [installed : {TRUE}, success : {FALSE}, mentions_privilege : BOOLEAN]
  \cup [installed : {TRUE}, success : {TRUE}, fields : [rssi : Int, noise : Int, cca : Int]]
StunFate == [kind : STRING, addr : Nat]
TurnAnswer == [kind : STRING, own : BOOLEAN, lifetime : BOOLEAN, relayed : BOOLEAN, code : Nat,
               challenge : BOOLEAN]

Shapes(c) ==
  CASE c = "capacity-knee" ->
         <<Int, Int>> \o [i \in 1..6 |-> [offered : Nat, up : Int, down : Int, rejected : STRING]]
    [] c = "flow-dscp-matrix" ->
         [i \in 1..3 |-> [flows : Int, aggregate : Int, loss : Int, repeated : BOOLEAN]]
         \o <<[sent_ok : BOOLEAN, observed : Int]>>
    [] c = "iperf-summary" -> <<IperfDocument>>
    [] c = "bufferbloat" -> [i \in 1..3 |-> [outcome : STRING, rpm : Int]]
    [] c \in {"ap-identity", "roaming"} ->
         [i \in 1..2 |-> [salt : BOOLEAN, wdutil : STRING, bssid : STRING, band : STRING]]
    [] c = "circuit-compare" ->
         [i \in 1..3 |-> [state : STRING, mbps : Int, loss : Int,
                           members : Seq(SUBSET TelemetryFields)]]
    [] c = "platform-matrix" ->
         [i \in 1..2 |-> [os : STRING, driver : STRING, kernel : STRING, phy : STRING,
                           iperf : STRING, mbps : Int]]
    [] c = "second-network" ->
         [i \in 1..2 |-> [ap : [label : STRING, band : STRING],
                           metrics : Seq([name : STRING, value : Int])]]
    [] c = "clock-guard" -> [i \in 1..2 |-> [error : Nat, offset : Int, delay : Int]]
    [] c = "counter-liveness" ->
         LET rows == Seq([own : BOOLEAN, columns : Nat, ipkts : Int])
         IN  <<rows, rows, Nat, Nat, Seq(Int)>>
    [] c = "corroborate" ->
         LET claim == [value : Int, provenance : STRING] IN <<claim, claim, Int>>
    [] c = "multiclient-fairness" ->
         LET descriptor == [start : Int, marks : SUBSET Int, listeners : SUBSET STRING]
         IN  <<descriptor, descriptor, Nat, Nat>>
    [] c = "wired-control" -> [i \in 1..2 |-> [loss : Int, egress : STRING]]
    [] c = "tcp-vs-udp" -> <<IperfClient, IperfClient, RadioSnapshot, RadioSnapshot>>
    [] c = "process-model" ->
         <<IperfClient, IperfClient, IperfClient, Int,
           [readable : BOOLEAN, given : BOOLEAN, value : Int]>>
    [] c = "wired-edge" -> [i \in 1..2 |-> [EdgeFields \cup {"poe_requested"} -> Int]]
    [] c = "pmtu" ->
         [i \in 1..3 |-> [size : Nat, local : BOOLEAN, runtime : BOOLEAN, df : BOOLEAN,
                           quic : {"bind", "refused_size", "silent", "stalled",
                                   "estimate_below", "acknowledged"}]]
    [] c = "protocol-compare" ->
         [i \in 1..4 |-> [spawned : BOOLEAN, ended : BOOLEAN, exited : BOOLEAN, status : Int,
                           down : Int, up : Int, ip : STRING, final : STRING]]
    [] c = "burst-analysis" -> [i \in DOMAIN Measurements[c] |-> Int]
    [] c = "media-quality" ->
         <<STRING, STRING, STRING>> \o [i \in 1..(Len(Measurements[c]) - 3) |-> Int]
    [] c = "gateway-bracket" ->
         LET sampler == [wrote : BOOLEAN, replies : Seq(Int)]
         IN  <<sampler, sampler, [ok : BOOLEAN, bytes : Nat, target : Nat]>>
    [] c = "tunnel" -> <<Int, Nat, STRING, STRING>>
    [] c = "size-rate-matrix" ->
         <<Int>> \o [i \in 1..4 |-> [size : Int, offered : Int, received : Int]]
    [] c = "throughput-tuner" -> <<IperfDocument, IperfDocument, Int, Int>>
    [] c = "independent-rates" -> [i \in 1..4 |-> IperfClient]
    [] c = "radio-diagnostic" -> [i \in 1..4 |-> AirportLine] \o <<WdutilAnswer>>
    [] c = "coverage" ->
         [i \in DOMAIN Measurements[c] |-> {"measured", "no_answer", "not_attempted"}]
    [] c = "dns-steering" ->
         [i \in 1..4 |-> [ran : BOOLEAN, success : BOOLEAN, values : SUBSET Int]]
    [] c = "provider-path" ->
         [i \in 1..4 |-> [hop : Nat, stars : BOOLEAN, addr : STRING, rtt : Int]]
    [] c = "site-ab" ->
         [i \in 1..4 |-> [redirected : BOOLEAN, clean : BOOLEAN, mbps : {Missing} \cup (Nat \ {0})]]
    [] c = "stun-turn" ->
         [i \in 1..3 |-> StunFate]
         \o <<[asked : BOOLEAN, resolves : BOOLEAN, transport : STRING, socket : BOOLEAN,
               credentials : BOOLEAN, first : TurnAnswer, second : TurnAnswer]>>
    [] c = "packet-loss" -> [i \in DOMAIN Measurements[c] |-> BOOLEAN]
    [] c = "mtu" -> <<(MinProbe - 1)..MaxProbe>>
    [] c = "thresholds" -> [i \in DOMAIN Measurements[c] |-> Nat]
    [] c = "resilience" ->
         [i \in DOMAIN Measurements[c] |-> [session : Int, alive : {"yes", "no", "none"},
                                            route : STRING, nat : STRING, resync : STRING]]

ShapedCommands ==
  {"capacity-knee", "flow-dscp-matrix", "iperf-summary", "bufferbloat", "ap-identity", "roaming",
   "circuit-compare", "platform-matrix", "second-network", "clock-guard", "counter-liveness",
   "corroborate", "multiclient-fairness", "wired-control", "tcp-vs-udp", "process-model",
   "wired-edge", "pmtu", "protocol-compare", "burst-analysis", "media-quality",
   "gateway-bracket", "tunnel", "size-rate-matrix", "throughput-tuner", "independent-rates",
   "radio-diagnostic", "coverage", "dns-steering", "provider-path", "site-ab", "stun-turn",
   "packet-loss", "mtu", "thresholds", "resilience"}

(* The true error of a clock is at most the offset and the round trip that *)
(* its NTP answer shows.                                                   *)
ASSUME MeasurementsAssumption ==
  \A c \in DOMAIN Measurements :
    /\ c \in ShapedCommands =>
         /\ Len(Measurements[c]) = Len(Shapes(c))
         /\ \A i \in DOMAIN Measurements[c] : Measurements[c][i] \subseteq Shapes(c)[i]
    /\ c = "clock-guard" =>
         \A i \in 1..2 : \A m \in Measurements[c][i] :
           Known(m.offset) /\ Known(m.delay) => m.error <= m.offset + m.delay

VARIABLES command,   \* the command that runs
          ready,     \* its files are readable, its names resolve, its tools exist,
                     \*   and exactly one of --live-event and --maintenance was given
          evidence,  \* its measurements so far
          outcome    \* its exit status and its report

vars == <<command, ready, evidence, outcome>>

Commands == DOMAIN Measurements

Running == [exit |-> Missing, report |-> "none"]

(* Load matrices and throughput.  capacity-knee: both controls, the native *)
(* points, the points of the application sweep.  size-rate-matrix: the MTU,*)
(* two sizes at one byte rate, two at one packet rate.  flow-dscp-matrix:  *)
(* three flow points, a DSCP class.  throughput-tuner: the candidates, two *)
(* baselines.  probe-rate: gateway, remote (normal, elevated), TCP.        *)
load_report(c, g, ok) ==
  CASE c = "capacity-knee" ->
         capacity_knee_run([readable |-> ok, native |-> SubSeq(g, 3, 5),
                            application |-> SubSeq(g, 6, 8), opening |-> g[1], closing |-> g[2]])
    [] c = "size-rate-matrix" ->
         size_rate_matrix_run([live_event |-> ok, maintenance |-> FALSE, mtu |-> g[1],
                               byteRate |-> SubSeq(g, 2, 3), packetRate |-> SubSeq(g, 4, 5)])
    [] c = "flow-dscp-matrix" ->
         flow_dscp_matrix_run([live_event |-> ok, maintenance |-> FALSE,
                               points |-> SubSeq(g, 1, 3), classes |-> [d \in {46} |-> g[4]]])
    [] c = "iperf-analyze" ->
         iperf_analyze_run([allow_ports |-> <<>>, target |-> "none", document |-> g[1],
                            parse_file |-> IF ok THEN "file" ELSE "unreadable"])
    [] c = "iperf-summary" -> Completed(from_json(g[1]))
    [] c = "iperf-discover" ->
         iperf_analyze_run([allow_ports |-> [i \in DOMAIN g |-> 5200 + i], parse_file |-> "none",
                            target |-> IF ok THEN "host" ELSE "none",
                            spawned |-> [i \in DOMAIN g |-> TRUE], answers |-> g])
    [] c = "throughput-tuner" ->
         throughput_tuner_run([candidates |-> <<1, 2>>, representative |-> 2, requested |-> 10,
                               limits |-> [files |-> IF ok THEN 256 ELSE 18, cores |-> 1],
                               answers |-> SubSeq(g, 1, 2), repeats |-> 2,
                               baseline |-> SubSeq(g, 3, 4)])
    [] c = "upload-sweep" ->
         Completed(upload_sweep_test(<<run_single_sweep(1024, ok, g[1]),
                                       run_single_sweep(16384, ok, g[2])>>))
    [] c = "bufferbloat" ->
         bufferbloat_run([tool |-> ok, interface |-> "none", route |-> "en0", tunnel |-> FALSE,
                          phases |-> [up |-> g[1], down |-> g[2], sim |-> g[3]]])
    [] c = "probe-rate" ->
         probe_rate_run([gateway_resolves |-> ok, remote_resolves |-> TRUE, tcp |-> g[5],
                         gateway |-> [normal |-> g[1], elevated |-> g[2]],
                         remote  |-> [normal |-> g[3], elevated |-> g[4]]])

(* Echo streams.  What is read after each send; media-quality: the profile *)
(* and the direct candidate first.  packet-loss: lines of ping.  rtt: the  *)
(* summary line and the loss.                                              *)
stream_report(c, g, ok) ==
  CASE c = "burst-analysis" ->
         burst_analysis_run([live_event |-> ok, maintenance |-> FALSE, interval |-> 20,
                             normal |-> [ok |-> TRUE, echoes |-> g], ramp |-> TRUE,
                             ramped |-> [ok |-> g[1] = 0, echoes |-> g]])
    [] c = "media-quality" ->
         media_quality_run([live_event |-> ok, maintenance |-> FALSE, sequence_ok |-> TRUE,
                            profile |-> g[1], socket |-> g[2], relay |-> g[3],
                            echoes |-> SubSeq(g, 4, Len(g))])
    [] c = "packet-loss" ->
         Completed(packet_loss_test([ping_ok |-> ok, transmitted |-> Len(g), lines |-> g,
                                     received |-> Count(g, LAMBDA x : x), literal |-> TRUE,
                                     open |-> {443}]))
    [] c = "rtt" ->
         Completed(rtt_test([ping_ok |-> ok, summary |-> g[1], loss |-> g[2]]))

(* Comparisons.  circuit-compare: the three states.  resilience: samples.  *)
(* ap-identity, roaming, platform-matrix, second-network: before, after.   *)
(* ap-compat-matrix: the sampled cell and two more.  first-hop: two probes *)
(* and the fallback.  gateway-bracket: idle and loaded sampler, guard.     *)
(* site-ab: two reports of each site.  vpn-matrix: two transports, the MSS.*)
comparison_report(c, g, ok) ==
  CASE c = "circuit-compare" ->
         circuit_compare_run([readable |-> ok, valid |-> TRUE, digest_only |-> FALSE, phases |-> g])
    [] c = "resilience" ->
         resilience_run([authorized |-> ok, readable |-> TRUE, samples |-> g, started |-> 10,
                         ended |-> 30])
    [] c = "ap-identity" ->
         ap_identity_run([first |-> g[1], second |-> g[2], compare |-> ok])
    [] c = "roaming" ->
         roaming_run([first |-> g[1], second |-> g[2], identity_before |-> "id",
                      identity_after |-> IF ok THEN "id" ELSE "none"])
    [] c = "ap-compat-matrix" ->
         ap_compat_matrix_run([sample |-> TRUE, radio |-> ok, snap |-> g[1], hardware |-> "Wifi7",
                               ingest_ok |-> TRUE, ingested |-> SubSeq(g, 2, 3)])
    [] c = "first-hop" ->
         firsthop_run([gateway |-> IF ok THEN "gw" ELSE "none", replies |-> SubSeq(g, 1, 2),
                       explicit |-> [name |-> "none", tunnel |-> FALSE], fallback |-> g[3],
                       route |-> [name |-> "en0", tunnel |-> FALSE]])
    [] c = "gateway-bracket" ->
         gateway_bracket_run([gateway |-> IF ok THEN "gw" ELSE "none", synthetic |-> FALSE,
           phases |-> <<[kind |-> "idle", sampler |-> g[1], fallback |-> "refused", guard |-> g[3]],
                        [kind |-> "load", sampler |-> g[2], fallback |-> "timeout", guard |-> g[3]]>>])
    [] c = "site-ab" ->
         site_ab_run([protocols |-> IF ok THEN {} ELSE {"ftp"}, affected |-> SubSeq(g, 1, 2),
                      control |-> SubSeq(g, 3, 4)])
    [] c = "second-network" ->
         second_network_run([save |-> FALSE, compare |-> <<[readable |-> ok, bundle |-> g[1]],
                                                           [readable |-> TRUE, bundle |-> g[2]]>>])
    [] c = "vpn-matrix" ->
         vpn_matrix_run([events |-> [WireGuard |-> g[1], OpenVpnTcp |-> g[2]], mss |-> g[3]])
    [] c = "platform-matrix" ->
         platform_matrix_run([compare |-> IF ok THEN "ok" ELSE "none", local |-> g[1],
                              other |-> g[2]])

(* Qualification of evidence.  clock-guard: the answers two nodes got, with*)
(* the true error of their clocks.  counter-liveness: the rows of netstat  *)
(* before and after, the stimulus, the drops, the other sources.           *)
(* counter-deltas: before, after, whether the interface was isolated.      *)
(* radio-diagnostic: four lines of system_profiler, wdutil.  coverage,     *)
(* freshness and corroborate are the rules by themselves.                  *)
evidence_report(c, g, ok) ==
  CASE c = "clock-guard" ->
         LET v == [i \in 1..2 |-> clock_guard_run([ntp |-> g[i], max_skew |-> MaxSkew]).report]
         IN  Completed([clocks |-> v, merged |-> merge_events(<<1>>, <<2>>, v[1],
                                                   IF ok THEN v[2] ELSE NoClock).confidence])
    [] c = "counter-liveness" ->
         counter_liveness_run([injected |-> FALSE, before |-> read_rx_packets(g[1]),
                               after |-> read_rx_packets(g[2]), sockets |-> ok,
                               stimulus |-> g[3], drops |-> g[4], corroborate |-> g[5],
                               widths |-> [tolerance |-> 2, small |-> 64, large |-> 256]])
    [] c = "counter-deltas" ->
         counter_deltas_run([interface |-> ok, budget |-> TRUE, before |-> g[1], after |-> g[2],
                             inject_wrap |-> FALSE, shared |-> g[4], isolated |-> g[3],
                             validity |-> "stable"])
    [] c = "radio-diagnostic" ->
         radio_diagnostic_run([tool |-> ok, lines |-> SubSeq(g, 1, 4), wdutil |-> g[5]])
    [] c = "coverage" ->
         Completed(classify_coverage(coverage_of(g), DEFAULT_REQUIRED_COVERAGE))
    [] c = "freshness" ->
         Completed(check_freshness(SubSeq(g, 1, 2), g[3]))
    [] c = "corroborate" ->
         Completed(corroborate(g[1], g[2], g[3]))

(* Controls.  multiclient-fairness: two descriptors, two rates.  wired-    *)
(* control: wired, Wi-Fi.  tcp-vs-udp: the two clients, the radio before   *)
(* and after.  independent-rates: two rates up, two down.  process-model:  *)
(* the native client, the paired ones, the counter, the operator's figure. *)
(* wired-edge: before, after.  rf-survey: two snapshots, two utilisations. *)
(* phy-normalized: two measurements of one cohort, one of the other.       *)
control_report(c, g, ok) ==
  CASE c = "multiclient-fairness" ->
         multiclient_fairness_run([emit |-> ~ok, role |-> "none", writable |-> TRUE,
                                   first |-> g[1], second |-> g[2], rates |-> <<g[3], g[4]>>])
    [] c = "wired-control" ->
         wired_control_run([wired |-> g[1], wifi |-> g[2]])
    [] c = "tcp-vs-udp" ->
         tcp_vs_udp_run([server |-> ok, interface |-> TRUE, local_ip |-> TRUE, tcp |-> g[1],
                         udp |-> g[2], before |-> g[3], after |-> g[4]])
    [] c = "independent-rates" ->
         independent_rates_run([interface |-> TRUE, server |-> ok, local_ip |-> TRUE,
                                rates |-> <<10, 20>>, uploads |-> SubSeq(g, 1, 2),
                                downloads |-> SubSeq(g, 3, 4), duration |-> 5, threshold |-> 1])
    [] c = "process-model" ->
         process_model_run([interface |-> TRUE, server |-> ok, local_ip |-> TRUE,
                            native |-> g[1], up |-> g[2], down |-> g[3],
                            rcv_collapsed |-> g[4], external |-> g[5]])
    [] c = "wired-edge" ->
         wired_edge_run([readable |-> ok, before |-> g[1], after |-> g[2]])
    [] c = "rf-survey" ->
         rf_survey_run([label |-> IF ok THEN "hall" ELSE "BSSID", telemetry_readable |-> TRUE,
                        snaps |-> SubSeq(g, 1, 2), telemetry |-> SubSeq(g, 3, 4),
                        threshold |-> 20, events |-> {[from |-> 1, to |-> 1]}])
    [] c = "phy-normalized" ->
         phy_normalized_run([readable |-> ok, cohort_a |-> SubSeq(g, 1, 2),
                             cohort_b |-> SubSeq(g, 3, 3)])

(* The path.  mss-evidence: the DF option, the trial of the target, two    *)
(* frames, two advertised sizes.  pmtu: trials by size.  mtu: the MTU of   *)
(* the path.  tunnel: TCP_MAXSEG, the path MTU, two layers.  provider-path:*)
(* two traces of two lines.  path-analysis: two lines, the latencies of    *)
(* two more traces.  ecmp-nat: transport, two local ports.  dns-steering:  *)
(* A and HTTPS records of two resolvers.                                   *)
path_report(c, g, ok) ==
  CASE c = "mss-evidence" ->
         mss_evidence_run([target |-> [given |-> TRUE, resolves |-> ok, trial |-> g[2]],
                           df |-> g[1], ingest |-> "file", frames |-> SubSeq(g, 3, 4),
                           locals |-> {1}, clusters |-> TRUE, mss |-> SubSeq(g, 5, 6)])
    [] c = "pmtu" ->
         Completed([parts |-> build_verdict(g), confirmed |-> largest_confirmed(g),
                    unanswered |-> smallest_unanswered(g)])
    [] c = "mtu" ->
         LET found == icmp_mtu_search(MinProbe, MaxProbe, MinProbe..g[1])
         IN  Completed([mtu |-> found, test |-> icmp_mtu_test(~ok, found),
                        tcp |-> tcp_mtu_test(ok)])
    [] c = "tunnel" ->
         Completed([test |-> tunnel_mss_test(ok, g[1]),
                    safe |-> calculate_safe_mss(g[2], estimate_layered_overhead(SubSeq(g, 3, 4)))])
    [] c = "provider-path" ->
         provider_path_run([tool |-> ok, traces |-> <<SubSeq(g, 1, 2), SubSeq(g, 3, 4)>>,
                            connect |-> [resolves |-> TRUE, binds |-> TRUE, connects |-> ok],
                            operator |-> FALSE, ptr |-> "region"])
    [] c = "path-analysis" ->
         Completed(path_analysis_test(ok, SubSeq(g, 1, 2), SubSeq(g, 3, 4), 2))
    [] c = "ecmp-nat" ->
         ecmp_nat_run([transport |-> g[1], stun |-> TRUE, target |-> ok, interface |-> "en0",
                       buckets |-> SubSeq(g, 2, 3)])
    [] c = "dns-steering" ->
         LET none == [ran |-> ok, success |-> TRUE, values |-> {}]
         IN  dns_steering_run([digs |-> <<<<g[1], none, g[2], none>>, <<g[3], none, g[4], none>>>>])

(* Packets.  stun-turn: what becomes of three answers, the relay.  tcp-    *)
(* options: one exchange.  tcp-segmentation: the open ports, two sizes.    *)
(* ecn-aqm: three frames, the mark that is set.  ipv6-validate: what the   *)
(* tools said.  protocol-compare: the transfers of four legs.  pcap-report:*)
(* the packets of one file.  capture: three ticks.                         *)
packet_report(c, g, ok) ==
  CASE c = "stun-turn" ->
         stun_run([resolves |-> ok, bound |-> TRUE, fates |-> SubSeq(g, 1, 3), turn |-> g[4]])
    [] c = "tcp-options" ->
         Completed(tcp_options_echo_test([g[1] EXCEPT !.resolves = ok]))
    [] c = "tcp-segmentation" ->
         Completed(tcp_segmentation_test([open |-> g[1], sizes |-> SubSeq(g, 2, 3)]))
    [] c = "ecn-aqm" ->
         ecn_aqm_run([capture |-> IF ok THEN "file" ELSE "unparsable", interface |-> "wlan",
                      frames |-> SubSeq(g, 1, 3), set |-> g[4]])
    [] c = "ipv6-validate" -> ipv6_validate_run(g[1])
    [] c = "protocol-compare" ->
         protocol_compare_run([curls |-> <<[works |-> TRUE, h3 |-> FALSE]>>, body |-> TRUE,
           simultaneous |-> ok, host |-> "host",
           protocols |-> <<[protocol |-> "http1", preflight |-> "Supported",
             transfer |-> [download |-> g[1], upload |-> g[2], both_down |-> g[3],
                           both_up |-> g[4]]]>>])
    [] c = "pcap-report" ->
         pcap_report_run([files |-> <<[format |-> "pcapng", readable |-> ok, nic |-> FALSE,
                                       statistics |-> TRUE, drops |-> 0, packets |-> g]>>,
                          compare |-> TRUE])
    [] c = "capture" ->
         capture_run([env |-> FALSE, installed |-> TRUE, spawned |-> ok, ticks |-> g,
                      duration |-> 2, max_bytes |-> 100])

(* Recommendations.  rules: the parts of the evidence.  report: the tests  *)
(* that ran, their results.  diagnose: the stages.  kitchen-sink: two      *)
(* targets, two hops.  thresholds: the samples of a series.                *)
diagnosis_report(c, g, ok) ==
  CASE c = "rules" ->
         Completed(unified_report([NoEvidence EXCEPT
           !.interface_mtu = 1500, !.https = g[1], !.icmp_mtu = g[2], !.dns_ok = g[3],
           !.loss = g[4], !.upload_fails = ~ok]))
    [] c = "https" -> Completed(https_diagnose(g[1]))
    [] c = "report" ->
         report_run([ran |-> {"https", "rtt", "upload", "ssh", "printer"} \ g[1], tls |-> g[2],
                     loss |-> g[3], rtt |-> g[4], upload_fails |-> ~ok, ssh_banner |-> "yes",
                     ssh_exec |-> g[2], printer_fails |-> ~ok])
    [] c = "diagnose" ->
         diagnose_run([resolves |-> ok, ping |-> g[1], tcp |-> g[2], icmp_mtu |-> g[3],
                       tcp_mtu |-> g[4], port |-> 443, fetched |-> g[5]])
    [] c = "kitchen-sink" ->
         kitchen_sink_run([targets |-> SubSeq(g, 1, 2), hops |-> SubSeq(g, 3, 4), json |-> ok])
    [] c = "thresholds" ->
         Completed([history |-> threshold_history(packet_loss_profile,
                                  [k \in DOMAIN g |-> [at |-> k, value |-> g[k]]]),
                    unit |-> humanize(g[1], SI_SCALES)])

LoadCommands == {"capacity-knee", "size-rate-matrix", "flow-dscp-matrix", "iperf-analyze",
                 "iperf-summary", "iperf-discover", "throughput-tuner", "upload-sweep",
                 "bufferbloat", "probe-rate"}
StreamCommands == {"burst-analysis", "media-quality", "packet-loss", "rtt"}
ComparisonCommands == {"circuit-compare", "resilience", "ap-identity", "roaming",
                       "ap-compat-matrix", "first-hop", "gateway-bracket", "site-ab",
                       "second-network", "vpn-matrix", "platform-matrix"}
EvidenceCommands == {"clock-guard", "counter-liveness", "counter-deltas", "radio-diagnostic",
                     "coverage", "freshness", "corroborate"}
ControlCommands == {"multiclient-fairness", "wired-control", "tcp-vs-udp", "independent-rates",
                    "process-model", "wired-edge", "rf-survey", "phy-normalized"}
PathCommands == {"mss-evidence", "pmtu", "mtu", "tunnel", "provider-path", "path-analysis",
                 "ecmp-nat", "dns-steering"}
PacketCommands == {"stun-turn", "tcp-options", "tcp-segmentation", "ecn-aqm", "ipv6-validate",
                   "protocol-compare", "pcap-report", "capture"}
DiagnosisCommands == {"rules", "https", "report", "diagnose", "kitchen-sink", "thresholds"}

(* The commands of a run are commands of the program.                      *)
ASSUME CommandsAssumption ==
  Commands \subseteq LoadCommands \cup StreamCommands \cup ComparisonCommands
                     \cup EvidenceCommands \cup ControlCommands \cup PathCommands
                     \cup PacketCommands \cup DiagnosisCommands

(* dispatch.                                                               *)
dispatch(c, g, ok) ==
  CASE c \in LoadCommands       -> load_report(c, g, ok)
    [] c \in StreamCommands     -> stream_report(c, g, ok)
    [] c \in ComparisonCommands -> comparison_report(c, g, ok)
    [] c \in EvidenceCommands   -> evidence_report(c, g, ok)
    [] c \in ControlCommands    -> control_report(c, g, ok)
    [] c \in PathCommands       -> path_report(c, g, ok)
    [] c \in PacketCommands     -> packet_report(c, g, ok)
    [] c \in DiagnosisCommands  -> diagnosis_report(c, g, ok)

-----------------------------------------------------------------------------

Init == /\ command \in Commands
        /\ ready \in BOOLEAN
        /\ evidence = <<>>
        /\ outcome = Running

Complete == Len(evidence) = Len(Measurements[command])

(* The next measurement arrives, or fails to.                              *)
Gather(m) ==
  /\ ~Complete
  /\ evidence' = Append(evidence, m)
  /\ UNCHANGED <<command, ready, outcome>>

(* The command reports and exits.                                          *)
Report ==
  /\ Complete
  /\ outcome.exit = Running.exit
  /\ outcome' = dispatch(command, evidence, ready)
  /\ UNCHANGED <<command, ready, evidence>>

Next == \/ ~Complete /\ \E m \in Measurements[command][Len(evidence) + 1] : Gather(m)
        \/ Report

Spec == Init /\ [][Next]_vars
-----------------------------------------------------------------------------

Concluded == outcome.exit # Running.exit
Reports(c) == command = c /\ outcome.exit = 0
report == outcome.report

(* Type correctness of the state, and the ranges of the figures reported:  *)
(* the subtractions of calculate_safe_mss saturate, estimate_mos clamps,   *)
(* a loss is a percentage, Jain's index of n rates lies in 1/n .. 1.       *)
TypeOK ==
  /\ command \in Commands /\ ready \in BOOLEAN
  /\ Len(evidence) <= Len(Measurements[command])
  /\ outcome.exit \in {Missing, 0, 1, 2}
  /\ Concluded => Complete
  /\ Reports("tunnel") => report.safe \in Nat
  /\ Reports("burst-analysis") => report.normal.loss \in 0..100
  /\ Reports("media-quality") => report.mos \in 100..450
  /\ Reports("gateway-bracket") =>
       \A i \in DOMAIN report.phases : report.phases[i].loss \in {Missing} \cup 0..100
  /\ Reports("multiclient-fairness") /\ report.fairness.den > 0 =>
       /\ report.fairness.num <= report.fairness.den
       /\ 2 * report.fairness.num >= report.fairness.den

-----------------------------------------------------------------------------
(* The commands that promise to withhold a claim rather than to make it on *)
(* less evidence.                                                          *)
PromisingCommands ==
  {"flow-dscp-matrix", "capacity-knee", "throughput-tuner", "bufferbloat", "circuit-compare",
   "ap-identity", "roaming", "site-ab", "second-network", "platform-matrix", "clock-guard",
   "counter-liveness", "coverage", "multiclient-fairness", "wired-control", "tcp-vs-udp",
   "process-model", "wired-edge", "pmtu", "provider-path", "protocol-compare"}

(* What a report of such a command claims.  0 among the claims of the      *)
(* throughput tuner: that its maximum is not a provisional one.            *)
claims(c, r) ==
  CASE c = "flow-dscp-matrix" ->
         {x \in {"constant"} : r.constant}
         \cup ({r.dscp[d].survival : d \in DOMAIN r.dscp} \ {"Unverified"})
    [] c = "capacity-knee" -> {r.established} \ {NoVerdict}
    [] c = "throughput-tuner" -> 1..r.verdict.maximum \cup {x \in {0} : ~r.verdict.provisional}
    [] c = "bufferbloat" -> {r.grade} \ {"none"}
    [] c = "circuit-compare" -> {r.verdict.kind} \ {"Refused"}
    [] c = "ap-identity" -> {r.comparison} \ {"Unavailable", "none"}
    [] c = "roaming" -> {r.kind} \ {"Undetermined"}
    [] c = "site-ab" -> {p \in DOMAIN r : r[p] = "Compared"}
    [] c = "second-network" -> {<<n, r.delta[n]>> : n \in DOMAIN r.delta}
    [] c = "platform-matrix" -> r.delta
    [] c = "clock-guard" -> {x \in {1, 2} : permits_one_way_claim(r.clocks[x])}
                            \cup {x \in {3} : r.merged = "CrossNodeVerified"}
    [] c = "counter-liveness" -> {r.zero_drop} \ {"withheld"}
    [] c = "coverage" -> {r} \cap {"Sufficient"}
    [] c = "multiclient-fairness" -> {r.verdict.kind} \ {"Refused"}
    [] c = "wired-control" -> {r} \ {"Withheld"}
    [] c = "tcp-vs-udp" -> {<<"delta", d>> : d \in {x \in {r.delta.delta} : r.delta.known}}
                           \cup {<<"radio", s>> : s \in {r.radio} \ {"invalid"}}
    [] c = "process-model" -> {r.verdict} \ {"Withheld"}
    [] c = "wired-edge" -> {r.verdict} \ {"Refused"}
    [] c = "pmtu" -> 1..r.confirmed
    [] c = "provider-path" -> {<<n, r.stability[n]>> : n \in {k \in DOMAIN r.stability :
                                                   r.stability[k] \in {"Stable", "Changed"}}}
    [] c = "protocol-compare" -> {i \in DOMAIN r.protocols : r.protocols[i].confidence = "Medium"}

(* The losses that an engine has to notice: the forms that the i-th        *)
(* measurement of a command takes when it, or a part of it, is lost.       *)
LostForms(c, i, m) ==
  CASE c = "flow-dscp-matrix" ->
         {IF i <= 3 THEN [m EXCEPT !.aggregate = Missing] ELSE [m EXCEPT !.observed = Missing]}
    [] c = "capacity-knee" ->
         IF i <= 2 THEN {Missing}
         ELSE {[m EXCEPT !.up = Missing], [m EXCEPT !.down = Missing], [m EXCEPT !.rejected = "ProcessFailure"]}
    [] c = "throughput-tuner" -> IF i <= 2 THEN {[m EXCEPT !.json = FALSE], [m EXCEPT !.sum_received = Absent]}
                                 ELSE {}
    [] c = "bufferbloat" -> {[m EXCEPT !.rpm = Missing], [m EXCEPT !.outcome = "killed"]}
    [] c = "circuit-compare" -> {[m EXCEPT !.mbps = Missing], [m EXCEPT !.members = <<>>]}
    [] c \in {"ap-identity", "roaming"} ->
         {[m EXCEPT !.salt = FALSE], [m EXCEPT !.wdutil = "denied"], [m EXCEPT !.bssid = "none"]}
    [] c \in {"site-ab", "platform-matrix"} -> {[m EXCEPT !.mbps = Missing]}
    [] c = "second-network" -> {[m EXCEPT !.metrics = <<>>]}
    [] c = "clock-guard" -> {[m EXCEPT !.offset = Missing], [m EXCEPT !.delay = Missing]}
    [] c = "counter-liveness" -> IF i \in {1, 2, 5} THEN {<<>>} ELSE {}
    [] c = "coverage" -> {"no_answer", "not_attempted"}
    [] c = "multiclient-fairness" -> IF i <= 2 THEN {NoDescriptor, [m EXCEPT !.marks = {}]} ELSE {}
    [] c = "wired-control" -> {[m EXCEPT !.loss = Missing], [m EXCEPT !.egress = "none"]}
    [] c = "tcp-vs-udp" ->
         IF i <= 2 THEN {[m EXCEPT !.outcome = "killed"], [m EXCEPT !.document.json = FALSE]} ELSE {Unavailable}
    [] c = "process-model" ->
         IF i <= 3 THEN {[m EXCEPT !.outcome = "killed"], [m EXCEPT !.document.json = FALSE]} ELSE {}
    [] c = "wired-edge" -> {[m EXCEPT ![f] = Missing] : f \in EdgeFields}
    [] c = "pmtu" -> {[m EXCEPT !.quic = "silent"], [m EXCEPT !.quic = "stalled"], [m EXCEPT !.local = FALSE]}
    [] c = "provider-path" -> {[m EXCEPT !.stars = TRUE]}
    [] c = "protocol-compare" -> {[m EXCEPT !.ended = FALSE], [m EXCEPT !.down = Missing, !.up = Missing]}
    [] OTHER -> {}

(* The losses that the code does not notice, each with what it is read as: *)
(* a loss figure as 0, a baseline as one without drift, the receiver's     *)
(* figure of iperf as the sender's or the legacy sum, the power an access  *)
(* point asked for as the power it got, a member of a circuit and one of   *)
(* several counters as if they had nothing to report.                      *)
Unnoticed(c, i, g) ==
  LET m == g[i]
      Receiver(block) == <<[m EXCEPT !.document.sum_received = Absent],
                           [m EXCEPT !.document.sum_received = block]>>
  IN  CASE c = "circuit-compare" ->
             {<<[m EXCEPT !.loss = Missing], [m EXCEPT !.loss = 0]>>}
             \cup {<<[m EXCEPT !.members = RemoveAt(m.members, k)],
                     [m EXCEPT !.members = ReplaceAt(m.members, k, TelemetryFields)]>> :
                      k \in {j \in DOMAIN m.members : Len(m.members) > 1}}
        [] c = "throughput-tuner" -> IF i >= 3 THEN {<<Missing, g[7 - i]>>} ELSE {}
        [] c = "tcp-vs-udp" -> IF i = 1 THEN {Receiver(m.document.sum_sent)}
                               ELSE IF i = 2 THEN {Receiver(m.document.sum)} ELSE {}
        [] c = "counter-liveness" ->
             IF i = 5 THEN {<<RemoveAt(m, k), ReplaceAt(m, k, 0)>> : k \in {j \in DOMAIN m : Len(m) > 1}}
             ELSE {}
        [] c = "wired-edge" -> {<<[m EXCEPT !.poe_requested = Missing],
                                  [m EXCEPT !.poe_requested = m.poe_negotiated]>>}
        [] OTHER -> {}

(* What a report claims, if there is one.                                  *)
ClaimsOf(c, o) == IF o.exit = 0 THEN claims(c, o.report) ELSE {}
ClaimsOn(c, g, ok) == ClaimsOf(c, dispatch(c, g, ok))

(* Of the claims with each form of a measurement: a lost one adds none to  *)
(* those made, one that goes unnoticed has those of its reading.           *)
OnlyWithheld(With, lost, unnoticed, claimed) ==
  /\ \A m \in lost : With[m] \subseteq claimed
  /\ \A p \in unnoticed : With[p[1]] = With[p[2]]

(* One of the losses of LostForms withholds claims of a promising command  *)
(* and adds none: the engine does not conclude from the absence of the     *)
(* figure what its presence would have kept it from concluding             *)
(* (held_constant, build_report, grade_from_phases, judge_circuits,        *)
(* attribute_wired_vs_wifi, judge_wired_edge, ...).  One that the code     *)
(* does not notice may add a claim, and adds exactly those of the figure   *)
(* it is read as: judge_circuits then names a member for a loss of 0 that  *)
(* nobody measured.  Neither set has a field that names something (a band, *)
(* a driver), whose absence is one more name to compare; the loss of a     *)
(* flow point, without which only a drift goes unseen; nor a point of a    *)
(* sweep of more than three, whose knee is that of the points left.        *)
LosingEvidenceOnlyWithholds ==
  outcome.exit = 0 /\ command \in PromisingCommands =>
    \A i \in DOMAIN evidence :
      LET lost      == LostForms(command, i, evidence[i])
          unnoticed == Unnoticed(command, i, evidence)
          With      == [m \in lost \cup {p[k] : p \in unnoticed, k \in 1..2} |->
                          ClaimsOn(command, [evidence EXCEPT ![i] = m], ready)]
      IN  OnlyWithheld(With, lost, unnoticed, claims(command, report))

-----------------------------------------------------------------------------
(* The algorithms against what they are meant to compute.                  *)

(* The bursts of compute_burst_distribution are the maximal runs of        *)
(* sequence numbers that nothing echoed, and the depths of                 *)
(* compute_reordering add up to the pairs that arrived in reverse.         *)
BurstsAreMaximalRuns(rep) ==
  LET seqs  == 0..(rep.sent - 1)
      gone  == seqs \ Range(evidence)
      Run(s, n) == /\ s..(s + n - 1) \subseteq gone
                   /\ s - 1 \notin gone /\ s + n \notin gone
      firsts == {i \in DOMAIN evidence : /\ Known(evidence[i])
                                         /\ \A j \in 1..(i - 1) : evidence[j] # evidence[i]}
  IN  /\ {<<rep.bursts[i].start, rep.bursts[i].len>> : i \in DOMAIN rep.bursts}
           = {r \in gone \X (1..rep.sent) : Run(r[1], r[2])}
      /\ SumFunctionOnSet([e \in rep.reordering |-> e.depth], rep.reordering)
           = Cardinality({p \in firsts \X firsts : p[1] < p[2] /\ evidence[p[1]] > evidence[p[2]]})

(* "Low" freeze risk: no run of lost packets lasted 100 ms at the packet   *)
(* interval of the profile.                                                *)
FreezeRiskCoversTheGap ==
  LET rep == report.burst
  IN  report.freeze = "Low" =>
        \A i \in DOMAIN rep.bursts : 1000 * rep.bursts[i].len < 101 * packets_per_sec(evidence[1])

(* analyze_loss_pattern: five timeouts in a row somewhere, else two.       *)
LossPatternIsTheLongestRun ==
  LET InARow(n) == \E i \in 1..(Len(evidence) - n + 1) : \A j \in i..(i + n - 1) : ~evidence[j]
  IN  report.pattern = (IF InARow(5) THEN "Burst Loss" ELSE IF InARow(2) THEN "Mixed" ELSE "Random")

(* The binary search of the ICMP test finds the MTU of the path.           *)
SearchFindsThePathMtu ==
  report.mtu = IF evidence[1] >= MinProbe THEN evidence[1] ELSE Missing

(* The knee does not depend on the order in which distinct rates were run. *)
KneeIgnoresExecutionOrder ==
  LET points == SubSeq(evidence, 3, 5)
      sorted == SortedBy(points, LAMBDA p : p.offered)
  IN  Cardinality({p.offered : p \in Range(points)}) = 3 => detect_knee(sorted) = report.native

(* The hysteresis of the packet-loss profile: a mean loss in 0.5% .. 1%    *)
(* neither opens nor clears "medium", one in 8% .. 10% never clears "high",*)
(* and one threshold never replaces another without clearing first.        *)
ThresholdsDoNotFlap ==
  LET h == report.history
      mean(k) == LET w == SubSeq(evidence, Larger(k - 4, 1), k)
                 IN  Total(w) \div Len(w)
  IN  \A k \in 2..Len(h) :
        /\ mean(k) \in 5..9 /\ h[k - 1] \in {0, 2} => h[k] = h[k - 1]
        /\ mean(k) \in 80..99 /\ h[k - 1] = 1 => h[k] = 1
        /\ h[k] # h[k - 1] => 0 \in {h[k], h[k - 1]}

(* A session is lost when it was seen dead and never alive afterwards.     *)
LostSessionsStayedDead ==
  LET ids == {s.session : s \in Range(evidence)}
      Own(i, id) == evidence[i].session = id
  IN  report.lost = Cardinality({id \in ids :
        \E i \in DOMAIN evidence :
          /\ Own(i, id) /\ evidence[i].alive = "no"
          /\ \A j \in (i + 1)..Len(evidence) : Own(j, id) => evidence[j].alive # "yes"})

(* The order in which the phases of different states are ingested does not *)
(* change the digest of a circuit manifest.                                *)
DigestIgnoresIngestOrder ==
  Cardinality({p.state : p \in Range(evidence)}) = Len(evidence) =>
    report.digest = circuit_digest(Reverse(evidence))

(* Every algorithm agrees with its reference.                              *)
AgreesWithReference ==
  /\ Reports("burst-analysis") => BurstsAreMaximalRuns(report.normal)
  /\ Reports("media-quality") => FreezeRiskCoversTheGap
  /\ Reports("packet-loss") /\ ready => LossPatternIsTheLongestRun
  /\ Reports("mtu") => SearchFindsThePathMtu
  /\ Reports("capacity-knee") => KneeIgnoresExecutionOrder
  /\ Reports("thresholds") => ThresholdsDoNotFlap
  /\ Reports("resilience") => LostSessionsStayedDead
  /\ Reports("circuit-compare") => DigestIgnoresIngestOrder
  /\ Reports("corroborate") => report = corroborate(evidence[2], evidence[1], evidence[3])

-----------------------------------------------------------------------------
(* A figure is what the thing measured really showed.                      *)

(* A mapped address is the one that the answer to this very request bore,  *)
(* however late answers to earlier requests arrive on the same socket.     *)
BindingsAreTheirOwn ==
  \A i \in DOMAIN report.bindings :
    report.bindings[i].outcome = "Mapped" => /\ report.bindings[i].txn = i
                                            /\ report.bindings[i].addr = evidence[i].addr

(* A clock that may be used for one-way claims really is within the skew.  *)
PermittedClocksAreClose ==
  \A i \in 1..2 : permits_one_way_claim(report.clocks[i]) => evidence[i].error <= MaxSkew

(* Without wdutil a signal is one listed for the current network.          *)
SignalIsOfTheCurrentNetwork ==
  Known(report.rssi) /\ report.note # "none" =>
    \E i, k \in 1..4 :
      /\ i < k /\ evidence[i].key = "Current" /\ evidence[k].key = "Signal"
      /\ \A j \in i..k : evidence[j].key # "Other"

(* Resolvers diverge only when both gave addresses, and different ones.    *)
DivergenceIsOfAddresses ==
  report = "Diverges" => /\ {} \notin {evidence[1].values, evidence[3].values}
                         /\ evidence[1].values # evidence[3].values

(* A size is confirmed only by the peer.                                   *)
ConfirmedSizesWereAnswered ==
  Known(report.confirmed) =>
    \E i \in DOMAIN evidence : /\ evidence[i].size = report.confirmed
                               /\ evidence[i].local /\ evidence[i].quic = "acknowledged"

(* The tuner's maximum is a receiver's figure over the duration asked for. *)
MaximumWasReceivedInTime ==
  Known(report.verdict.maximum) =>
    \E i \in 1..2 : /\ evidence[i].sum_received.bps = report.verdict.maximum
                    /\ evidence[i].sum_received.seconds \in 8..12

(* A clean upload rate below a lossy one: both rates reported their loss,  *)
(* the receiver or, where there is no receiver's report, the legacy sum.   *)
LossyRatesReportedTheirLoss ==
  report.up.kind = "Found" =>
    \A i \in 1..2 : LET d == evidence[i].document
                    IN  Known(d.sum_received.lost) \/ Known(d.sum.lost)

(* "No drops" needs a live counter of this interface and another source.   *)
ZeroDropsAreCorroborated ==
  report.zero_drop = "clean" =>
    /\ evidence[4] = 0 /\ evidence[5] # <<>> /\ Range(evidence[5]) = {0}
    /\ \A i \in 1..2 : \E k \in DOMAIN evidence[i] : evidence[i][k].own
    /\ evidence[1] # evidence[2]

(* A counter delta is normalised only for traffic of this test.            *)
DeltasAreOfThisTest ==
  Known(report.delta.normalized.rx) => /\ evidence[2].rx >= evidence[1].rx
                                       /\ evidence[3] \/ ~evidence[4]

(* Pressure is attributed from two sweeps of two measured sizes each.      *)
PressureNeedsBothSweeps ==
  report # "Inconclusive" => /\ Known(evidence[1])
                             /\ \A i \in 2..5 : evidence[i].offered > 0

(* Nothing is shown by a figure that belongs to something else.            *)
FiguresAreTheirOwn ==
  /\ Reports("stun-turn") => BindingsAreTheirOwn
  /\ Reports("clock-guard") => PermittedClocksAreClose
  /\ Reports("radio-diagnostic") => SignalIsOfTheCurrentNetwork
  /\ Reports("dns-steering") => DivergenceIsOfAddresses
  /\ Reports("pmtu") => ConfirmedSizesWereAnswered
  /\ Reports("throughput-tuner") => MaximumWasReceivedInTime
  /\ Reports("independent-rates") => LossyRatesReportedTheirLoss
  /\ Reports("counter-liveness") => ZeroDropsAreCorroborated
  /\ Reports("counter-deltas") => DeltasAreOfThisTest
  /\ Reports("size-rate-matrix") => PressureNeedsBothSweeps
  /\ Reports("capacity-knee") /\ Known(report.native.knee) =>
       \E i \in 3..5 : evidence[i].rejected = "none" /\ evidence[i].offered = report.native.knee
  /\ Reports("first-hop") /\ report.state = "Suppressed" => evidence[3] # "timeout"
  /\ Reports("iperf-summary") /\ evidence[1].sum_received.packets > 0 /\ Known(report.receiver) =>
       report.receiver = evidence[1].sum_received.bps

-----------------------------------------------------------------------------
(* "MTU blackhole is Critical, so should be first after sorting"           *)
(* (src/src/diagnosis/mod.rs:656): when a critical finding is among the    *)
(* ranked ones, the first of them is critical.                             *)
CriticalFirst ==
  Reports("rules") =>
    LET severities == [i \in DOMAIN report.ranked |-> report.ranked[i].severity]
    IN  "Critical" \in Range(severities) => severities[1] = "Critical"
=============================================================================

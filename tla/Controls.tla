------------------------------ MODULE Controls ------------------------------
(***************************************************************************)
(* The commands that hold a measurement against a matched control: two     *)
(* clients, wired and Wi-Fi, TCP and UDP, each direction on its own, two   *)
(* process models, an edge port before and after, an RF survey and its     *)
(* events, and cohorts normalised by their PHY capacity.                   *)
(***************************************************************************)
EXTENDS ThroughputVerdicts, EvidenceVerdicts

(***************************************************************************)
(* Clients.  A descriptor is [start, marks, listeners]; NoDescriptor when  *)
(* a file is missing or unreadable.                                        *)
(***************************************************************************)
NoDescriptor == [start |-> Missing, marks |-> {}, listeners |-> {}]

phase_window(d) == [from |-> Min(d.marks), to |-> Max(d.marks)]

windows_overlap(a, b) ==
  /\ phase_window(a).from <= phase_window(b).to
  /\ phase_window(b).from <= phase_window(a).to

shared_listener_confound(a, b) == a.listeners \cap b.listeners

evaluate_cross_client(a, b) ==
  IF a = NoDescriptor \/ b = NoDescriptor \/ a.marks = {} \/ b.marks = {} \/ ~windows_overlap(a, b)
  THEN [kind |-> "Refused"]
  ELSE [kind |-> "Comparable", offset |-> b.start - a.start,
        shared |-> shared_listener_confound(a, b)]

(* The index is sum^2 / (n * squares); None is an empty denominator.       *)
jain_fairness_index(rates) ==
  LET sum == Total(rates)
      squares == Total([i \in DOMAIN rates |-> rates[i] * rates[i]])
  IN  IF Len(rates) < 2 \/ squares = 0 THEN [num |-> Missing, den |-> 0]
      ELSE [num |-> sum * sum, den |-> Len(rates) * squares]

(* The descriptor that --emit-descriptor writes has one mark, at now.      *)
emit_descriptor(role, listeners, now) ==
  IF role = "none" THEN NoDescriptor
  ELSE [start |-> now, marks |-> {now}, listeners |-> listeners]

multiclient_fairness_run(a) ==
  IF a.emit
  THEN IF a.role = "none" \/ ~a.writable THEN Refusal(1)
       ELSE Completed(emit_descriptor(a.role, a.listeners, a.now))
  ELSE LET v == evaluate_cross_client(a.first, a.second)
       IN  Completed([verdict  |-> v,
                      fairness |-> IF v.kind = "Comparable" THEN jain_fairness_index(a.rates)
                                   ELSE [num |-> Missing, den |-> 0]])

(***************************************************************************)
(* Wired control.  A path is [loss, egress].                               *)
(***************************************************************************)

same_egress(wired, wifi) == wired.egress # "none" /\ wired.egress = wifi.egress

attribute_wired_vs_wifi(wired, wifi) ==
  CASE ~Known(wired.loss) \/ ~Known(wifi.loss) \/ ~same_egress(wired, wifi) -> "Withheld"
    [] Known(wired.loss) /\ Known(wifi.loss) /\ same_egress(wired, wifi)
       /\ wired.loss <= 1 /\ wifi.loss - wired.loss >= 1 -> "Wlan"
    [] OTHER -> "SharedEdgeOrWan"

wired_control_run(a) == Completed(attribute_wired_vs_wifi(a.wired, a.wifi))

(***************************************************************************)
(* TCP and UDP on the same endpoint.                                       *)
(***************************************************************************)

(* The output of a client that was given a deadline; one that overran it   *)
(* was killed, whatever it had written.                                    *)
run_with_hard_timeout(child) ==
  IF child.outcome = "exited" THEN parse_iperf_json(child.document)
  ELSE [error |-> "InvalidJson"]

Unusable == [usable |-> FALSE, mbps |-> Missing, loss |-> Missing]

tcp_result(r) ==
  LET s == IF r.received # Absent THEN r.received ELSE r.sent
  IN  IF r.error # "none" \/ s = Absent THEN Unusable
      ELSE [usable |-> TRUE, mbps |-> s.bps, loss |-> Missing]

(* The receiver's report, else the legacy sum, for UDP and for the points  *)
(* of a directional sweep.                                                 *)
udp_result(r) ==
  LET s == IF r.received # Absent THEN r.received ELSE r.estimated
  IN  IF r.error # "none" \/ s = Absent THEN Unusable
      ELSE [usable |-> TRUE, mbps |-> s.bps, loss |-> s.lost]

achieved_mbps_delta(tcp, udp) ==
  IF Known(tcp.mbps) /\ Known(udp.mbps) THEN [known |-> TRUE, delta |-> tcp.mbps - udp.mbps]
  ELSE [known |-> FALSE, delta |-> 0]

radio_validity_for(before, after) ==
  CASE ~before.associated \/ ~after.associated -> "invalid"
    [] before.associated /\ after.associated
       /\ association_fingerprint(before) # association_fingerprint(after) -> "invalid"
    [] OTHER -> "stable"

tcp_vs_udp_run(a) ==
  IF ~a.server \/ ~a.interface \/ ~a.local_ip THEN Refusal(1)
  ELSE LET t == tcp_result(run_with_hard_timeout(a.tcp))
           u == udp_result(run_with_hard_timeout(a.udp))
       IN  Completed([tcp |-> t, udp |-> u, delta |-> achieved_mbps_delta(t, u),
                      radio |-> radio_validity_for(a.before, a.after)])

(***************************************************************************)
(* Each direction on its own.  A point is [target, usable, loss].          *)
(***************************************************************************)

is_lossy(p, threshold) ==
  CASE ~p.usable \/ ~Known(p.loss) -> "unknown"
    [] p.usable /\ Known(p.loss) /\ p.loss > threshold -> "yes"
    [] OTHER -> "no"

session_overlaps(a, b) == a.from < b.to /\ b.from < a.to

merge_timeline(up, down) == [upload |-> up, download |-> down, aligned |-> session_overlaps(up, down)]

rate_point(target, child) ==
  LET r == udp_result(run_with_hard_timeout(child))
  IN  [target |-> target, usable |-> r.usable, loss |-> r.loss]

lossy_rate_of(usablePts, threshold) ==
  LET lossyAt == Where(usablePts, LAMBDA p : is_lossy(p, threshold) = "yes")
      clean   == {i \in Where(usablePts, LAMBDA p : is_lossy(p, threshold) = "no") : i < Min(lossyAt)}
  IN  CASE Len(usablePts) < 2 -> [kind |-> "InsufficientData"]
        [] Len(usablePts) >= 2 /\ lossyAt = {} -> [kind |-> "NoneObserved"]
        [] Len(usablePts) >= 2 /\ lossyAt # {} /\ clean = {} -> [kind |-> "AllTestedRatesLossy"]
        [] OTHER -> [kind |-> "Found", clean |-> usablePts[Max(clean)].target,
                     lossy |-> usablePts[Min(lossyAt)].target]

first_lossy_rate(points, threshold) ==
  lossy_rate_of(SortedBy(Keep(points, LAMBDA p : p.usable), LAMBDA p : p.target),
                threshold)

(* run_real: upload in a thread of its own, download beside it; both       *)
(* windows of the example timeline are the requested duration.             *)
independent_rates_real(a) ==
  [up   |-> [i \in DOMAIN a.rates |-> rate_point(a.rates[i], a.uploads[i])],
   down |-> [i \in DOMAIN a.rates |-> rate_point(a.rates[i], a.downloads[i])],
   timeline |-> merge_timeline([from |-> 0, to |-> a.duration], [from |-> 0, to |-> a.duration])]

sweep_verdict(s, threshold) ==
  [up |-> first_lossy_rate(s.up, threshold), down |-> first_lossy_rate(s.down, threshold),
   timeline |-> s.timeline]

independent_rates_run(a) ==
  IF ~a.interface \/ ~a.server \/ ~a.local_ip THEN Refusal(1)
  ELSE Completed(sweep_verdict(independent_rates_real(a), a.threshold))

(***************************************************************************)
(* Two process models.  A trial is [up, down].                             *)
(***************************************************************************)
NoTrial == [up |-> Missing, down |-> Missing, present |-> FALSE]

(* lo / hi of the two directions, None unless both are measured and one    *)
(* moved data.                                                             *)
balance_known(t) == Known(t.up) /\ Known(t.down) /\ Larger(t.up, t.down) > 0

collapsed(t) == 100 * Smaller(t.up, t.down) < 85 * Larger(t.up, t.down)

judge_collapse(native, paired) ==
  CASE ~native.present \/ ~paired.present \/ ~balance_known(native) \/ ~balance_known(paired) -> "Withheld"
    [] OTHER ->
       CASE ~collapsed(native) /\ ~collapsed(paired) -> "NoCollapseObserved"
         [] collapsed(native) /\ collapsed(paired)   -> "ReproducesAcrossProcessModels"
         [] OTHER -> "MethodSpecificUnfairness"

(* A metric of the receive path: measured on this host, supplied by the    *)
(* operator, or limited by the platform.                                   *)
metric(value, source) ==
  [value |-> value, source |-> IF Known(value) THEN source ELSE "PlatformLimited"]

receive_path(live, external) ==
  IF external.given THEN metric(external.value, "OperatorSupplied") ELSE metric(live, "Measured")

native_trial(r) ==
  LET up   == IF r.sent # Absent THEN r.sent ELSE r.estimated
  IN  IF r.error # "none" THEN [NoTrial EXCEPT !.present = TRUE]
      ELSE [present |-> TRUE, up |-> up.bps, down |-> r.reverse.bps]

paired_trial(up, down) ==
  LET u == IF up.sent # Absent THEN up.sent ELSE up.estimated
  IN  [present |-> TRUE, up |-> IF up.error = "none" THEN u.bps ELSE Missing,
       down |-> udp_result(down).mbps]

process_model_run(a) ==
  IF ~a.interface \/ ~a.server \/ ~a.local_ip \/ ~a.external.readable THEN Refusal(1)
  ELSE LET n == native_trial(run_with_hard_timeout(a.native))
           p == paired_trial(run_with_hard_timeout(a.up), run_with_hard_timeout(a.down))
       IN  Completed([verdict |-> judge_collapse(n, p),
                      collapsed |-> receive_path(a.rcv_collapsed, a.external)])

(***************************************************************************)
(* Wired edge.  A snapshot has the counters, the fields of the link and    *)
(* the power that was asked for and granted.                               *)
(***************************************************************************)
EdgeCounters == {"crc_errors", "input_discards", "output_discards", "queue_drops", "link_flap_count"}
EdgeFields   == EdgeCounters \cup {"chassis", "poe_class", "poe_negotiated", "reduced", "speed", "duplex"}

edge_missing(s) == {f \in EdgeFields : ~Known(s[f])}

(* None when a side is missing or the counter went backwards.              *)
counter_step(before, after) ==
  IF Known(before) /\ Known(after) /\ after >= before THEN after - before ELSE Missing

edge_delta(before, after) == [f \in EdgeCounters |-> counter_step(before[f], after[f])]

assess_poe_risk(s) ==
  CASE ~Known(s.poe_requested) \/ ~Known(s.poe_negotiated) \/ ~Known(s.reduced) -> "Withheld"
    [] Known(s.poe_requested) /\ Known(s.poe_negotiated) /\ s.reduced = 1
       /\ s.poe_negotiated < s.poe_requested -> "ReducedFunctionalityFromPoe"
    [] OTHER -> "FullPowerNegotiated"

judge_wired_edge(before, after) ==
  CASE edge_missing(before) # {} \/ edge_missing(after) # {} -> "Refused"
    [] edge_missing(before) = {} /\ edge_missing(after) = {}
       /\ (\/ \E f \in EdgeCounters : edge_delta(before, after)[f] > 0
           \/ assess_poe_risk(after) = "ReducedFunctionalityFromPoe") -> "Degraded"
    [] OTHER -> "Healthy"

wired_edge_run(a) ==
  IF ~a.readable THEN Refusal(1)
  ELSE Completed([verdict |-> judge_wired_edge(a.before, a.after),
                  delta   |-> edge_delta(a.before, a.after)])

(***************************************************************************)
(* RF survey.  A sample is [at, rssi, utilization, label].                 *)
(***************************************************************************)

(* from_radio_snapshot: this platform never measures the utilization.      *)
rf_sample(at, snap, label) ==
  [at |-> at, rssi |-> metric(snap.rssi, "Measured"), utilization |-> metric(Missing, "Measured"),
   label |-> label]

merge_operator_supplied(s, external) ==
  IF Known(s.utilization.value) \/ ~Known(external) THEN s
  ELSE [s EXCEPT !.utilization = metric(external, "OperatorSupplied")]

detect_utilization_change_points(samples, threshold) ==
  LET u == Keep(samples, LAMBDA s : Known(s.utilization.value))
      jumps == {i \in 1..(Len(u) - 1) :
                  Distance(u[i].utilization.value, u[i + 1].utilization.value) >= threshold}
  IN  {[from |-> u[i].at, to |-> u[i + 1].at] : i \in jumps}

correlate_change_points(points, events) ==
  [p \in points |-> {e \in events : p.to >= e.from /\ p.from <= e.to}]

(* Sums and counts per label; a label that names an identifier rejects the *)
(* whole map.                                                              *)
build_coverage_map(samples) ==
  LET labels == {samples[i].label : i \in DOMAIN samples}
      of(l)  == {i \in DOMAIN samples : samples[i].label = l}
  IN  IF "BSSID" \in labels THEN [error |-> TRUE]
      ELSE [error |-> FALSE,
            points |-> [l \in labels |->
                          [samples |-> Cardinality(of(l)),
                           heard |-> Cardinality({i \in of(l) : Known(samples[i].rssi.value)})]]]

rf_survey_run(a) ==
  IF a.label = "BSSID" THEN Refusal(2)
  ELSE IF ~a.telemetry_readable THEN Refusal(1)
  ELSE LET raw(i) == rf_sample(i, a.snaps[i], a.label)
           samples == [i \in DOMAIN a.snaps |->
                         IF i <= Len(a.telemetry) THEN merge_operator_supplied(raw(i), a.telemetry[i])
                         ELSE raw(i)]
           points == detect_utilization_change_points(samples, a.threshold)
       IN  Completed([samples |-> samples, points |-> points,
                      correlations |-> correlate_change_points(points, a.events),
                      coverage |-> build_coverage_map(samples)])

(***************************************************************************)
(* PHY-normalised cohorts.  A measurement is [stratum, offered, capacity,  *)
(* sampled, measured, strong, directional]; fractions are in percent.      *)
(***************************************************************************)
normalize(m) ==
  LET fresh == IF Known(m.sampled) /\ Known(m.measured)
               THEN check_freshness(<<[name |-> "phy", at |-> m.sampled, valid |-> 30]>>, m.measured)
               ELSE [fresh |-> TRUE]
  IN  [stratum |-> m.stratum, control |-> m.strong /\ m.directional,
       fraction |-> IF permits_derived_figure(fresh) /\ m.capacity > 0
                    THEN (100 * m.offered) \div m.capacity ELSE Missing]

comparable_targets(fa, fb) == Known(fa) /\ Known(fb) /\ Distance(fa, fb) <= 15

(* stratify, the stratum s of it: the mean over the fractions that are     *)
(* known.                                                                  *)
stratum_mean(items, s) ==
  LET known == Keep(items, LAMBDA m : m.stratum = s /\ Known(m.fraction))
  IN  IF known = <<>> THEN Missing
      ELSE Total([i \in DOMAIN known |-> known[i].fraction]) \div Len(known)

attribute_cohort_difference(fa, fb, aControl, bControl) ==
  CASE ~aControl \/ ~bControl -> "WithheldMissingControls"
    [] aControl /\ bControl /\ ~comparable_targets(fa, fb) -> "WithheldIncomparableTargets"
    [] OTHER -> "Attributable"

(* The command compares the first stratum of each cohort.                  *)
phy_normalized_run(a) ==
  LET norm(items) == [i \in DOMAIN items |-> normalize(items[i])]
      first(items) == Min({items[i].stratum : i \in DOMAIN items})
      control(items) == \A i \in DOMAIN items : items[i].control
      na == norm(a.cohort_a)
      nb == norm(a.cohort_b)
  IN  IF ~a.readable \/ na = <<>> \/ nb = <<>> THEN Refusal(1)
      ELSE Completed(attribute_cohort_difference(stratum_mean(na, first(na)),
                                                 stratum_mean(nb, first(nb)),
                                                 control(na), control(nb)))
=============================================================================

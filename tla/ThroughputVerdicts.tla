------------------------- MODULE ThroughputVerdicts -------------------------
(***************************************************************************)
(* What the tools built on iperf3, HTTP uploads, networkQuality and ICMP   *)
(* cadences conclude: throughput tuner, iperf analysis and the summary the *)
(* admission fan-out reads, upload size sweep, bufferbloat and probe rate. *)
(***************************************************************************)
EXTENDS Evidence

(***************************************************************************)
(* An iperf3 document is a record [json, error, version, connected, bidir, *)
(* reverse, target, end, sum_sent, sum_received, sum, sent_rev, recv_rev]. *)
(* A block of it is [bps, bytes, seconds, packets, lost], Absent when the  *)
(* key is not there.                                                       *)
(***************************************************************************)
Absent == [bps |-> Missing, bytes |-> Missing, seconds |-> Missing, packets |-> Missing,
           lost |-> Missing]

supports_bidir_reliably(version) == version >= 316

(* A block without a rate or a byte count is no sample; a missing interval *)
(* reads as 0.                                                             *)
parse_rate_sample(b) ==
  IF Known(b.bps) /\ Known(b.bytes)
  THEN [b EXCEPT !.seconds = Larger(@, 0)] ELSE Absent

is_hollow(b) == IF Known(b.packets) THEN b.packets = 0 ELSE b.bytes <= 0

Solid(b) == IF b = Absent \/ is_hollow(b) THEN Absent ELSE b

parse_iperf_json(d) ==
  CASE ~d.json                      -> [error |-> "InvalidJson"]
    [] d.json /\ d.error            -> [error |-> "ServerError"]
    [] d.json /\ ~d.error /\ ~d.end -> [error |-> "MissingField"]
    [] OTHER ->
       [error     |-> "none",
        version   |-> d.version,
        direction |-> IF d.bidir THEN "Bidirectional"
                      ELSE IF d.reverse THEN "Reverse" ELSE "Forward",
        offered   |-> IF d.target > 0 THEN d.target ELSE Missing,
        sent      |-> Solid(parse_rate_sample(d.sum_sent)),
        received  |-> Solid(parse_rate_sample(d.sum_received)),
        estimated |-> parse_rate_sample(d.sum),
        reverse   |-> IF d.bidir THEN Solid(parse_rate_sample(d.recv_rev)) ELSE Absent,
        missing   |-> {f \in {"sum_sent", "sum_received"} : d[f] = Absent}
                      \cup (IF d.bidir THEN {f \in {"sent_rev", "recv_rev"} : d[f] = Absent}
                                       ELSE {})]

(* probe_one_listener, over the document the listener answered with.       *)
listener_capability(port, spawned, r) ==
  IF spawned /\ r.error = "none"
  THEN [port |-> port, reachable |-> TRUE, version |-> r.version,
        bidir |-> Known(r.version) /\ supports_bidir_reliably(r.version)]
  ELSE [port |-> port, reachable |-> FALSE, version |-> Missing, bidir |-> FALSE]

probe_one_listener(port, spawned, d) == listener_capability(port, spawned, parse_iperf_json(d))

select_independent_listener(caps) ==
  FirstOr(caps, LAMBDA c : c.reachable, [port |-> Missing]).port

run_discovery(a) ==
  IF a.target = "none" THEN Refusal(2)
  ELSE LET caps == [i \in DOMAIN a.allow_ports |->
                      probe_one_listener(a.allow_ports[i], a.spawned[i], a.answers[i])]
       IN  Completed([caps |-> caps, selected |-> select_independent_listener(caps)])

iperf_analyze_run(a) ==
  CASE a.allow_ports # <<>> -> run_discovery(a)
    [] a.allow_ports = <<>> /\ a.parse_file # "none" /\ a.parse_file = "unreadable" -> Refusal(1)
    [] a.allow_ports = <<>> /\ a.parse_file = "none" /\ a.target = "none" -> Refusal(2)
    [] OTHER -> IF parse_iperf_json(a.document).error = "none"
                THEN Completed(parse_iperf_json(a.document)) ELSE Refusal(1)

(* The receiver's report, else the legacy sum.                             *)
receiver_block(d) ==
  IF Solid(d.sum_received) # Absent THEN d.sum_received ELSE Solid(d.sum)

(* IperfSummary::from_json, for a document that is JSON.                   *)
from_json(d) ==
  LET connected == ~d.error /\ d.connected > 0
      block(b)  == IF connected /\ d.end THEN b ELSE Absent
  IN  [connected |-> connected, error |-> d.error,
       sender    |-> block(Solid(d.sum_sent)).bps,
       receiver  |-> block(receiver_block(d)).bps,
       packets   |-> block(receiver_block(d)).packets]

summary_usable(s) == s.connected /\ ~s.error

(***************************************************************************)
(* Throughput tuner.  A candidate is a number of streams; a trial is       *)
(* [candidate, reported, bps, rejected].                                   *)
(***************************************************************************)

duration_ok(requested, reported) ==
  requested > 0 /\ 5 * Distance(reported, requested) <= requested

judge_trial(candidate, requested, r) ==
  LET T(reported, bps, why) == [candidate |-> candidate, reported |-> reported,
                                bps |-> bps, rejected |-> why]
  IN  CASE r.error # "none" -> T(Missing, Missing, r.error)
        [] r.error = "none" /\ r.received = Absent -> T(Missing, Missing, "NoReceiverEvidence")
        [] r.error = "none" /\ r.received # Absent
           /\ ~duration_ok(requested, r.received.seconds) ->
             T(r.received.seconds, Missing, "DurationInconsistent")
        [] OTHER -> T(r.received.seconds, r.received.bps, "none")

evaluate_trial(candidate, requested, d) ==
  judge_trial(candidate, requested, parse_iperf_json(d))

preflight_candidate(streams, limits) ==
  CASE Known(limits.files) /\ 2 * streams > Larger(limits.files - 16, 0) -> "SocketLimitRisk"
    [] ~(Known(limits.files) /\ 2 * streams > Larger(limits.files - 16, 0))
       /\ streams > 4 * limits.cores -> "CpuOversubscriptionRisk"
    [] OTHER -> "Ok"

(* DriftBracket::is_severe: the spread exceeds a quarter of the maximum.   *)
is_severe(samples) ==
  /\ Len(samples) >= 2
  /\ Max(Range(samples)) > 0
  /\ 4 * (Max(Range(samples)) - Min(Range(samples))) > Max(Range(samples))

(* build_verdict; the sort is stable, so that the earliest of the fastest  *)
(* accepted trials is the synthetic maximum.                               *)
build_tuner_verdict(trials, representative, drift) ==
  LET ok    == {i \in DOMAIN trials : trials[i].rejected = "none"}
      best  == {i \in ok : \A j \in ok : trials[j].bps <= trials[i].bps}
      repr  == {i \in ok : trials[i].candidate = representative}
      reprBest == {i \in repr : \A j \in repr : trials[j].bps <= trials[i].bps}
  IN  [maximum  |-> IF ok = {} THEN Missing ELSE trials[Min(best)].bps,
       at       |-> IF ok = {} THEN Missing ELSE trials[Min(best)].candidate,
       application |-> IF repr = {} THEN Missing ELSE trials[Min(reprBest)].bps,
       rejected |-> {trials[i].candidate : i \in DOMAIN trials \ ok},
       provisional |-> drift # <<>> /\ is_severe(drift)]

(* The command: candidates that preflight refuses are skipped, the         *)
(* representative is measured whatever preflight said of it.               *)
(* The candidates to run, the representative last if it was refused.       *)
candidates_to_run(fits, representative) ==
  IF representative \in Range(fits) THEN fits ELSE Append(fits, representative)

run_trials(a, candidates) ==
  [i \in DOMAIN candidates |-> evaluate_trial(candidates[i], a.requested, a.answers[candidates[i]])]

throughput_tuner_run(a) ==
  LET fits   == Keep(a.candidates, LAMBDA c : preflight_candidate(c, a.limits) = "Ok")
      trials == run_trials(a, candidates_to_run(fits, a.representative))
      drift  == IF a.repeats >= 2 THEN Keep(a.baseline, Known) ELSE <<>>
  IN  Completed([verdict |-> build_tuner_verdict(trials, a.representative, drift),
                 skipped |-> Range(a.candidates) \ Range(fits)])

(***************************************************************************)
(* Upload size sweep.  A sample is [size, stage, status], its stage being  *)
(* the one that failed or "done".                                          *)
(***************************************************************************)
sample_ok(s) == s.stage = "done" /\ s.status # 0

(* run_single_sweep and do_post_and_read: the first stage that fails ends  *)
(* the sample; a reply whose status line cannot be parsed leaves status 0. *)
run_single_sweep(size, useTls, outcome) ==
  LET stages == IF useTls THEN <<"dns", "tcp", "tls", "write", "read">>
                          ELSE <<"dns", "tcp", "write", "read">>
      failed == {i \in DOMAIN stages : stages[i] = outcome.fails}
  IN  IF failed # {} THEN [size |-> size, stage |-> stages[Min(failed)], status |-> 0]
      ELSE [size |-> size, stage |-> "done", status |-> outcome.status]

upload_sweep_test(samples) ==
  LET failed == {samples[i].size : i \in {j \in DOMAIN samples : ~sample_ok(samples[j])}}
  IN  IF failed = {} THEN [status |-> "Success", diagnosis |-> "none"]
      ELSE [status |-> "Warning",
            diagnosis |-> IF /\ ~\E s \in failed : s <= 1024
                             /\ \E s \in failed : s >= 16384
                          THEN "Data-Stall" ELSE "Upload Sweep Failures"]

(***************************************************************************)
(* Bufferbloat.  A phase is the responsiveness it reported, Missing when   *)
(* the tool failed, was killed at its deadline, or reported none.          *)
(***************************************************************************)
from_worst_rpm(rpm) ==
  CASE rpm >= 400 -> "Excellent" [] rpm >= 200 /\ rpm < 400 -> "Good"
    [] rpm >= 100 /\ rpm < 200 -> "Fair" [] OTHER -> "Poor"

grade_from_phases(up, down, sim) ==
  IF Missing \in {up, down, sim} THEN "none" ELSE from_worst_rpm(Min({up, down, sim}))

(* run_network_quality: a failed start, a nonzero exit, a poll error, the  *)
(* deadline, or output that is not JSON leave nothing.                     *)
run_network_quality(child) == IF child.outcome = "json" THEN child.rpm ELSE Missing

run_bufferbloat(a) ==
  IF ~a.tool THEN [grade |-> "none", failed |-> {}, available |-> FALSE]
  ELSE [grade |-> grade_from_phases(run_network_quality(a.phases["up"]),
                                    run_network_quality(a.phases["down"]),
                                    run_network_quality(a.phases["sim"])),
        failed |-> {p \in DOMAIN a.phases : a.phases[p].outcome # "json"},
        available |-> TRUE]

(* The interface that is measured: the one named, else that of the default *)
(* route; no route counts as no tunnel.                                    *)
bufferbloat_run(a) ==
  LET b == run_bufferbloat(a)
  IN  Completed([grade |-> b.grade, failed |-> b.failed, available |-> b.available,
                 interface |-> IF a.interface # "none" THEN a.interface ELSE a.route,
                 tunnel    |-> a.route # "none" /\ a.tunnel])

(***************************************************************************)
(* Probe rate.  A cadence run is the sequence of its round trips, Missing  *)
(* for a probe that timed out.                                             *)
(***************************************************************************)
received(run) == Keep(run, Known)

(* The average times the number of replies, to stay in the integers.       *)
avg_known(run) == received(run) # <<>>
avg_total(run) == Total(received(run))

cadence_loss_percent(run) ==
  IF run = <<>> THEN 0 ELSE (100 * (Len(run) - Len(received(run)))) \div Len(run)

(* elevated > 2 * normal and elevated - normal > 10, on the averages.      *)
spiked(normal, elevated) ==
  LET n  == Len(received(normal))
      e  == Len(received(elevated))
      ne == avg_total(normal) * e
      en == avg_total(elevated) * n
  IN  n > 0 /\ e > 0 /\ en > 2 * ne /\ en - ne > 10 * n * e

(* tcp - normal > (elevated - normal) / 2.                                 *)
tcp_confirms(tcp, normal, elevated) ==
  LET t == Len(tcp)
      n == Len(received(normal))
      e == Len(received(elevated))
  IN  /\ t > 0 /\ n > 0 /\ e > 0
      /\ 2 * (Total(tcp) * n - avg_total(normal) * t) * e
           > (avg_total(elevated) * n - avg_total(normal) * e) * t

analyze_cadence(a) ==
  LET gw == spiked(a.gateway.normal, a.gateway.elevated)
      re == spiked(a.remote.normal, a.remote.elevated)
  IN  [probable_icmp_policing |-> gw /\ re,
       application_latency_confirmed |->
          re /\ tcp_confirms(received(a.tcp), a.remote.normal, a.remote.elevated)]

probe_rate_run(a) ==
  IF ~a.gateway_resolves \/ ~a.remote_resolves THEN Refusal(1)
  ELSE Completed(analyze_cadence(a))
=============================================================================

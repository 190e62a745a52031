---------------------------- MODULE Comparators -----------------------------
(***************************************************************************)
(* The commands that compare two or more bodies of evidence collected at   *)
(* different times or places: circuit states, a component change, AP       *)
(* compatibility cells, gateway phases, two sites, two networks, VPN       *)
(* transports and client platforms.                                        *)
(***************************************************************************)
EXTENDS Evidence

(***************************************************************************)
(* Circuits.  A phase is [state, mbps, loss, members], a member the set of *)
(* its telemetry fields that are present.                                  *)
(***************************************************************************)
CircuitStates == {"a-only", "b-only", "dual-active"}
TelemetryFields == {"utilization_pct", "drops", "policer_drops", "errors",
                    "nat_owner", "route_changes"}

missing_fields(member) == TelemetryFields \ member

(* CircuitManifest::phase: the first phase with that state.                *)
NoPhase == [state |-> "none", mbps |-> Missing, loss |-> Missing, members |-> <<>>]
circuit_phase(phases, s) == FirstOr(phases, LAMBDA p : p.state = s, NoPhase)

(* What judge_circuits misses, per state.                                  *)
CircuitMissing(phases) ==
  {s \in CircuitStates :
     LET p == circuit_phase(phases, s)
     IN  \/ p = NoPhase
         \/ ~Known(p.mbps)
         \/ p.members = <<>>
         \/ \E i \in DOMAIN p.members : missing_fields(p.members[i]) # {}}

(* throughput_ratio < 0.6 or loss_delta > 5; the ratio of two idle members *)
(* is 1.                                                                   *)
MemberDiffers(a, b, aLoss, bLoss) ==
  \/ Larger(a, b) > 0 /\ 10 * Smaller(a, b) < 6 * Larger(a, b)
  \/ Distance(aLoss, bLoss) > 5

(* judge_circuits; a loss that was not measured counts as 0.               *)
judge_circuits(phases) ==
  LET a == circuit_phase(phases, "a-only")
      b == circuit_phase(phases, "b-only")
  IN  CASE CircuitMissing(phases) # {} -> [kind |-> "Refused", slow |-> "none"]
        [] CircuitMissing(phases) = {}
           /\ MemberDiffers(a.mbps, b.mbps, Larger(a.loss, 0), Larger(b.loss, 0)) ->
             [kind |-> "MemberSpecific", slow |-> IF a.mbps <= b.mbps THEN "A" ELSE "B"]
        [] OTHER -> [kind |-> "Shared", slow |-> "none"]

(* CircuitManifest::digest: a function of the phases sorted by state (the  *)
(* sort is stable) and of their members sorted by name, which the bag of   *)
(* members stands for.                                                     *)
circuit_digest(phases) ==
  [s \in CircuitStates |->
     LET ofState == Keep(phases, LAMBDA p : p.state = s)
     IN  [i \in DOMAIN ofState |->
            [ofState[i] EXCEPT !.members =
               {[fields |-> m, count |-> Count(ofState[i].members, LAMBDA x : x = m)] :
                  m \in Range(ofState[i].members)}]]]

circuit_compare_run(a) ==
  CASE ~a.readable \/ ~a.valid -> Refusal(1)
    [] a.readable /\ a.valid /\ a.digest_only ->
         Completed([digest |-> circuit_digest(a.phases)])
    [] OTHER -> Completed([digest  |-> circuit_digest(a.phases),
                           verdict |-> judge_circuits(a.phases)])

(***************************************************************************)
(* Resilience.  A sample is [session, alive, route, nat, resync]; alive    *)
(* and resync are "yes", "no" or "none".                                   *)
(***************************************************************************)

last_known_alive(own) == LastOr(own, LAMBDA s : s.alive # "none", [alive |-> "none"]).alive

session_state(samples, id) ==
  LET own  == Keep(samples, LAMBDA s : s.session = id)
      lost == \E i \in DOMAIN own : own[i].alive = "no"
  IN  CASE last_known_alive(own) = "none" -> "never_sampled"
        [] lost /\ last_known_alive(own) = "no" -> "lost"
        [] OTHER -> "survived"

(* First against last identity among the samples that carry one.           *)
identity_continuity(ids) ==
  LET known == Keep(ids, LAMBDA x : x # "none")
  IN  CASE known = <<>> -> "Unavailable"
        [] known # <<>> /\ known[1] # known[Len(known)] -> "Changed"
        [] OTHER -> "Unchanged"

judge_resilience(samples, started, ended) ==
  LET sessions == {samples[i].session : i \in DOMAIN samples}
      N(st) == Cardinality({s \in sessions : session_state(samples, s) = st})
      resync == {samples[i].resync : i \in DOMAIN samples}
  IN  [outage |-> IF Known(started) /\ Known(ended) /\ ended >= started
                  THEN ended - started ELSE Missing,
       survived |-> N("survived"), lost |-> N("lost"), never |-> N("never_sampled"),
       route |-> identity_continuity([i \in DOMAIN samples |-> samples[i].route]),
       nat   |-> identity_continuity([i \in DOMAIN samples |-> samples[i].nat]),
       resync |-> IF resync \subseteq {"none"} THEN "none"
                  ELSE IF "yes" \in resync THEN "yes" ELSE "no"]

resilience_run(a) ==
  IF ~a.authorized \/ ~a.readable THEN Refusal(1)
  ELSE Completed(judge_resilience(a.samples, a.started, a.ended))

(***************************************************************************)
(* AP identity: [label, band], NoIdentity when not sampled.                *)
(***************************************************************************)
NoIdentity == [label |-> "none", band |-> "none"]

compare_ap_identity(before, after) ==
  CASE NoIdentity \in {before, after} -> "Unavailable"
    [] NoIdentity \notin {before, after} /\ before.label # after.label -> "DifferentAp"
    [] OTHER -> IF before.band = after.band THEN "SameApSameRadio" ELSE "SameApDifferentRadio"

(* sample_once and sample_identity: no salt, no privilege or no BSSID      *)
(* leave no identity.                                                      *)
sample_identity(s) ==
  IF s.salt /\ s.wdutil = "ok" /\ s.bssid # "none"
  THEN [label |-> s.bssid, band |-> s.band] ELSE NoIdentity

ap_identity_run(a) ==
  Completed([identity |-> sample_identity(a.first),
             comparison |-> IF a.compare
                            THEN compare_ap_identity(sample_identity(a.first),
                                                     sample_identity(a.second))
                            ELSE "none"])

(* Roaming: two samples around a wait; nothing else is measured live.      *)
build_transition(before, after, idBefore, idAfter) ==
  [kind |-> IF compare_ap_identity(before, after) = "Unavailable" THEN "Undetermined"
            ELSE compare_ap_identity(before, after),
   continuity |-> CASE idBefore = "none" \/ idAfter = "none" -> "Unavailable"
                    [] idBefore # "none" /\ idAfter # "none" /\ idBefore = idAfter -> "Unchanged"
                    [] OTHER -> "Changed"]

roaming_run(a) ==
  Completed(build_transition(sample_identity(a.first), sample_identity(a.second),
                             a.identity_before, a.identity_after))

(***************************************************************************)
(* AP compatibility matrix.  A cell is [phy, mode, model, hardware, widths *)
(* and bands of both sides].                                               *)
(***************************************************************************)
classify_negotiated_generation(phy) ==
  CASE phy = "802.11be" -> "Eht" [] phy = "802.11ax" -> "He"
    [] phy \in {"802.11ac", "802.11n", "802.11a/b/g"} -> "PreHe" [] OTHER -> "Unknown"

RequiredCells == {"Wifi7ApBeMode", "SameApAxMode", "Wifi6eApControl",
                  "NativeWifi7Client", "NativeWifi6eClient"}

(* RequiredCell::matches.                                                  *)
cell_matches(req, cell) ==
  CASE req = "Wifi7ApBeMode"      -> cell.mode = "Be"
    [] req = "SameApAxMode"       -> cell.mode = "Ax"
    [] req = "Wifi6eApControl"    -> cell.mode = "Ax" /\ cell.model # "none"
    [] req = "NativeWifi7Client"  -> cell.hardware = "Wifi7"
    [] req = "NativeWifi6eClient" -> cell.hardware = "Wifi6e"

compat_missing(cells) ==
  {req \in RequiredCells : ~\E i \in DOMAIN cells : cell_matches(req, cells[i])}

compat_verdict(cells) ==
  IF compat_missing(cells) # {} THEN "InsufficientCells" ELSE "Comparable"

ap_client_disagreements(cell) ==
  (IF Known(cell.ap_width) /\ Known(cell.width) /\ cell.ap_width # cell.width
   THEN {"width"} ELSE {})
  \cup (IF cell.ap_band # "none" /\ cell.band # "none" /\ cell.ap_band # cell.band
        THEN {"band"} ELSE {})

(* client_association_from_snapshot with an empty AP context.              *)
sampled_cell(snap, hardware) ==
  [phy |-> snap.phy, mode |-> "none", model |-> "none", hardware |-> hardware,
   width |-> snap.width, ap_width |-> Missing, band |-> snap.band, ap_band |-> "none"]

ap_compat_matrix_run(a) ==
  LET cells == (IF a.sample THEN <<sampled_cell(a.snap, a.hardware)>> ELSE <<>>) \o a.ingested
  IN  CASE (a.sample /\ ~a.radio) \/ ~a.ingest_ok -> Refusal(1)
        [] (~a.sample \/ a.radio) /\ a.ingest_ok /\ cells = <<>> -> Refusal(1)
        [] OTHER -> Completed([verdict |-> compat_verdict(cells),
              disagreements |-> [i \in DOMAIN cells |-> ap_client_disagreements(cells[i])],
              generations |-> [i \in DOMAIN cells |->
                                 classify_negotiated_generation(cells[i].phy)]])

(***************************************************************************)
(* First hop and gateway bracket.  A sampler outcome is [wrote, replies],  *)
(* the round trips (Missing: no reply) and whether its thread wrote them   *)
(* before it ended.                                                        *)
(***************************************************************************)

(* tcp_syn_timing: a refused connection is an answer.                      *)
tcp_syn_succeeds(outcome) == outcome \in {"connected", "refused"}

classify_icmp(sent, got, fallback) ==
  CASE got > 0 -> "Responding"
    [] got = 0 /\ tcp_syn_succeeds(fallback) -> "Suppressed"
    [] OTHER -> "Lost"

resolve_probe_interface(explicit, route) ==
  IF explicit.name # "none" THEN explicit
  ELSE IF route.name # "none" THEN route ELSE [name |-> "none", tunnel |-> FALSE]

firsthop_run(a) ==
  LET got == Count(a.replies, Known)
  IN  IF a.gateway = "none" THEN Refusal(1)
      ELSE Completed([interface |-> resolve_probe_interface(a.explicit, a.route),
                      sent |-> Len(a.replies), received |-> got,
                      state |-> classify_icmp(Len(a.replies), got,
                                  IF got = 0 THEN a.fallback ELSE "none")])

sample_gateway_during(replies, fallback) ==
  LET got == Count(replies, Known)
  IN  [sent |-> Len(replies), received |-> got, replies |-> Keep(replies, Known),
       state |-> classify_icmp(Len(replies), got, IF got = 0 THEN fallback ELSE "none")]

(* run_phase: the guard and the sampler run side by side and both end; a   *)
(* guard that could not be built leaves no target, hence no loss figure.   *)
run_phase(kind, sampler, fallback, guard) ==
  LET g == IF ~sampler.wrote
           THEN [sent |-> 0, received |-> 0, replies |-> <<>>, state |-> "Lost"]
           ELSE sample_gateway_during(sampler.replies, fallback)
  IN  [kind |-> kind, state |-> g.state, sent |-> g.sent, received |-> g.received,
       total |-> IF g.replies = <<>> THEN Missing ELSE Total(g.replies),
       bytes |-> IF kind = "idle" \/ ~guard.ok THEN 0 ELSE guard.bytes,
       loss  |-> IF kind = "idle" \/ ~guard.ok \/ guard.target = 0 THEN Missing
                 ELSE Larger(100 - (100 * guard.bytes) \div guard.target, 0)]

(* rtt_delta_ms against the idle phase: averages over the same number of   *)
(* replies, so that the totals can be compared.                            *)
rtt_delta_known(phase, idle) == Known(phase.total) /\ Known(idle.total)

gateway_bracket_run(a) ==
  IF a.gateway = "none" THEN Refusal(1)
  ELSE Completed(IF a.synthetic THEN [source |-> "synthetic", phases |-> <<>>]
                 ELSE [source |-> "live",
                       phases |-> [i \in DOMAIN a.phases |->
                         run_phase(a.phases[i].kind, a.phases[i].sampler,
                                   a.phases[i].fallback, a.phases[i].guard)]])

(***************************************************************************)
(* Site A/B.  A report is [redirected, mbps, clean] for one protocol.      *)
(***************************************************************************)

(* median_clean_download_mbps: the upper median of the clean samples.      *)
median_clean(reports) ==
  LET clean == Keep(reports, LAMBDA r : r.clean /\ Known(r.mbps))
      sorted == SortedBy([i \in DOMAIN clean |-> clean[i].mbps], LAMBDA x : x)
  IN  IF clean = <<>> THEN Missing ELSE sorted[Len(sorted) \div 2 + 1]

compare_sites(affected, control) ==
  LET redirected == \E r \in Range(affected) \cup Range(control) : r.redirected
  IN  CASE redirected -> "RedirectedRatherThanCompared"
        [] ~redirected /\ Known(median_clean(affected)) /\ median_clean(control) > 0 -> "Compared"
        [] OTHER -> "Withheld"

(* run_site_samples runs at least once and refuses an unknown protocol.    *)
site_ab_run(a) ==
  IF ~(a.protocols \subseteq {"http1", "http2", "http3"}) THEN Refusal(1)
  ELSE Completed([p \in (IF a.protocols = {} THEN {"http1", "http2", "http3"} ELSE a.protocols)
                    |-> compare_sites(a.affected, a.control)])

(***************************************************************************)
(* Second network.  A bundle is [ap, metrics], metrics a sequence of       *)
(* [name, value].                                                          *)
(***************************************************************************)
compare_bundles(before, after) ==
  LET names == {m.name : m \in Range(before.metrics) \cup Range(after.metrics)}
      value(b, n) == FirstOr(b.metrics, LAMBDA m : m.name = n, [value |-> Missing]).value
      both  == {n \in names : Known(value(before, n)) /\ Known(value(after, n))}
  IN  [relationship |-> compare_ap_identity(before.ap, after.ap),
       missing |-> names \ both,
       delta   |-> [n \in both |-> value(after, n) - value(before, n)]]

second_network_run(a) ==
  CASE a.save -> IF a.salt /\ a.writable THEN Completed("saved") ELSE Refusal(1)
    [] ~a.save /\ Len(a.compare) = 2 ->
         IF \A i \in 1 .. 2 : a.compare[i].readable
         THEN Completed(compare_bundles(a.compare[1].bundle, a.compare[2].bundle))
         ELSE Refusal(1)
    [] OTHER -> Refusal(1)

(***************************************************************************)
(* VPN transports: silence on UDP is not told from reachability.           *)
(***************************************************************************)
probe_protocol_reachability(protocol, event) ==
  CASE event = "refused"    -> "Refused"
    [] event = "error"      -> "LocalError"
    [] event = "answered"   -> "ReachableOrNoResponse"
    [] event = "timeout"    -> IF protocol = "OpenVpnTcp" THEN "TimedOut"
                               ELSE "ReachableOrNoResponse"

vpn_matrix_run(a) ==
  Completed([probes |-> [p \in DOMAIN a.events |-> probe_protocol_reachability(p, a.events[p])],
             mtu |-> IF a.mss > 0 THEN a.mss + 40 ELSE Missing])

(***************************************************************************)
(* Platform matrix: a result is [os, driver, kernel, phy, iperf, mbps]; a  *)
(* delta is a set of at most one number.                                   *)
(***************************************************************************)
PlatformAxes == {"os", "driver", "kernel", "phy", "iperf"}

compare_axes(a, b) == {x \in PlatformAxes : a[x] # b[x]}

attribute_difference(a, b) ==
  LET varying == compare_axes(a, b)
  IN  CASE varying = {} -> [kind |-> "NoVariation", axes |-> {}, delta |-> {}]
        [] Cardinality(varying) = 1 ->
             [kind |-> "SinglePlatformFactor", axes |-> varying,
              delta |-> IF Known(a.mbps) /\ Known(b.mbps) THEN {b.mbps - a.mbps} ELSE {}]
        [] OTHER -> [kind |-> "ConfoundedEntangled", axes |-> varying, delta |-> {}]

platform_matrix_run(a) ==
  Completed(IF a.compare = "ok" THEN attribute_difference(a.local, a.other)
            ELSE [kind |-> "none", axes |-> {}, delta |-> {}])
=============================================================================

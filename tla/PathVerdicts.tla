---------------------------- MODULE PathVerdicts ----------------------------
(***************************************************************************)
(* What the commands about the path itself conclude: segment sizes and     *)
(* MTU, tunnels, hops, port-dependent treatment, first hop and resolvers.  *)
(***************************************************************************)
EXTENDS EvidenceVerdicts

(***************************************************************************)
(* mss-evidence.  A frame is [src, dst, syn, ack, mss]; a flow is keyed by *)
(* its local and its peer address.                                         *)
(***************************************************************************)

(* Whether the frame is on the leg of the local host, "none" when it is    *)
(* on neither.  Without local addresses the SYN is the local leg.          *)
leg_of(f, locals) ==
  CASE locals = {} -> IF f.ack THEN "peer" ELSE "local"
    [] locals # {} /\ f.src \in locals -> "local"
    [] locals # {} /\ f.src \notin locals /\ f.dst \in locals -> "peer"
    [] OTHER -> "none"

flow_key(f, locals) == IF leg_of(f, locals) = "local" THEN <<f.src, f.dst>> ELSE <<f.dst, f.src>>

RecordedFrames(frames, locals) ==
  Keep(frames, LAMBDA f : f.syn /\ Known(f.mss) /\ leg_of(f, locals) # "none")

(* The last MSS that a leg of a flow advertised.                           *)
advertised(frames, locals, key, leg) ==
  LastOr(RecordedFrames(frames, locals),
         LAMBDA f : flow_key(f, locals) = key /\ leg_of(f, locals) = leg, [mss |-> Missing]).mss

both_directions_observed(flow) == Known(flow.local) /\ Known(flow.peer)

attribute_middlebox(flow) ==
  IF both_directions_observed(flow) THEN "Ambiguous" ELSE "InsufficientEvidence"

ingest_syn_mss(frames, locals) ==
  LET rec  == RecordedFrames(frames, locals)
      keys == {flow_key(rec[i], locals) : i \in DOMAIN rec}
      flow(k) == [local |-> advertised(frames, locals, k, "local"),
                  peer  |-> advertised(frames, locals, k, "peer")]
  IN  [flows |-> [k \in keys |-> flow(k)],
       attributions |-> [k \in keys |-> attribute_middlebox(flow(k))],
       both |-> Cardinality({k \in keys : both_directions_observed(flow(k))})]

(* df is "true", "false" or "none".                                        *)
cluster_destination_mss(mss, df) ==
  LET spread == IF mss = <<>> THEN 0 ELSE Max(Range(mss)) - Min(Range(mss))
  IN  [spread  |-> spread,
       verdict |->
         CASE Len(mss) < 2 -> "Inconclusive"
           [] Len(mss) >= 2 /\ spread > 24 -> "PeerSpecific"
           [] OTHER -> CASE df = "true" -> "UniformClampOrProxy"
                         [] df = "false" -> "TruePmtuCeiling"
                         [] OTHER -> "Inconclusive"]

(***************************************************************************)
(* Path MTU evidence.  A size is confirmed only by an answer of the peer.  *)
(* A trial of a size is [size, local, runtime, quic]: the local send check,*)
(* whether a runtime could be built and what the QUIC exchange gave:       *)
(* "bind", "refused_size", "silent", "stalled" or the size that quinn      *)
(* believed in when the peer acknowledged the stream (Missing: unknown).   *)
(***************************************************************************)
QuicFloor == 1200
MaxU16 == 65535

local_send_check(t) == IF t.local THEN "NoResponse" ELSE "SendFailedLocally"

confirm_size_via_quic(size, quic) ==
  CASE size < QuicFloor -> "NotTestable"
    [] size >= QuicFloor /\ quic \in {"bind", "refused_size"} -> "SendFailedLocally"
    [] size >= QuicFloor /\ quic \in {"silent", "stalled"} -> "NoResponse"
    [] OTHER -> IF quic = "estimate_below" THEN "NoResponse" ELSE "Confirmed"

size_outcome(t) ==
  CASE local_send_check(t) = "SendFailedLocally" -> "SendFailedLocally"
    [] local_send_check(t) # "SendFailedLocally" /\ ~t.runtime -> "NoResponse"
    [] OTHER -> confirm_size_via_quic(Smaller(t.size, MaxU16), t.quic)

is_path_evidence(outcome) == outcome = "Confirmed"

largest_confirmed(trials) ==
  LET ok == {trials[i].size : i \in Where(trials, LAMBDA t : is_path_evidence(size_outcome(t)))}
  IN  IF ok = {} THEN Missing ELSE Max(ok)

smallest_unanswered(trials) ==
  LET no == {trials[i].size : i \in Where(trials, LAMBDA t : size_outcome(t) \in {"NoResponse", "IcmpTooBig"})}
  IN  IF no = {} THEN Missing ELSE Min(no)

(* build_verdict: the parts of the verdict that are present.  The don't-   *)
(* fragment status is that of the last size.                               *)
build_verdict(trials) ==
  LET c == largest_confirmed(trials)
      u == smallest_unanswered(trials)
      some(o) == \E i \in DOMAIN trials : size_outcome(trials[i]) = o
  IN  {p \in {"confirmed", "ceiling", "undetermined", "ambiguous", "local", "df_warning"} :
         CASE p = "confirmed"    -> Known(c)
           [] p = "ceiling"      -> Known(c) /\ u > c
           [] p = "undetermined" -> ~Known(c)
           [] p = "ambiguous"    -> ~Known(c) /\ some("NoResponse")
           [] p = "local"        -> ~Known(c) /\ some("SendFailedLocally")
           [] OTHER -> trials = <<>> \/ ~trials[Len(trials)].df}

(* resolve_and_confirm_df: None when the target does not resolve.          *)
resolve_and_confirm_df(target) ==
  CASE ~target.resolves -> "none"
    [] target.resolves /\ size_outcome(target.trial) = "Confirmed" -> "true"
    [] OTHER -> "false"

mss_evidence_run(a) ==
  LET df == IF a.target.given /\ resolve_and_confirm_df(a.target) # "none"
            THEN resolve_and_confirm_df(a.target) ELSE a.df
      ingest == IF a.ingest = "file" THEN ingest_syn_mss(a.frames, a.locals) ELSE <<>>
  IN  CASE a.ingest = "unreadable" -> Refusal(1)
        [] a.ingest = "none" /\ ~a.clusters -> Refusal(2)
        [] OTHER -> Completed([ingest |-> ingest,
                               cluster |-> IF a.clusters THEN cluster_destination_mss(a.mss, df)
                                           ELSE <<>>])

(***************************************************************************)
(* The MTU tests of the framework and the tunnel test.                     *)
(***************************************************************************)

search_continues(low, high) == low <= high

(* One step of the search over the sizes that `fits` holds for; mtu is the *)
(* last size that passed.                                                  *)
search_step(s, fits) ==
  LET mid == (s.low + s.high) \div 2
  IN  IF ~search_continues(s.low, s.high) THEN s
      ELSE IF mid \in fits THEN [low |-> mid + 1, high |-> s.high, mtu |-> mid]
      ELSE [low |-> s.low, high |-> mid - 1, mtu |-> s.mtu]

(* The loop halves its range, so it ends within one step per size.         *)
icmp_mtu_search(min, max, fits) ==
  FoldLeft(LAMBDA s, i : search_step(s, fits), [low |-> min, high |-> max, mtu |-> Missing],
           [i \in 1..(max - min + 2) |-> i]).mtu

icmp_mtu_test(macos, mtu) ==
  CASE macos -> [status |-> "Skipped", diagnoses |-> {"not_supported"}]
    [] ~macos /\ ~Known(mtu) -> [status |-> "Failed", diagnoses |-> {}]
    [] OTHER -> [status |-> "Success",
                 diagnoses |-> {d \in {"reduced", "low"} : mtu < IF d = "reduced" THEN 1500 ELSE 1280}]

(* The TCP test assumes the default segment size of a connection.          *)
tcp_mtu_test(connects) ==
  IF connects THEN [status |-> "Success", mtu |-> 1460 + 40] ELSE [status |-> "Failed", mtu |-> Missing]

(* getsockopt may fail or return 0.                                        *)
read_tcp_maxseg(mss) == IF mss > 0 THEN mss ELSE 1460

TunnelSignatures == <<1440, 1430, 1420, 1410, 1400, 1380, 1360, 1280>>

identify_tunnel_type(mtu) ==
  FirstOr(TunnelSignatures, LAMBDA s : mtu >= s - 10 /\ mtu <= s + 10, Missing)

LayerOverhead(layer) ==
  CASE layer = "wireguard" -> 60 [] layer = "openvpn-udp" -> 70 [] layer = "openvpn-tcp" -> 90
    [] layer = "ipsec" -> 72 [] layer = "l2tp" -> 76 [] layer = "vxlan" -> 50
    [] layer = "gre" -> 24 [] layer = "geneve" -> 58 [] OTHER -> 50

estimate_layered_overhead(layers) ==
  Total([i \in DOMAIN layers |-> LayerOverhead(layers[i])])

(* Mutant: the header is subtracted without saturation.                    *)
calculate_safe_mss_wrapping(mtu, overhead) == Larger(mtu - overhead, 0) - 40

calculate_safe_mss(mtu, overhead) == Larger(Larger(mtu - overhead, 0) - 40, 0)

tunnel_mss_test(connects, maxseg) ==
  LET mss == read_tcp_maxseg(maxseg)
      mtu == mss + 40
      overhead == Larger(1500 - mtu, 0)
      clamping == CASE mtu >= 1480 -> "false" [] mtu < 1480 /\ mtu >= 1400 -> "optional"
                    [] mtu < 1400 /\ mtu >= 1280 -> "true" [] OTHER -> "critical"
  IN  IF ~connects THEN [status |-> "Failed"]
      ELSE [status |-> IF mtu >= 1400 THEN "Success" ELSE "Warning",
            clamping |-> clamping, tunnel |-> identify_tunnel_type(mtu),
            vpn_mss |-> Larger(mss - 20, 1200),
            conference |-> overhead >= 100]

(***************************************************************************)
(* provider-path.  A run is a sequence of hops [hop, addr, rtt], both      *)
(* missing when the line held neither or only stars.                       *)
(***************************************************************************)
responded(h) == h.addr # "none" \/ Known(h.rtt)

parse_traceroute(lines) ==
  LET numbered == Keep(lines, LAMBDA l : Known(l.hop))
      hop(l) == IF l.stars THEN [hop |-> l.hop, addr |-> "none", rtt |-> Missing]
                ELSE [hop |-> l.hop, addr |-> l.addr, rtt |-> l.rtt]
  IN  [i \in DOMAIN numbered |-> hop(numbered[i])]

(* The target counts as reached when the last hop listed answered.         *)
run_traceroute(lines) ==
  LET hops == parse_traceroute(lines)
  IN  [hops |-> hops, reached |-> hops # <<>> /\ responded(hops[Len(hops)])]

hop_samples(runs, n) ==
  FoldLeft(LAMBDA acc, r : acc \o Keep(r.hops, LAMBDA h : h.hop = n), <<>>, runs)

hop_total(runs, n) == Len(hop_samples(runs, n))

hop_verdict(runs, n) ==
  LET answered  == Keep(hop_samples(runs, n), LAMBDA h : responded(h))
      addresses == {answered[i].addr : i \in DOMAIN answered} \ {"none"}
  IN  CASE answered = <<>> -> "ConsistentlyNonResponsive"
        [] answered # <<>> /\ Len(answered) < hop_total(runs, n) -> "IntermittentResponse"
        [] OTHER -> IF Cardinality(addresses) <= 1 THEN "Stable" ELSE "Changed"

assess_path_stability(runs) ==
  LET listed == UNION {{runs[i].hops[j].hop : j \in DOMAIN runs[i].hops} : i \in DOMAIN runs}
  IN  [n \in listed |-> hop_verdict(runs, n)]

reverse_dns_region_hint(ptr) ==
  IF ptr = "region" THEN "ReverseDnsHint" ELSE "Unavailable"

probe_connect(p) == p.resolves /\ p.binds /\ p.connects

provider_path_run(a) ==
  LET runs == [i \in DOMAIN a.traces |-> run_traceroute(a.traces[i])]
      counts == [i \in DOMAIN runs |-> Count(runs[i].hops, responded)]
  IN  IF ~a.tool THEN Refusal(1)
      ELSE Completed([stability |-> assess_path_stability(runs),
                      confidence |-> confidence_from_stats(stats_from_samples(counts, "NotApplicable")),
                      connect |-> probe_connect(a.connect),
                      geo |-> IF a.operator THEN "OperatorSupplied"
                              ELSE reverse_dns_region_hint(a.ptr)])

(***************************************************************************)
(* The traceroute test of the framework, with three more traces for the    *)
(* latency of each hop.  A line is [timeout, addr, rtt]; a further trace   *)
(* gives the rtt of each line or Missing.                                  *)
(***************************************************************************)
estimate_initial_ttl(hops) == IF hops <= 64 THEN 64 ELSE IF hops <= 128 THEN 128 ELSE 255

path_hops(lines) == Keep(lines, LAMBDA l : l.timeout \/ l.addr # "none")

(* measure_per_hop_latency: the mean, Missing for a hop that no trace saw. *)
measure_per_hop_latency(traces, n) ==
  LET seen == {k \in DOMAIN traces : n \in DOMAIN traces[k] /\ Known(traces[k][n])}
  IN  IF seen = {} THEN Missing
      ELSE SumAt([k \in seen |-> traces[k][n]], seen) \div Cardinality(seen)

path_analysis_test(tool, lines, traces, maxHops) ==
  LET hops  == path_hops(lines)
      live  == Where(hops, LAMBDA h : ~h.timeout)
      mean(n) == measure_per_hop_latency(traces, n)
      jump(n) == n > 1 /\ n \in live /\ Known(mean(n)) /\ Known(mean(n - 1))
                 /\ mean(n) - mean(n - 1) > 50
      timeouts == live # DOMAIN hops
      slow  == \E n \in live : hops[n].rtt > 200
  IN  IF ~tool \/ hops = <<>> THEN [status |-> "Failed"]
      ELSE [status |-> IF timeouts \/ slow THEN "Warning" ELSE "Success",
            ttl |-> estimate_initial_ttl(Len(hops)),
            diagnoses |->
              {d \in {"long", "not_reached", "latency_hop", "timeouts", "high_latency", "loop"} :
                 CASE d = "long" -> Len(hops) > 25
                   [] d = "not_reached" -> Len(hops) >= maxHops /\ hops[Len(hops)].timeout
                   [] d = "latency_hop" -> \E n \in DOMAIN hops : jump(n)
                   [] d = "timeouts" -> timeouts
                   [] d = "high_latency" -> slow /\ ~timeouts
                   [] OTHER -> Cardinality({hops[n].addr : n \in live}) < Cardinality(live)}]

(***************************************************************************)
(* ecmp-nat.  A bucket is one local port; a UDP send without an answer     *)
(* succeeded all the same.                                                 *)
(***************************************************************************)
classify_bimodality(outcomes) ==
  CASE Len(outcomes) < 2 -> "InsufficientBuckets"
    [] Len(outcomes) >= 2 /\ {"Succeeded", "Failed"} \subseteq Range(outcomes) -> "BimodalSplitDetected"
    [] OTHER -> "NoSplitDetected"

run_udp_bucket(b) == IF b.binds /\ b.sends THEN "Succeeded" ELSE "Failed"

run_tcp_bucket(b) == IF b.binds /\ b.connects /\ b.sends THEN "Succeeded" ELSE "Failed"

(* The bucket inside the bracket binds the port a second time, so what it  *)
(* found is always replaced by the send on the outer socket.               *)
run_udp_bucket_with_stun_bracket(b) ==
  [outcome |-> run_udp_bucket(b),
   rebind |-> IF b.binds /\ b.before # "none" /\ b.after # "none" THEN b.before # b.after ELSE "none"]

ecmp_nat_run(a) ==
  LET bucket(b) == CASE a.transport = "tcp" -> [outcome |-> run_tcp_bucket(b), rebind |-> "none"]
                     [] a.transport = "udp" /\ a.stun -> run_udp_bucket_with_stun_bracket(b)
                     [] OTHER -> [outcome |-> run_udp_bucket(b), rebind |-> "none"]
      results == [i \in DOMAIN a.buckets |-> bucket(a.buckets[i])]
  IN  IF ~a.target THEN Refusal(1)
      ELSE Completed([buckets |-> results, tunnel |-> is_tunnel_interface(a.interface),
                      bimodality |-> classify_bimodality(
                                       [i \in DOMAIN results |-> results[i].outcome])])

(***************************************************************************)
(* dns-steering.  A resolver's answer is one record per type, [type, ok,   *)
(* values]; an address record is of type A or AAAA.                        *)
(***************************************************************************)
RecordTypes == <<"A", "AAAA", "HTTPS", "SVCB">>

run_dig(type, d) == [type |-> type, ok |-> d.ran /\ d.success,
                     values |-> IF d.ran /\ d.success THEN d.values ELSE {}]

query_resolver(digs) == [i \in DOMAIN RecordTypes |-> run_dig(RecordTypes[i], digs[i])]

endpoint_addresses(r) == IF r.type \in {"A", "AAAA"} THEN r.values ELSE {}

answered_addresses(results) ==
  UNION {endpoint_addresses(results[i]) : i \in Where(results, LAMBDA r : r.ok)}

(* decide_verdict.                                                         *)
decide_steering(perResolver) ==
  LET sets == Keep([i \in DOMAIN perResolver |-> answered_addresses(perResolver[i])],
                        LAMBDA s : s # {})
  IN  CASE Len(sets) < 2 -> "Inconclusive"
        [] Len(sets) >= 2 /\ \A i \in DOMAIN sets : sets[i] = sets[1] -> "Consistent"
        [] OTHER -> "Diverges"

resolver_mismatch_warning(resolvers) == Cardinality(Range(resolvers)) > 1

dns_steering_run(a) ==
  Completed(decide_steering([i \in DOMAIN a.digs |-> query_resolver(a.digs[i])]))
=============================================================================

--------------------------- MODULE PacketVerdicts ---------------------------
(***************************************************************************)
(* What the commands that look at single packets and exchanges conclude:   *)
(* STUN and TURN, TCP options and segment sizes, ECN marks, the layers of  *)
(* IPv6, HTTP versions compared leg by leg, and capture files.             *)
(***************************************************************************)
EXTENDS Evidence

(***************************************************************************)
(* STUN.  Every attempt of a run sends its request from one socket and     *)
(* takes the next datagram on it.  fate[i] says what becomes of the answer *)
(* to request i: "send_fails", "lost", "late" (after the timeout of its    *)
(* attempt), or a datagram that arrives in time, [kind, addr] with kind    *)
(* "mapped", "error", "unmapped" (a success without an address),           *)
(* "malformed" or "foreign" (not a STUN message); a late answer is a       *)
(* mapped one.                                                             *)
(***************************************************************************)

(* Mutant: the transaction identifier of the answer is not compared.       *)
parse_binding_response_any(d, txn) ==
  CASE d.kind = "foreign" -> "BadMagicCookie"
    [] d.kind = "error" -> "ErrorResponse"
    [] d.kind = "unmapped" -> "MissingMappedAddress"
    [] d.kind = "malformed" -> "MalformedAddressAttribute"
    [] OTHER -> "Mapped"

parse_binding_response(d, txn) ==
  CASE d.kind = "foreign" -> "BadMagicCookie"
    [] d.kind # "foreign" /\ d.txn # txn -> "TransactionIdMismatch"
    [] d.txn = txn /\ d.kind = "error" -> "ErrorResponse"
    [] d.txn = txn /\ d.kind = "unmapped" -> "MissingMappedAddress"
    [] d.txn = txn /\ d.kind = "malformed" -> "MalformedAddressAttribute"
    [] OTHER -> "Mapped"

(* binding_request_once: q is the socket's receive queue, i the request.   *)
(* An answer that finds an older datagram before it waits in the queue.    *)
binding_request_once(q, fate, i) ==
  LET answer == [kind |-> fate.kind, txn |-> i, addr |-> fate.addr]
      arrives == fate.kind \notin {"send_fails", "lost", "late"}
      late    == IF fate.kind = "late" THEN <<[answer EXCEPT !.kind = "mapped"]>> ELSE <<>>
      inbox   == q \o (IF arrives THEN <<answer>> ELSE <<>>)
      result  == parse_binding_response(Head(inbox), i)
  IN  CASE fate.kind = "send_fails" ->
             [queue |-> q, outcome |-> "Unreachable", addr |-> 0, txn |-> 0]
        [] fate.kind # "send_fails" /\ inbox = <<>> ->
             [queue |-> late, outcome |-> "Unreachable", addr |-> 0, txn |-> 0]
        [] OTHER ->
             [queue |-> Tail(inbox) \o late,
              outcome |-> IF result = "Mapped" THEN "Mapped" ELSE "Invalid",
              addr |-> Head(inbox).addr, txn |-> Head(inbox).txn]

run_binding_attempts(fates) ==
  LET step(st, i) ==
        LET a == binding_request_once(st.queue, fates[i], i)
        IN  [queue |-> a.queue,
             done  |-> Append(st.done, [outcome |-> a.outcome, addr |-> a.addr, txn |-> a.txn])]
  IN  FoldLeft(step, [queue |-> <<>>, done |-> <<>>], [i \in DOMAIN fates |-> i]).done

mapping_change_verdict(attempts) ==
  LET mapped == Keep(attempts, LAMBDA a : a.outcome = "Mapped")
  IN  [verdict |-> CASE mapped = <<>> -> "unavailable"
                     [] mapped # <<>> /\ \A i \in DOMAIN mapped : mapped[i].addr = mapped[1].addr ->
                          "stable"
                     [] OTHER -> "changed",
       successful |-> Len(mapped), total |-> Len(attempts)]

(* TURN.  An answer is [kind, own (carries the transaction asked), lifetime*)
(* and relayed (attributes present), code, challenge (realm and nonce)];   *)
(* kind "silent" when nothing usable was read.                             *)
parse_allocate_response(d) ==
  CASE d.kind = "foreign" \/ ~d.own -> "Invalid"
    [] d.kind = "success" /\ d.own ->
         IF d.lifetime /\ d.relayed THEN "Allocated" ELSE "Invalid"
    [] d.kind = "error" /\ d.own ->
         (CASE d.code = 401 -> "Unauthorized"
            [] d.code \in {441, 438} -> "CredentialsRejected"
            [] OTHER -> "Invalid")
    [] OTHER -> "Invalid"

turn_allocate(credentials, first, second) ==
  CASE ~credentials -> "NoCredentialsSupplied"
    [] credentials /\ first.kind = "silent" -> "Unreachable"
    [] credentials /\ first.kind \notin {"silent", "error"} -> parse_allocate_response(first)
    [] credentials /\ first.kind = "error" /\ ~first.challenge -> "Invalid"
    [] credentials /\ first.kind = "error" /\ first.challenge /\ second.kind = "silent" ->
         "Unreachable"
    [] OTHER -> parse_allocate_response(second)

run_turn(t) ==
  CASE ~t.asked -> "none"
    [] t.asked /\ ~t.resolves -> "unreachable"
    [] t.asked /\ t.resolves /\ t.transport = "tls" -> "unavailable"
    [] t.asked /\ t.resolves /\ t.transport # "tls" /\ ~t.socket -> "unreachable"
    [] OTHER -> turn_allocate(t.credentials, t.first, t.second)

stun_run(a) ==
  IF ~a.resolves \/ ~a.bound THEN Refusal(1)
  ELSE LET attempts == run_binding_attempts(a.fates)
       IN  Completed([bindings |-> attempts, change |-> mapping_change_verdict(attempts),
                      turn |-> run_turn(a.turn)])

(***************************************************************************)
(* TCP options and segment sizes.                                          *)
(***************************************************************************)
NORMAL_TCP_OPTION_ALLOWANCE == 40
NetworkHeaders(v6) == IF v6 THEN 60 ELSE 40

tcp_options_echo_test(a) ==
  LET expected == Larger(a.route_mtu - NetworkHeaders(a.v6), 0)
  IN  CASE ~a.resolves -> "Failed"
        [] a.resolves /\ ~a.connects -> "Failed"
        [] a.resolves /\ a.connects /\ ~Known(a.route_mtu) -> "Success_inconclusive"
        [] a.resolves /\ a.connects /\ Known(a.route_mtu)
           /\ expected - a.mss > NORMAL_TCP_OPTION_ALLOWANCE -> "Warning"
        [] OTHER -> "Success"

(* One size: the answer is needed on port 80 only.                         *)
test_tcp_segment_size(port, s) ==
  s.connects /\ s.written /\ (port = 80 => s.answered)

(* a.open is the set of ports that accept, a.sizes the trials in order.    *)
tcp_segmentation_test(a) ==
  LET port == IF 443 \in a.open THEN 443 ELSE 80
      ok   == {a.sizes[i].size : i \in Where(a.sizes, LAMBDA s : test_tcp_segment_size(port, s))}
      bad  == {a.sizes[i].size : i \in Where(a.sizes, LAMBDA s : ~test_tcp_segment_size(port, s))}
  IN  CASE a.open \cap {443, 80} = {} -> [status |-> "Failed", diagnosis |-> "none"]
        [] a.open \cap {443, 80} # {} /\ ok = {} -> [status |-> "Failed", diagnosis |-> "none"]
        [] ok # {} /\ bad # {} ->
             [status |-> "Warning",
              diagnosis |-> CASE Max(ok) < 536 -> "Critical"
                              [] Max(ok) >= 536 /\ Max(ok) < 1460 -> "Warning"
                              [] OTHER -> "none"]
        [] OTHER -> [status |-> "Success", diagnosis |-> "none"]

(***************************************************************************)
(* ECN marks.  A frame is "other", or an IP packet with one of the four    *)
(* codepoints.                                                             *)
(***************************************************************************)
Codepoints == {"NotEct", "Ect1", "Ect0", "Ce"}

ecn_counts(frames) == [c \in Codepoints |-> Count(frames, LAMBDA f : f = c)]

ecn_capable_observed(n) == n["Ect0"] > 0 \/ n["Ect1"] > 0

ecn_scheme(n) ==
  CASE n["Ect0"] > 0 /\ n["Ect1"] > 0 -> "Mixed"
    [] n["Ect0"] > 0 /\ n["Ect1"] = 0 -> "Classic"
    [] n["Ect0"] = 0 /\ n["Ect1"] > 0 -> "L4s"
    [] OTHER -> "NoneObserved"

evaluate_capability_without_marking(n) ==
  CASE ecn_capable_observed(n) /\ n["Ce"] = 0 -> "capable_unmarked"
    [] ecn_capable_observed(n) /\ n["Ce"] > 0 -> "capable_marked"
    [] OTHER -> "unknown"

correlate_ce_with_queue_delay(s) == s.ce > 0 /\ Known(s.delay)

attempt_set_ecn(s) == s.codepoint \in {"ect0", "ect1"} /\ s.bound /\ s.set /\ s.confirmed /\ s.sent

ecn_aqm_run(a) ==
  LET n == ecn_counts(a.frames)
  IN  IF a.capture \in {"unreadable", "unparsable"} THEN Refusal(1)
      ELSE Completed([tunnel  |-> a.interface = "tunnel",
                      scheme  |-> IF a.capture = "none" THEN "none" ELSE ecn_scheme(n),
                      finding |-> IF a.capture = "none" THEN "none"
                                  ELSE evaluate_capability_without_marking(n),
                      set     |-> IF a.set.codepoint = "none" THEN "none"
                                  ELSE IF attempt_set_ecn(a.set) THEN "applied" ELSE "refused"])

(***************************************************************************)
(* The layers of IPv6.                                                     *)
(***************************************************************************)
Layers == {"global_address", "link_local_address", "router_advertisement", "dhcpv6",
           "default_route", "neighbor_discovery", "dns_aaaa", "native_reachability",
           "ipv6_pmtu", "nat64_prefix", "dns64"}

(* The first link-local and the first other address of the interface.      *)
parse_inet6(addrs) ==
  [global |-> FirstOr(addrs, LAMBDA x : x # "fe80", "none"),
   link   |-> FirstOr(addrs, LAMBDA x : x = "fe80", "none")]

(* An answer of ipv4only.arpa that embeds 192.0.0.170 or .171.             *)
nat64_prefix_from_answer(answer) == answer = "embedded"

nat64_layers(answers) ==
  CASE answers = {} -> [prefix |-> "failed", dns64 |-> "failed"]
    [] \E x \in answers : nat64_prefix_from_answer(x) -> [prefix |-> "ok", dns64 |-> "ok"]
    [] OTHER -> [prefix |-> "unavailable", dns64 |-> "ok"]

(* e.route and e.ndp are what the tools said: "ok", "empty", "error".      *)
validate_layers(e) ==
  LET addr   == parse_inet6(IF e.ifconfig THEN e.addrs ELSE <<>>)
      global == addr.global # "none"
      tool(x) == CASE x = "ok" -> "ok" [] x = "empty" -> "failed" [] OTHER -> "unavailable"
      nat64  == nat64_layers(e.arpa)
  IN  [l \in Layers |->
         CASE l = "global_address" -> IF global THEN "ok" ELSE "failed"
           [] l = "link_local_address" -> IF addr.link # "none" THEN "ok" ELSE "failed"
           [] l = "router_advertisement" -> IF global THEN "ok" ELSE "unavailable"
           [] l \in {"dhcpv6", "ipv6_pmtu"} -> "unavailable"
           [] l = "default_route" -> tool(e.route)
           [] l = "neighbor_discovery" -> tool(e.ndp)
           [] l = "dns_aaaa" -> IF e.aaaa THEN "ok" ELSE "failed"
           [] l = "native_reachability" ->
                IF ~e.aaaa \/ ~global THEN "unavailable"
                ELSE IF e.reachable THEN "ok" ELSE "failed"
           [] l = "nat64_prefix" -> nat64.prefix
           [] l = "dns64" -> nat64.dns64]

failed_layers(v) == {l \in Layers : v[l] = "failed"}

ipv6_validation(e) ==
  LET v == validate_layers(e)
  IN  [layers |-> v,
       ipv4 |-> CASE ~e.a -> "not_evaluated" [] e.a /\ e.reachable4 -> "usable"
                  [] OTHER -> "not_completed",
       ipv6 |-> IF failed_layers(v) = {} THEN "no layer failed" ELSE "unusable"]

(* Connect times of the first address of each family, Missing if none.     *)
happy_eyeballs(h) ==
  [winner |-> CASE Known(h.v6) /\ (~Known(h.v4) \/ h.v6 <= h.v4) -> "ipv6"
                [] Known(h.v4) /\ (~Known(h.v6) \/ h.v4 < h.v6) -> "ipv4"
                [] OTHER -> "none",
   fallback |-> IF Known(h.v6) /\ Known(h.v4) THEN Distance(h.v6, h.v4) ELSE Missing,
   failure |-> CASE h.offers6 /\ ~Known(h.v6) /\ Known(h.v4) -> "ipv6"
                 [] h.offers4 /\ ~Known(h.v4) /\ Known(h.v6) -> "ipv4"
                 [] OTHER -> "none"]

ipv6_validate_run(e) ==
  Completed([validation |-> ipv6_validation(e),
             race |-> IF e.raced THEN {happy_eyeballs(e.race)} ELSE {}])

(***************************************************************************)
(* HTTP versions compared.  A leg's transfer is [spawned, exited (zero),   *)
(* status, down, up (bytes, Missing when unparsable), ip, final (host of   *)
(* the last URL, "none" when it is the one requested)]; ended is FALSE when*)
(* curl outlived the watchdog.                                             *)
(***************************************************************************)
MIN_VALID_TRANSFER_BYTES == 16384

(* curls: the candidates in order, [works, h3].                            *)
select_curl_for(protocol, curls) ==
  \E i \in DOMAIN curls : curls[i].works /\ (protocol = "http3" => curls[i].h3)

run_curl_watched(t) == t.spawned /\ t.ended

SuccessStatus(s) == s >= 200 /\ s < 300

failed_leg == [loss |-> "TransferFailed", bytes |-> Missing, ip |-> "none", final |-> "none"]

transferred_bytes(direction, t) == IF direction = "upload" THEN t.up ELSE t.down

run_leg(protocol, direction, curls, t) ==
  LET bytes  == transferred_bytes(direction, t)
      enough == Known(bytes) /\ bytes >= MIN_VALID_TRANSFER_BYTES
      loss   == CASE ~Known(t.status) -> "TransferFailed"
                  [] Known(t.status) /\ ~SuccessStatus(t.status) -> "NonSuccessStatus"
                  [] SuccessStatus(t.status) /\ ~enough -> "BodyTooSmall"
                  [] OTHER -> "Clean"
  IN  IF ~select_curl_for(protocol, curls) \/ ~run_curl_watched(t) \/ ~t.exited THEN failed_leg
      ELSE [loss |-> loss, bytes |-> IF loss = "Clean" THEN bytes ELSE Missing,
            ip |-> t.ip, final |-> t.final]

confidence_for(legs) ==
  IF legs # {} /\ \A l \in legs : l.loss = "Clean" THEN "Medium" ELSE "Low"

(* detect_endpoint_mismatch: ips in the order of the legs.                 *)
leg_endpoint_mismatch(ips) == \E i \in DOMAIN ips : ips[i] # ips[1]

detect_redirect_host_drift(host, finals) == \E h \in finals : h \notin {host, "none"}

(* The legs of one protocol p: its download, its upload when the body could*)
(* be written, and both at once when asked.                                *)
legs_of(a, p) ==
  LET leg(name, direction) == run_leg(p.protocol, direction, a.curls, p.transfer[name])
  IN  <<leg("download", "download")>>
      \o (IF a.body THEN <<leg("upload", "upload")>> ELSE <<>>)
      \o (IF a.simultaneous THEN <<leg("both_down", "both")>> ELSE <<>>)
      \o (IF a.simultaneous /\ a.body THEN <<leg("both_up", "both")>> ELSE <<>>)

comparison_of(host, legs) ==
  LET all  == FlattenSeq(legs)
      ips  == Keep([i \in DOMAIN all |-> all[i].ip], LAMBDA x : x # "none")
  IN  [protocols |-> [i \in DOMAIN legs |->
                        [legs |-> legs[i], confidence |-> confidence_for(Range(legs[i]))]],
       mismatch  |-> leg_endpoint_mismatch(ips),
       redirected |-> detect_redirect_host_drift(host, {all[i].final : i \in DOMAIN all})]

run_comparison(a) ==
  LET skipped(p) == p.protocol = "http3" /\ p.preflight = "Unsupported"
  IN  comparison_of(a.host, [i \in DOMAIN a.protocols |->
        IF skipped(a.protocols[i]) THEN <<>> ELSE legs_of(a, a.protocols[i])])

protocol_compare_run(a) == Completed(run_comparison(a))

(***************************************************************************)
(* Capture files.  A packet is [orig, captured, at, net ("bad" when no IP  *)
(* layer parses), transport, src, dst (endpoints: numbers), port443, long  *)
(* (first bit of the UDP payload), checksum ("zero", "wrong" or "right"),  *)
(* v4, seq, len, isack, ack].                                              *)
(***************************************************************************)
oversize_threshold == 1500 + 14
MAX_TRACKED_FLOWS == 200000
MAX_TCP_SAMPLE_PACKETS == 2000000

NoDirection == [seen |-> FALSE, max |-> Missing, last |-> Missing, run |-> 0]

Accumulator ==
  [packets |-> 0, bytes |-> 0, truncated |-> FALSE, max |-> 0, oversize |-> 0,
   min_ts |-> Missing, max_ts |-> Missing, srcs |-> {}, dsts |-> {},
   kinds |-> [k \in {"tcp", "udp", "icmp", "other"} |-> 0], quic |-> 0, udp_flows |-> {},
   sampled |-> 0, bad |-> 0, flows |-> <<>>, retransmissions |-> 0, out_of_order |-> 0,
   duplicate_acks |-> 0]

FlowKey(p) == <<Smaller(p.src, p.dst), Larger(p.src, p.dst)>>

classify_protocol(acc, p) ==
  LET kind == IF p.net = "bad" \/ p.transport = "none" THEN "other" ELSE p.transport
  IN  [acc EXCEPT !.kinds[kind] = @ + 1,
                  !.udp_flows = IF kind = "udp" THEN @ \union {FlowKey(p)} ELSE @,
                  !.quic = IF kind = "udp" /\ (p.port443 \/ p.long) THEN @ + 1 ELSE @]

(* The state of one direction of a flow after a segment.  A duplicate ACK  *)
(* counts from the second repetition on.                                   *)
after_segment(d, p) ==
  LET data == p.len > 0
      pure == p.isack /\ p.len = 0
      same == d.last = p.ack
  IN  [seen |-> TRUE,
       max  |-> IF data THEN Larger(Larger(d.max, 0), p.seq + p.len) ELSE d.max,
       last |-> IF pure THEN p.ack ELSE d.last,
       run  |-> CASE pure /\ same -> d.run + 1 [] pure /\ ~same -> 0 [] OTHER -> d.run]

is_retransmission(d, p) == p.len > 0 /\ Known(d.max) /\ p.seq + p.len <= d.max
is_out_of_order(d, p) ==
  p.len > 0 /\ Known(d.max) /\ p.seq + p.len > d.max /\ p.seq < Larger(d.max - p.len, 0)
is_duplicate_ack(d, p) == p.isack /\ p.len = 0 /\ d.last = p.ack /\ d.run + 1 >= 2

checksum_bad(p) == p.checksum = "zero"
                   \/ (p.captured = p.orig /\ p.v4 /\ p.checksum = "wrong")

one_if(b) == IF b THEN 1 ELSE 0

inspect_packet(acc, p) ==
  LET key   == FlowKey(p)
      side  == IF p.src <= p.dst THEN "a" ELSE "b"
      ends  == [acc EXCEPT !.srcs = @ \union {p.src}, !.dsts = @ \union {p.dst}]
      tcp   == [ends EXCEPT !.sampled = @ + 1, !.bad = @ + one_if(checksum_bad(p))]
      flow  == IF key \in DOMAIN acc.flows THEN acc.flows[key]
               ELSE [s \in {"a", "b"} |-> NoDirection]
      d     == flow[side]
      track == Cardinality(DOMAIN acc.flows) < MAX_TRACKED_FLOWS \/ key \in DOMAIN acc.flows
  IN  CASE p.net = "bad" -> acc
        [] p.net # "bad" /\ p.transport # "tcp" -> ends
        [] p.net # "bad" /\ p.transport = "tcp" /\ ~track -> tcp
        [] OTHER ->
             [tcp EXCEPT
                !.flows = [k \in DOMAIN acc.flows \union {key} |->
                             IF k = key THEN [flow EXCEPT ![side] = after_segment(d, p)]
                             ELSE acc.flows[k]],
                !.retransmissions = @ + one_if(is_retransmission(d, p)),
                !.out_of_order    = @ + one_if(is_out_of_order(d, p)),
                !.duplicate_acks  = @ + one_if(is_duplicate_ack(d, p))]

observe(acc, p) ==
  LET seen == [acc EXCEPT !.packets = @ + 1, !.bytes = @ + p.orig,
                 !.min_ts = IF Known(p.at) /\ (~Known(@) \/ p.at < @) THEN p.at ELSE @,
                 !.max_ts = Larger(@, p.at),
                 !.truncated = @ \/ p.captured < p.orig,
                 !.max = Larger(@, Larger(p.captured, p.orig)),
                 !.oversize = @ + one_if(p.orig > oversize_threshold)]
      kind == classify_protocol(seen, p)
  IN  IF kind.sampled >= MAX_TCP_SAMPLE_PACKETS THEN kind ELSE inspect_packet(kind, p)

classify_vantage(acc, nic) ==
  LET flows == DOMAIN acc.flows
      bidir == {k \in flows : acc.flows[k]["a"].seen /\ acc.flows[k]["b"].seen}
      both  == 10 * Cardinality(bidir) > 4 * Cardinality(flows)
      host  == (IF acc.oversize > 0 THEN 3 ELSE 0)
               + (IF acc.sampled > 0 /\ 100 * acc.bad > 5 * acc.sampled THEN 2 ELSE 0)
               + one_if(flows # {} /\ both) + one_if(nic)
      wire  == one_if(flows # {} /\ ~both)
  IN  CASE host >= 5 -> [vantage |-> "HostOffloadSuspect", confidence |-> "High"]
        [] host \in 3..4 -> [vantage |-> "HostOffloadSuspect", confidence |-> "Medium"]
        [] host < 3 /\ wire > host -> [vantage |-> "OnWireMirrorOrTap", confidence |-> "Low"]
        [] host \in 1..2 /\ wire <= host -> [vantage |-> "HostOffloadSuspect", confidence |-> "Low"]
        [] OTHER -> [vantage |-> "Unknown", confidence |-> "Low"]

finish(acc, nic, drops) ==
  LET v == classify_vantage(acc, nic)
  IN  [vantage |-> v, truncated |-> acc.truncated, drops |-> drops, packets |-> acc.packets,
       kinds |-> acc.kinds, retransmissions |-> acc.retransmissions,
       out_of_order |-> acc.out_of_order, duplicate_acks |-> acc.duplicate_acks,
       duration |-> IF Known(acc.min_ts) THEN acc.max_ts - acc.min_ts ELSE Missing,
       qualification_required |-> v.vantage = "HostOffloadSuspect",
       payload_analysis_suppressed |-> acc.truncated]

(* A packet that cannot be read fails the file.                            *)
pcap_opens(f) == f.format \in {"pcap", "pcapng"} /\ f.readable

(* analyze_pcap of a file that opens: the drops are known only to a pcapng *)
(* file that carries interface statistics.                                 *)
analyze_pcap(f) ==
  finish(FoldLeft(observe, Accumulator, f.packets), f.format = "pcapng" /\ f.nic,
         IF f.format = "pcapng" /\ f.statistics THEN f.drops ELSE Missing)

compare_reports(reports) ==
  [any_offload_suspect |-> \E i \in DOMAIN reports : reports[i].qualification_required,
   truncated |-> \E i \in DOMAIN reports : reports[i].truncated,
   drops_unknown |-> \E i \in DOMAIN reports : ~Known(reports[i].drops)]

pcap_outcome(a, reports) ==
  IF reports = <<>> /\ a.files # <<>> THEN Refusal(1)
  ELSE Completed([reports |-> reports,
                  comparison |-> IF a.compare \/ Len(reports) > 1
                                 THEN {compare_reports(reports)} ELSE {}])

pcap_report_run(a) ==
  LET opened  == Keep(a.files, pcap_opens)
  IN  pcap_outcome(a, [i \in DOMAIN opened |-> analyze_pcap(opened[i])])

(***************************************************************************)
(* A bounded capture: ticks of 100 ms, at each of which tcpdump has exited *)
(* or not and the first output file has a size.                            *)
(***************************************************************************)
tcpdump_binary(c) == c.env \/ c.installed

CaptureEnds(c, i) == c.ticks[i].exit # "running" \/ i > c.duration \/ c.ticks[i].bytes >= c.max_bytes

run_bounded_capture(c) ==
  LET ends == {i \in DOMAIN c.ticks : CaptureEnds(c, i)}
      t    == c.ticks[Min(ends)]
  IN  CASE ~tcpdump_binary(c) -> "ToolMissing"
        [] tcpdump_binary(c) /\ ~c.spawned -> "SpawnFailed"
        [] tcpdump_binary(c) /\ c.spawned /\ ends = {} -> "DurationElapsed"
        [] OTHER ->
             (CASE t.exit = "denied" -> "PrivilegeRequired"
                [] t.exit = "error" -> "ExitedWithError"
                [] t.exit = "zero" -> "ProcessExited"
                [] t.exit = "running" /\ Min(ends) > c.duration -> "DurationElapsed"
                [] OTHER -> "ByteCapReached")

capture_run(c) ==
  LET r == run_bounded_capture(c)
  IN  IF r \in {"ToolMissing", "SpawnFailed", "PrivilegeRequired", "ExitedWithError"} THEN Refusal(1)
      ELSE Completed(r)
=============================================================================

----------------------------- MODULE Diagnosis ------------------------------
(***************************************************************************)
(* The rule engine of src/diagnosis, the windows and thresholds of         *)
(* src/noc_metrics that two of its rules use, and the three commands that  *)
(* turn a set of tests into one recommendation: diagnose, report and       *)
(* kitchen-sink.                                                           *)
(***************************************************************************)
EXTENDS EvidenceVerdicts

(***************************************************************************)
(* Windows.  A sample is [at, value]; what a window function computes is a *)
(* fraction <<numerator, denominator>>, NoValue of an empty window.        *)
(***************************************************************************)
NoValue == <<Missing, 1>>

sorted_values(w) == SortedBy(w, LAMBDA a : a.at)

window_sum(w) == Total([i \in DOMAIN w |-> w[i].value])

percentile(w, q) ==
  LET v    == SortedBy([i \in DOMAIN w |-> w[i].value], LAMBDA x : x)
      rank == q * (Len(v) - 1)
      lo   == rank \div 100 + 1
      f    == rank % 100
  IN  IF f = 0 THEN <<v[lo], 1>> ELSE <<v[lo] * (100 - f) + v[lo + 1] * f, 100>>

(* The sums of the rises and of the falls, each as a positive number.      *)
window_steps(w) ==
  LET s == sorted_values(w)
      d == [i \in 1..(Len(s) - 1) |-> s[i + 1].value - s[i].value]
  IN  [up   |-> SumAt(d, {i \in DOMAIN d : d[i] > 0}),
       down |-> -SumAt(d, {i \in DOMAIN d : d[i] < 0})]

Quantile == [q1 |-> 25, q2 |-> 50, median |-> 50, q3 |-> 75, p95 |-> 95, p99 |-> 99]

apply_window(name, w) ==
  IF w = <<>> THEN NoValue
  ELSE CASE name = "last" -> <<Last(sorted_values(w)).value, 1>>
         [] name = "sum" -> <<window_sum(w), 1>>
         [] name = "avg" -> <<window_sum(w), Len(w)>>
         [] name \in DOMAIN Quantile -> percentile(w, Quantile[name])
         [] name = "step_inc" -> <<window_steps(w).up, 1>>
         [] name = "step_dec" -> <<window_steps(w).down, 1>>
         [] name = "step_abs" -> <<window_steps(w).up + window_steps(w).down, 1>>

(***************************************************************************)
(* Thresholds with a value to open at and another to clear at.             *)
(***************************************************************************)
compare_op(op, v, t) ==
  CASE op = "Lt" -> v[1] < t * v[2]
    [] op = "Le" -> v[1] <= t * v[2]
    [] op = "Ge" -> v[1] >= t * v[2]
    [] op = "Gt" -> v[1] > t * v[2]

is_open_match(t, v)  == compare_op(t.op, v, t.value)
is_clear_match(t, v) == compare_op(t.clear_op, v, t.clear_value)

select_window(profile, samples) ==
  LET s == sorted_values(samples)
      n == Larger(profile.window, 1)
  IN  CASE profile.window_type = "Measurements" -> SubSeq(s, Larger(Len(s) - n, 0) + 1, Len(s))
        [] OTHER -> Keep(s, LAMBDA x : x.at >= Last(s).at - Larger(profile.window, 0))

window_value(profile, samples) ==
  apply_window(profile.window_function, select_window(profile, samples))

(* The first threshold that opens, 0 when none does.                       *)
first_open(profile, v) ==
  LET open == Where(profile.thresholds, LAMBDA t : v # NoValue /\ is_open_match(t, v))
  IN  IF open = {} THEN 0 ELSE Min(open)

evaluate_threshold(profile, samples) == first_open(profile, window_value(profile, samples))

(* ThresholdState::evaluate: the threshold open after one more evaluation. *)
next_open(profile, open, v) ==
  CASE v = NoValue -> open
    [] v # NoValue /\ open # 0 -> IF is_clear_match(profile.thresholds[open], v) THEN 0 ELSE open
    [] OTHER -> first_open(profile, v)

(* The thresholds reported while the samples come in one by one.           *)
threshold_history(profile, samples) ==
  LET step(h, k) ==
        Append(h, next_open(profile, IF h = <<>> THEN 0 ELSE Last(h),
                            window_value(profile, SubSeq(samples, 1, k))))
  IN  FoldLeft(step, <<>>, [k \in DOMAIN samples |-> k])

(* Losses in tenths of a percent, round trips in ms.                       *)
packet_loss_profile ==
  [window_type |-> "Measurements", window |-> 5, window_function |-> "avg",
   thresholds |-> <<[label |-> "high", op |-> "Ge", value |-> 100, clear_op |-> "Lt", clear_value |-> 80],
                    [label |-> "medium", op |-> "Ge", value |-> 10, clear_op |-> "Lt", clear_value |-> 5]>>]

latency_profile ==
  [window_type |-> "Measurements", window |-> 5, window_function |-> "avg",
   thresholds |-> <<[label |-> "medium", op |-> "Gt", value |-> 200, clear_op |-> "Le", clear_value |-> 180]>>]

(***************************************************************************)
(* The step of a ladder of units [label, divisor], in rising order of the  *)
(* divisor; the one that shows a number without a prefix has divisor 1.    *)
(***************************************************************************)
humanize(value, ladder) ==
  LET fits == Where(ladder, LAMBDA s : Distance(value, 0) >= s.divisor)
  IN  CASE ladder = <<>> -> ""
        [] ladder # <<>> /\ value = 0 -> FirstOr(ladder, LAMBDA s : s.divisor = 1, ladder[1]).label
        [] OTHER -> IF fits = {} THEN ladder[1].label ELSE ladder[Max(fits)].label

SI_SCALES == <<[label |-> "", divisor |-> 1], [label |-> "k", divisor |-> 1000],
               [label |-> "M", divisor |-> 1000000], [label |-> "G", divisor |-> 1000000000]>>
BINARY_SCALES == <<[label |-> "", divisor |-> 1], [label |-> "Ki", divisor |-> 1024],
                   [label |-> "Mi", divisor |-> 1048576], [label |-> "Gi", divisor |-> 1073741824]>>

(***************************************************************************)
(* The rules.  The evidence is a record of options; ssh, icmp_frag, dns_ok,*)
(* ping_ok and tcp_ok are "yes", "no" or "none".                           *)
(***************************************************************************)
NoDiagnosis == [issue |-> "none", severity |-> "none"]
Finding(issue, severity) == [issue |-> issue, severity |-> severity]

(* The MTU the rule recommends: a measured one less a margin of 100, in an *)
(* unsigned subtraction that wraps below it (and panics in a debug build). *)
suggested_mtu(e) ==
  LET m == IF Known(e.tcp_mtu) THEN e.tcp_mtu ELSE e.icmp_mtu
  IN  CASE ~Known(m) -> 1400 [] Known(m) /\ m < 100 -> "wrapped" [] OTHER -> m - 100

MtuBlackholeRule(e) ==
  IF e.https.tcp_success /\ e.https.diagnosis = "TlsTimeout" /\ e.interface_mtu >= 1500
  THEN [issue |-> "MtuBlackhole", severity |-> "Critical", mtu |-> suggested_mtu(e)]
  ELSE NoDiagnosis

PathMtuMismatchRule(e) ==
  IF Known(e.interface_mtu) /\ Known(e.icmp_mtu) /\ e.interface_mtu - e.icmp_mtu > 50
  THEN Finding("PathMtuMismatch", "High") ELSE NoDiagnosis

PortBlockingRule(e) ==
  IF e.ping_ok = "yes" /\ e.tcp_ok = "no" THEN Finding("PortBlocking", "High") ELSE NoDiagnosis

DnsIssuesRule(e) ==
  CASE e.dns_ok = "no" -> Finding("DnsFailure", "Critical")
    [] e.dns_ok # "no" /\ e.dns_ms > 1000 -> Finding("DnsFailure", "Medium")
    [] OTHER -> NoDiagnosis

TcpSegmentationLimitRule(e) ==
  IF Known(e.tcp_segment_limit) /\ e.tcp_segment_limit < 1000
  THEN Finding("TcpSegmentationLimit", "High") ELSE NoDiagnosis

(* The series when there is one, else the single figure.                   *)
series_or(samples, single) ==
  IF samples # <<>> THEN samples
  ELSE IF Known(single) THEN <<[at |-> 0, value |-> single]>> ELSE <<>>

loss_finding == [n \in 0..2 |-> CASE n = 1 -> Finding("PacketLoss", "High")
                                  [] n = 2 -> Finding("PacketLoss", "Medium")
                                  [] OTHER -> NoDiagnosis]

HighPacketLossRule(e) ==
  loss_finding[evaluate_threshold(packet_loss_profile, series_or(e.loss_samples, e.loss))]

HighLatencyRule(e) ==
  IF evaluate_threshold(latency_profile, series_or(e.rtt_samples, e.rtt)) # 0
  THEN Finding("HighLatency", "Medium") ELSE NoDiagnosis

blackhole_score(e) ==
  LET mtu == IF Known(e.icmp_mtu) THEN e.icmp_mtu ELSE e.tcp_mtu
      points(n, b) == IF b THEN n ELSE 0
  IN  points(2, Known(mtu) /\ mtu < 1500) + points(2, Known(mtu) /\ mtu < 1400)
      + points(3, e.https.tcp_success
                  /\ e.https.diagnosis \in {"TlsTimeout", "HttpResponseTimeout", "MtuBlackhole"})
      + points(3, e.upload_fails) + points(3, e.ssh_banner = "yes" /\ e.ssh_exec = "no")
      + points(3, e.printer_fails) + points(2, e.icmp_frag = "yes")

severity_for_score(score) ==
  CASE score >= 6 -> "Critical" [] score \in 3..5 -> "High" [] OTHER -> "Info"

BlackholeScoreRule(e) ==
  IF blackhole_score(e) = 0 THEN NoDiagnosis
  ELSE Finding("BlackholeScore", severity_for_score(blackhole_score(e)))

Rules(e) == <<MtuBlackholeRule(e), PathMtuMismatchRule(e), PortBlockingRule(e), DnsIssuesRule(e),
              TcpSegmentationLimitRule(e), HighPacketLossRule(e), HighLatencyRule(e),
              BlackholeScoreRule(e)>>

(* The derived order of the enumeration.                                   *)
SeverityRank == [s \in {"Critical", "High", "Medium", "Low", "Info"} |->
                   CASE s = "Critical" -> 0 [] s = "High" -> 1 [] s = "Medium" -> 2
                     [] s = "Low" -> 3 [] OTHER -> 4]

(* A stable sort by b.severity.cmp(&a.severity): descending ranks.         *)
by_severity(found) ==
  LET at(r) == Keep(found, LAMBDA d : SeverityRank[d.severity] = r)
  IN  at(4) \o at(3) \o at(2) \o at(1) \o at(0)

diagnose_evidence(e) == by_severity(Keep(Rules(e), LAMBDA d : d # NoDiagnosis))

(* render_unified_report: the likelihood and the clamp it suggests.        *)
unified_report(e) ==
  LET score == blackhole_score(e)
      mtu   == IF Known(e.icmp_mtu) THEN e.icmp_mtu ELSE e.tcp_mtu
  IN  [likely |-> IF score >= 6 THEN "high" ELSE IF score >= 3 THEN "moderate" ELSE "low",
       clamp  |-> IF Known(mtu) THEN Larger(Larger(mtu - 40, 0) - 20, 1200) ELSE Missing,
       ranked |-> diagnose_evidence(e)]

NoEvidence ==
  [https |-> [tcp_success |-> FALSE, diagnosis |-> "none"], interface_mtu |-> Missing,
   icmp_mtu |-> Missing, tcp_mtu |-> Missing, tcp_segment_limit |-> Missing, ping_ok |-> "none",
   tcp_ok |-> "none", dns_ok |-> "none", dns_ms |-> Missing, loss |-> Missing, rtt |-> Missing,
   loss_samples |-> <<>>, rtt_samples |-> <<>>, upload_fails |-> FALSE, ssh_banner |-> "none",
   ssh_exec |-> "none", printer_fails |-> FALSE, icmp_frag |-> "none"]

(* report: a test that could not run leaves its part of the evidence empty.*)
(* The TLS handshake stands for the TCP connection.                        *)
report_run(a) ==
  LET ran(t) == t \in a.ran
  IN  Completed(unified_report(
        [NoEvidence EXCEPT
           !.tcp_ok = IF ran("https") THEN a.tls ELSE @,
           !.loss = IF ran("rtt") THEN a.loss ELSE @, !.rtt = IF ran("rtt") THEN a.rtt ELSE @,
           !.upload_fails = ran("upload") /\ a.upload_fails,
           !.ssh_banner = IF ran("ssh") THEN a.ssh_banner ELSE @,
           !.ssh_exec = IF ran("ssh") THEN a.ssh_exec ELSE @,
           !.printer_fails = ran("printer") /\ a.printer_fails]))

(* https --diagnose: the engine on the HTTPS result alone, with an assumed *)
(* interface MTU of 1500.                                                  *)
https_diagnose(https) ==
  diagnose_evidence([NoEvidence EXCEPT !.https = https, !.interface_mtu = 1500])

(***************************************************************************)
(* diagnose: the stages in order, and what they recommend.                 *)
(***************************************************************************)
safe_mtu(icmp, tcp) ==
  CASE Known(icmp) /\ Known(tcp) -> Smaller(icmp, tcp)
    [] Known(icmp) /\ ~Known(tcp) -> icmp
    [] OTHER -> tcp

diagnose_run(a) ==
  LET icmp == IF a.ping THEN a.icmp_mtu ELSE Missing
      tcp  == IF a.tcp THEN a.tcp_mtu ELSE Missing
      safe == safe_mtu(icmp, tcp)
  IN  IF ~a.resolves THEN Completed([safe |-> Missing, recommendations |-> {"fix_dns"}])
      ELSE Completed(
        [safe |-> safe,
         recommendations |->
           {r \in {"icmp_blocked", "fix_port", "black_hole", "mismatch", "no_change", "set_mtu"} :
              CASE r = "icmp_blocked" -> ~a.ping
                [] r = "fix_port" -> ~a.tcp
                [] r = "black_hole" -> a.port = 443 /\ ~a.fetched /\ a.ping /\ a.tcp
                [] r = "mismatch" -> Known(icmp) /\ Known(tcp) /\ icmp > tcp + 100
                [] r = "no_change" -> safe >= 1500
                [] OTHER -> Known(safe) /\ safe < 1500}])

(***************************************************************************)
(* kitchen-sink.  A target is [port, resolves, icmp, tcp, udp, quic]; the  *)
(* figures are Missing where the probe found nothing.                      *)
(***************************************************************************)
DEFAULT_REQUIRED_COVERAGE == 70

(* The figures of one target, restricted to the probes its port allows.    *)
target_mtus(t) ==
  Keep(<<IF t.resolves THEN t.icmp ELSE Missing,
              IF t.port > 0 THEN t.tcp ELSE Missing,
              IF t.resolves /\ t.port = 0 THEN t.udp ELSE Missing,
              IF t.port = 443 THEN t.quic ELSE Missing>>, Known)

any_applicable(t) == t.resolves \/ t.port > 0

target_coverage(targets) ==
  LET measured == Count(targets, LAMBDA t : target_mtus(t) # <<>>)
      missed   == Count(targets, LAMBDA t : target_mtus(t) = <<>> /\ any_applicable(t))
  IN  [measured |-> measured, no_answer |-> missed, attempted |-> Len(targets)]

percent_at_least(v, mtu, pct) == 100 * Count(v, LAMBDA m : m >= mtu) >= pct * Len(v)

kitchen_sink_verdict(v) ==
  LET median == v[Len(v) \div 2 + 1]
  IN  CASE percent_at_least(v, 1500, 95) /\ v[1] >= 1400 -> "PASS"
        [] ~(percent_at_least(v, 1500, 95) /\ v[1] >= 1400)
           /\ percent_at_least(v, 1500, 80) /\ median >= 1400 -> "PASS"
        [] ~percent_at_least(v, 1500, 80) /\ median >= 1400 -> "REVIEW"
        [] OTHER -> "ACTION_NEEDED"

consensus_mtu(v) == IF percent_at_least(v, 1500, 90) THEN 1500 ELSE v[Len(v) \div 2 + 1]

(* The first drop of the MTU between two hops that state one.              *)
first_mtu_drop(hops) ==
  LET stated == Keep(hops, Known)
      drops  == {i \in 2..Len(stated) : stated[i] < stated[i - 1]}
  IN  IF drops = {} THEN Missing ELSE stated[Min(drops)]

kitchen_sink_run(a) ==
  LET mtus    == FlattenSeq([i \in DOMAIN a.targets |-> target_mtus(a.targets[i])])
      v       == SortedBy(mtus, LAMBDA x : x)
      enough  == classify_coverage(target_coverage(a.targets), DEFAULT_REQUIRED_COVERAGE)
      verdict == IF enough = "Sufficient" THEN kitchen_sink_verdict(v) ELSE "none"
  IN  IF mtus = <<>> THEN Completed([verdict |-> "none", json |-> FALSE])
      ELSE Completed([verdict   |-> verdict,
                      consensus |-> consensus_mtu(v),
                      where     |-> IF verdict = "ACTION_NEEDED" THEN first_mtu_drop(a.hops) ELSE Missing,
                      json      |-> a.json /\ enough = "Sufficient"])
=============================================================================

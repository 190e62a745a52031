-------------------------- MODULE EvidenceVerdicts --------------------------
(***************************************************************************)
(* The rules that qualify a piece of evidence before anything is derived   *)
(* from it: its age, a second source, the share of a sweep that answered,  *)
(* the number of samples, the clocks, the counters and the radio state.    *)
(***************************************************************************)
EXTENDS Evidence

(* A number that is present and not finite.                                *)
NotFinite == -2
Finite(x) == x >= 0

(***************************************************************************)
(* Freshness.  An input is [name, at, valid].                              *)
(***************************************************************************)

age_secs(i, now) == Larger(now - i.at, 0)

is_fresh_at(i, now) ==
  Finite(i.at) /\ Finite(i.valid) /\ Finite(now) /\ age_secs(i, now) <= i.valid

(* The stale input that is longest overdue; the first one on a tie.        *)
check_freshness(inputs, now) ==
  LET stale   == Keep(inputs, LAMBDA i : ~is_fresh_at(i, now))
      overdue(i) == age_secs(i, now) - i.valid
      worse(w, i) == IF Finite(i.at) /\ Finite(i.valid) /\ overdue(i) > w.age - w.horizon
                     THEN [age |-> age_secs(i, now), horizon |-> i.valid] ELSE w
  IN  IF stale = <<>> THEN [fresh |-> TRUE]
      ELSE [fresh |-> FALSE, stale |-> [k \in DOMAIN stale |-> stale[k].name],
            worst |-> FoldLeft(worse, [age |-> 0, horizon |-> 0], stale)]

permits_derived_figure(f) == f.fresh

(***************************************************************************)
(* Corroboration of two claims [value, provenance], Unclaimed when there   *)
(* is none, with a tolerance in percent.                                   *)
(***************************************************************************)
Unclaimed == [value |-> Missing, provenance |-> "none"]

corroborate(a, b, tolerance) ==
  LET tol    == IF tolerance >= 0 THEN tolerance ELSE 5
      scale  == Larger(a.value, b.value)
      one(c) == IF Finite(c.value) THEN [kind |-> "Uncorroborated", value |-> c.value]
                ELSE [kind |-> "Unknown", value |-> Missing]
  IN  CASE ~Finite(a.value) -> one(b)
        [] Finite(a.value) /\ ~Finite(b.value) -> one(a)
        [] Finite(a.value) /\ Finite(b.value)
           /\ 100 * Distance(a.value, b.value) <= tol * scale ->
             [kind |-> "Corroborated", value |-> Smaller(a.value, b.value)]
        [] OTHER -> [kind |-> "Contradicted", value |-> Missing]

usable_value(c) == c.value

(***************************************************************************)
(* Coverage of a sweep: its points are "measured", "no_answer" or          *)
(* "not_attempted" and every one of them counts as attempted.              *)
(***************************************************************************)
record_point(cov, p) == [cov EXCEPT !.attempted = @ + 1, ![p] = @ + 1]

coverage_of(points) ==
  FoldLeft(record_point,
           [attempted |-> 0, measured |-> 0, no_answer |-> 0, not_attempted |-> 0], points)

classify_coverage(cov, required) ==
  CASE cov.measured = 0 -> "Vacuous"
    [] cov.measured > 0 /\ 100 * cov.measured >= required * cov.attempted -> "Sufficient"
    [] OTHER -> "Degraded"

(***************************************************************************)
(* Run confidence.                                                         *)
(***************************************************************************)
run_stats(n, variance, warmUp) ==
  [count |-> n, variance |-> n > 1 /\ variance, warm_up |-> warmUp]

stats_from_samples(samples, warmUp) == run_stats(Len(samples), Len(samples) >= 2, warmUp)

confidence_from_stats(s) ==
  CASE s.count <= 1 \/ ~s.variance -> "Low"
    [] s.count >= 3 /\ s.variance /\ s.warm_up # "Skipped" -> "High"
    [] OTHER -> "Medium"

(* Endpoints are the addresses that a name resolved to, "none" when not.   *)
detect_endpoint_mismatch(ips) == Cardinality(Range(ips) \ {"none"}) > 1

(***************************************************************************)
(* Clocks.  An NTP answer is [offset, delay], the size of the offset and   *)
(* the round trip; either may be missing.                                  *)
(***************************************************************************)

within_skew(ntp, maxSkew) == ntp.offset + ntp.delay <= maxSkew

from_ntp_result(ntp, maxSkew) ==
  LET known == Known(ntp.offset) /\ Known(ntp.delay)
  IN  [known   |-> known,
       uncertainty |-> IF known THEN ntp.delay ELSE Missing,
       outcome |-> IF known /\ within_skew(ntp, maxSkew)
                   THEN "WithinTolerance" ELSE "ExceedsTolerance"]

permits_one_way_claim(v) == v.known /\ v.outcome = "WithinTolerance"

NoClock == [known |-> FALSE, uncertainty |-> Missing, outcome |-> "none"]

(* merge_events: the events of b follow those of a.                        *)
merge_events(a, b, va, vb) ==
  [events |-> a \o b,
   confidence |->
     CASE va = NoClock /\ vb = NoClock -> "SameNodeMonotonic"
       [] permits_one_way_claim(va) /\ permits_one_way_claim(vb) -> "CrossNodeVerified"
       [] OTHER -> "CrossNodeUnverified"]

clock_guard_run(a) == Completed(from_ntp_result(a.ntp, a.max_skew))

(***************************************************************************)
(* Counter liveness.  The width of the counter and the tolerance of the    *)
(* wrap are parameters of the record c (2^32, 2^64 and 10 000 packets in   *)
(* the code).                                                              *)
(***************************************************************************)

(* The first row of the interface with seven columns or more that parses.  *)
read_rx_packets(rows) ==
  FirstOr(rows, LAMBDA r : r.own /\ r.columns >= 7 /\ Known(r.ipkts), [ipkts |-> Missing]).ipkts

classify_liveness(stimulus, before, after, c) ==
  LET delta == after - before
      near(boundary) == /\ boundary + delta > 0
                        /\ Distance(boundary + delta, stimulus) <= c.tolerance
  IN  CASE stimulus = 0 -> "Unattributable"
        [] stimulus > 0 /\ delta = 0 -> "Frozen"
        [] stimulus > 0 /\ delta > 0 ->
             IF 2 * delta >= stimulus /\ delta <= 20 * stimulus THEN "Live" ELSE "Unattributable"
        [] stimulus > 0 /\ delta < 0 /\ -delta <= 50 * stimulus -> "Reset"
        [] OTHER -> IF near(c.small) \/ near(c.large) THEN "Wrapped" ELSE "Unattributable"

zero_drop_sources(corroborating) == corroborating # <<>>

(* "withheld" stands for None.                                             *)
qualify_zero_drop_claim(verdict, drops, corroborating) ==
  CASE verdict # "Live" \/ ~zero_drop_sources(corroborating) -> "withheld"
    [] OTHER -> IF drops = 0 /\ \A i \in DOMAIN corroborating : corroborating[i] = 0
                THEN "clean" ELSE "dropped"

counter_liveness_run(a) ==
  IF ~a.injected /\ (~Known(a.before) \/ ~Known(a.after) \/ ~a.sockets) THEN Refusal(1)
  ELSE LET v == classify_liveness(a.stimulus, a.before, a.after, a.widths)
       IN  Completed([liveness |-> v,
                      zero_drop |-> qualify_zero_drop_claim(v, a.drops, a.corroborate)])

(***************************************************************************)
(* Interface counters and their deltas: [rx, tx, errors], packets and      *)
(* bytes of a direction together.                                          *)
(***************************************************************************)
usable_delta_from(after, before) == after.rx >= before.rx /\ after.tx >= before.tx

qualify_delta(before, after, shared, isolated) ==
  CASE ~usable_delta_from(after, before) -> "CounterWrappedOrReset"
    [] usable_delta_from(after, before) /\ ~isolated /\ shared ->
         "SharedInterfaceUnrelatedTraffic"
    [] OTHER -> "Clean"

(* Error counters saturate at 0 when they went backwards.                  *)
compute_counter_delta(before, after, shared, isolated) ==
  LET q == qualify_delta(before, after, shared, isolated)
  IN  [qualification |-> q,
       normalized |-> IF q = "Clean"
                      THEN [rx |-> after.rx - before.rx, tx |-> after.tx - before.tx,
                            errors |-> Larger(after.errors - before.errors, 0)]
                      ELSE [rx |-> Missing, tx |-> Missing, errors |-> Missing]]

counter_deltas_run(a) ==
  IF ~a.interface THEN Refusal(1)
  ELSE IF ~a.budget THEN Refusal(2)
  ELSE Completed([delta |-> compute_counter_delta(
                              a.before,
                              IF a.inject_wrap THEN [a.before EXCEPT !.rx = Larger(@ - 1, 0)]
                              ELSE a.after, a.shared, a.isolated),
                  radio |-> a.validity])

(***************************************************************************)
(* The radio.  A line of system_profiler has a key and the values that     *)
(* belong to it, a line of ioreg is [key, value].                          *)
(***************************************************************************)
Unavailable == [associated |-> FALSE, phy_mode |-> "none", band |-> "none",
                channel |-> Missing, width |-> Missing, rssi |-> Missing, noise |-> Missing]

snr_known(s) == Known(s.rssi) /\ Known(s.noise)

classify_rf(s) ==
  CASE ~s.associated \/ ~Known(s.rssi) -> "Unknown"
    [] s.associated /\ Known(s.rssi) /\ s.rssi <= -75 -> "Weak"
    [] s.associated /\ Known(s.rssi) /\ s.rssi > -75 /\ snr_known(s)
       /\ s.rssi - s.noise < 15 -> "Unstable"
    [] OTHER -> "Strong"

association_fingerprint(s) ==
  IF s.associated THEN <<s.band, s.channel, s.width>> ELSE <<>>

(* Whether the lines that follow are about the current network.            *)
section_after(current, key) == key = "Current" \/ (current /\ key # "Other")

(* parse_airport_text: the status line counts anywhere, the fields only in *)
(* the section of the current network.                                     *)
airport_line(acc, l) ==
  LET s    == acc.snap
      next == section_after(acc.current, l.key)
      snap == CASE l.key = "Status" -> [s EXCEPT !.associated = l.associated]
                [] l.key = "PHY" /\ acc.current -> [s EXCEPT !.phy_mode = l.phy]
                [] l.key = "Channel" /\ acc.current ->
                     [s EXCEPT !.channel = l.channel,
                               !.band  = IF l.band = "none" THEN @ ELSE l.band,
                               !.width = IF Known(l.width) THEN l.width ELSE @]
                [] l.key = "Signal" /\ acc.current ->
                     [s EXCEPT !.rssi = l.rssi, !.noise = l.noise]
                [] OTHER -> s
  IN  [snap |-> snap, current |-> next]

parse_airport_text(lines) ==
  LET s == FoldLeft(airport_line, [snap |-> Unavailable, current |-> FALSE], lines).snap
  IN  [s EXCEPT !.associated = @ \/ s.phy_mode # "none" \/ Known(s.channel)]

(* parse_ioreg_wlan: the last value of a key wins.                         *)
parse_ioreg_wlan(lines) ==
  LET put(s, l) == [s EXCEPT ![l.key] = l.value]
      s == FoldLeft(put, Unavailable, lines)
  IN  [s EXCEPT !.associated = Known(s.channel)]

(* radio::snapshot_live: the tool may be missing or fail.                  *)
snapshot_live(ok, lines) == IF ok THEN parse_airport_text(lines) ELSE Unavailable

(* wdutil::snapshot_live: a failed call that mentions privilege is told    *)
(* from one that does not.                                                 *)
wdutil_snapshot(w) ==
  CASE ~w.installed -> [error |-> "ToolMissing"]
    [] w.installed /\ ~w.success ->
         [error |-> IF w.mentions_privilege THEN "PrivilegeRequired" ELSE "ParseFailed"]
    [] OTHER -> [error |-> "none", fields |-> w.fields]

(* build_diagnostic: the RF class comes from the unprivileged snapshot,    *)
(* the figures from the privileged one where it has them.                  *)
build_diagnostic(base, w) ==
  LET pick(f) == IF w.error = "none" /\ Known(w.fields[f]) THEN w.fields[f] ELSE base[f]
  IN  [rf_quality  |-> classify_rf(base),
       rssi        |-> pick("rssi"),
       noise       |-> pick("noise"),
       snr         |-> IF Known(pick("rssi")) /\ Known(pick("noise"))
                       THEN pick("rssi") - pick("noise") ELSE Missing,
       utilization |-> IF w.error = "none" THEN w.fields.cca ELSE Missing,
       limitations |-> {"retries", "wmm"}
                       \cup (IF w.error = "none" /\ Known(w.fields.cca) THEN {} ELSE {"cca"}),
       note        |-> w.error]

radio_diagnostic_run(a) ==
  Completed(build_diagnostic(snapshot_live(a.tool, a.lines), wdutil_snapshot(a.wdutil)))

is_tunnel_interface(name) == name \in {"utun", "tun", "ppp", "ipsec"}

(* detect_live: the first interface line of `route`.                       *)
detect_route(ok, ifaces) ==
  IF ~ok \/ ifaces = <<>> THEN [interface |-> "none", tunnel |-> FALSE]
  ELSE [interface |-> ifaces[1], tunnel |-> is_tunnel_interface(ifaces[1])]
=============================================================================

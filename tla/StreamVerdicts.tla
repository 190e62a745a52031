--------------------------- MODULE StreamVerdicts ---------------------------
(***************************************************************************)
(* What the paced echo probes conclude from a sequence of echoes: burst    *)
(* analysis and the media-quality estimate, and the two tests that read    *)
(* the output of ping, packet loss and round-trip time.                    *)
(*                                                                         *)
(* An arrival is [seq, sent_at, received_at]; sequence numbers start at 0. *)
(***************************************************************************)
EXTENDS Evidence

one_way_delay_ms(a) == a.received_at - a.sent_at

(* split_duplicates: the first arrival of every sequence number, in the    *)
(* order of reception, and the number of the others.                       *)
split_duplicates(arrivals) ==
  LET first == FoldLeft(LAMBDA acc, a :
                 IF \E i \in DOMAIN acc : acc[i].seq = a.seq THEN acc ELSE Append(acc, a),
                 <<>>, arrivals)
  IN  [distinct |-> first, duplicates |-> Len(arrivals) - Len(first)]

(* How many later packets overtook the i-th arrival.                       *)
reorder_depth(arrivals, i) ==
  Cardinality({j \in 1 .. i - 1 : arrivals[j].seq > arrivals[i].seq})

compute_reordering(arrivals) ==
  {[seq |-> arrivals[i].seq, depth |-> reorder_depth(arrivals, i)] :
     i \in {k \in DOMAIN arrivals :
              k > 1 /\ arrivals[k].seq < Max({arrivals[j].seq : j \in 1 .. k - 1})}}

(* close_run; the send times of the first and the last lost packet give    *)
(* the gap, and a lost packet has none.                                    *)
close_run(acc, sentAt) ==
  IF acc.len = 0 THEN acc.bursts
  ELSE LET last == acc.start + acc.len - 1
       IN  Append(acc.bursts,
             [start |-> acc.start, len |-> acc.len,
              gap |-> IF {acc.start, last} \subseteq DOMAIN sentAt
                      THEN Larger(sentAt[last] - sentAt[acc.start], 0) ELSE Missing])

(* Mutant: the run still open at the end of the sample is not closed.      *)
compute_burst_distribution_open(sent, sentAt) ==
  FoldLeft(LAMBDA acc, s :
    IF s \in DOMAIN sentAt
    THEN [bursts |-> close_run(acc, sentAt), start |-> Missing, len |-> 0]
    ELSE [acc EXCEPT !.start = IF acc.len = 0 THEN s ELSE @, !.len = @ + 1],
    [bursts |-> <<>>, start |-> Missing, len |-> 0],
    [i \in 1 .. sent |-> i - 1]).bursts

(* One pass over the sequence numbers sent, with the run of losses that is *)
(* open; sentAt maps the sequence numbers received to their send time.     *)
compute_burst_distribution(sent, sentAt) ==
  LET scan == FoldLeft(LAMBDA acc, s :
                IF s \in DOMAIN sentAt
                THEN [bursts |-> close_run(acc, sentAt), start |-> Missing, len |-> 0]
                ELSE [acc EXCEPT !.start = IF acc.len = 0 THEN s ELSE @,
                                 !.len = @ + 1],
                [bursts |-> <<>>, start |-> Missing, len |-> 0],
                [i \in 1 .. sent |-> i - 1])
  IN  close_run(scan, sentAt)

TotalLost(bursts) == FoldLeft(LAMBDA n, b : n + b.len, 0, bursts)
MaxRun(bursts)    == Max({0} \cup {bursts[i].len : i \in DOMAIN bursts})

(* compute_jitter: the mean change of delay, as [total, count].            *)
compute_jitter(arrivals) ==
  LET n == Len(arrivals)
      D(i) == Distance(one_way_delay_ms(arrivals[i]), one_way_delay_ms(arrivals[i - 1]))
  IN  IF n < 2 THEN [total |-> Missing, count |-> 0, max |-> Missing]
      ELSE [total |-> Total([i \in 1 .. n - 1 |-> D(i + 1)]), count |-> n - 1,
            max   |-> Max({D(i) : i \in 2 .. n})]

(* compute_queue_delay_correlation, per burst: the delays of the packets   *)
(* sent in the 15 ms up to the last packet received before it, against     *)
(* those of the whole sample.                                              *)
delay_rising_before_burst(arrivals, b) ==
  LET before == {i \in DOMAIN arrivals : arrivals[i].seq < b.start}
      last   == CHOOSE i \in before : \A j \in before : arrivals[j].seq <= arrivals[i].seq
      window == {i \in DOMAIN arrivals :
                   /\ arrivals[i].sent_at <= arrivals[last].sent_at
                   /\ arrivals[i].sent_at >= arrivals[last].sent_at - 15}
      delays == [i \in DOMAIN arrivals |-> one_way_delay_ms(arrivals[i])]
  IN  IF before = {} \/ Cardinality(window) < 2 THEN "none"
      ELSE IF 4 * SumAt(delays, window) * Len(arrivals)
                > 5 * SumAt(delays, DOMAIN arrivals) * Cardinality(window)
           THEN "rising" ELSE "flat"

(* analyze.                                                                *)
burst_report(sent, split) ==
  LET present == {split.distinct[i].seq : i \in DOMAIN split.distinct}
      sentAt  == [s \in present |->
                    split.distinct[CHOOSE i \in DOMAIN split.distinct :
                                     split.distinct[i].seq = s].sent_at]
      bursts  == compute_burst_distribution(sent, sentAt)
      events  == compute_reordering(split.distinct)
  IN  [sent |-> sent, received |-> Cardinality(present),
       loss |-> IF sent = 0 THEN 0 ELSE (100 * (sent - Cardinality(present))) \div sent,
       bursts |-> bursts, duplicates |-> split.duplicates, reordering |-> events,
       max_depth |-> Max({0} \cup {e.depth : e \in events}),
       jitter |-> compute_jitter(split.distinct),
       queueing |-> [i \in DOMAIN bursts |->
                       delay_rising_before_burst(split.distinct, bursts[i])]]

analyze_burst(sent, arrivals) == burst_report(sent, split_duplicates(arrivals))

(* The probe loop of run_one_pass and run_media_sequence: after every send *)
(* the sender reads at most one datagram, which may answer an earlier      *)
(* packet.  echoes[i] is the sequence number read after the i-th send, or  *)
(* Missing when the read timed out; what is still in flight at the end of  *)
(* the loop is never read.  Packet n leaves at n * interval.               *)
run_one_pass(echoes, interval, rtt) ==
  LET A == Keep([i \in DOMAIN echoes |->
             [seq |-> echoes[i], sent_at |-> echoes[i] * interval,
              received_at |-> (i - 1) * interval + rtt]], LAMBDA a : Known(a.seq))
  IN  [sent |-> Len(echoes), arrivals |-> A]

packets_per_sec(profile) == IF profile = "Audio" THEN 50 ELSE 30

run_media_sequence(echoes, profile) ==
  run_one_pass(echoes, 1000 \div packets_per_sec(profile), 8)

burst_analysis_run(a) ==
  LET pass(p) == LET s == run_one_pass(p.echoes, a.interval, 4)
                 IN  analyze_burst(s.sent, s.arrivals)
  IN  CASE a.live_event = a.maintenance -> Refusal(2)
        [] a.live_event # a.maintenance /\ ~a.normal.ok -> Refusal(1)
        [] OTHER -> Completed([normal |-> pass(a.normal),
                               ramped |-> IF a.ramp /\ a.ramped.ok THEN {pass(a.ramped)}
                                                                   ELSE {}])

(***************************************************************************)
(* Media quality.  Scores are in hundredths.                               *)
(***************************************************************************)
estimate_concealment(bursts) ==
  CASE bursts = <<>>                          -> "Indeterminate"
    [] bursts # <<>> /\ MaxRun(bursts) <= 1   -> "LikelyConcealed"
    [] OTHER                                  -> "LikelyAudibleArtifact"

(* A gap that was not measured is the run length at the packet interval.   *)
worst_gap_ms(bursts, profile) ==
  Max({0} \cup {IF Known(bursts[i].gap) THEN bursts[i].gap
                ELSE (1000 * bursts[i].len) \div packets_per_sec(profile) : i \in DOMAIN bursts})

estimate_freeze_risk(bursts, profile) ==
  LET g == worst_gap_ms(bursts, profile)
  IN  CASE g >= 300 -> "High" [] g >= 100 /\ g < 300 -> "Elevated" [] OTHER -> "Low"

estimate_mos(rep, freeze, concealment) ==
  LET j == IF rep.jitter.count = 0 THEN 0
           ELSE Smaller((2 * rep.jitter.total) \div rep.jitter.count, 100)
      s == 440 - 2 * rep.loss - j
           - (CASE freeze = "Low" -> 0 [] freeze = "Elevated" -> 50 [] freeze = "High" -> 150)
           - (IF concealment = "LikelyAudibleArtifact" THEN 30 ELSE 0)
  IN  Smaller(Larger(s, 100), 450)

(* One candidate of the ICE list; a relay that is not given is "refused"   *)
(* without an attempt.                                                     *)
probe_direct_udp(socket) ==
  CASE socket = "bind_error" -> "Refused"
    [] socket = "echo"       -> "Established"
    [] OTHER                 -> "TimedOut"

probe_turn_tcp(relay) ==
  IF relay = "connects" THEN "Established" ELSE "Refused"

media_report(profile, setups, rep) ==
  LET con == estimate_concealment(rep.bursts)
      fr  == estimate_freeze_risk(rep.bursts, profile)
  IN  [setup_success |-> "Established" \in setups, burst |-> rep, concealment |-> con,
       freeze |-> fr, one_way_delay |-> Missing, mos |-> estimate_mos(rep, fr, con)]

build_media_report(profile, setups, sample) ==
  media_report(profile, setups, analyze_burst(sample.sent, sample.arrivals))

media_quality_run(a) ==
  CASE a.live_event = a.maintenance -> Refusal(2)
    [] a.live_event # a.maintenance /\ ~a.sequence_ok -> Refusal(1)
    [] OTHER -> Completed(build_media_report(a.profile,
                  {probe_direct_udp(a.socket)}
                    \cup (IF a.relay = "none" THEN {"Refused"} ELSE {probe_turn_tcp(a.relay)}),
                  run_media_sequence(a.echoes, a.profile)))

(***************************************************************************)
(* The tests on the output of ping.                                        *)
(***************************************************************************)

(* The longest run of timeouts among the lines that are replies (TRUE) or  *)
(* timeouts (FALSE); other lines are not looked at.                        *)
analyze_loss_pattern(lines) ==
  LET scan == FoldLeft(LAMBDA acc, got :
                IF got THEN [acc EXCEPT !.current = 0]
                ELSE [current |-> acc.current + 1,
                      longest |-> Larger(acc.longest, acc.current + 1)],
                [current |-> 0, longest |-> 0], lines)
  IN  CASE lines = <<>>                          -> "Unknown"
        [] lines # <<>> /\ scan.longest >= 5      -> "Burst Loss"
        [] lines # <<>> /\ scan.longest \in 2 .. 4 -> "Mixed"
        [] OTHER                                  -> "Random"

(* Five attempts on each of the ports 80 and 443; the address is parsed as *)
(* a literal, so that a host name never connects.                          *)
test_tcp_connection_rate(literal, open) == IF literal THEN 50 * Cardinality(open) ELSE 0

packet_loss_test(a) ==
  LET loss == IF a.transmitted = 0 THEN 0
              ELSE (100 * (a.transmitted - a.received)) \div a.transmitted
      rate == test_tcp_connection_rate(a.literal, a.open)
  IN  CASE ~a.ping_ok -> [status |-> "Failed", diagnoses |-> {}, pattern |-> "none"]
        [] OTHER ->
           [pattern |-> analyze_loss_pattern(a.lines),
            status |-> CASE loss >= 50 -> "Failed" [] loss > 1 /\ loss < 50 -> "Warning"
                         [] OTHER -> "Success",
            diagnoses |->
              (IF rate < 80 /\ loss < 5 THEN {"TCP Connection Issues"} ELSE {})
              \cup (CASE loss >= 50 -> {"Severe Packet Loss"}
                      [] loss >= 10 /\ loss < 50 -> {"High Packet Loss"}
                      [] loss > 1 /\ loss < 10 -> {"Moderate Packet Loss"}
                      [] OTHER -> {})]

(* parse_ping_stats: four figures of the summary line, or none; jitter is  *)
(* the standard deviation in percent of a positive average.                *)
parse_ping_stats(summary, loss) ==
  LET have == Len(summary) >= 4
  IN  [avg |-> IF have THEN summary[2] ELSE Missing,
       stddev |-> IF have THEN summary[4] ELSE Missing,
       loss |-> loss,
       jitter |-> IF have /\ summary[2] > 0
                  THEN (100 * summary[4]) \div summary[2] ELSE Missing]

rtt_test(a) ==
  LET s == parse_ping_stats(a.summary, a.loss)
  IN  IF ~a.ping_ok THEN [status |-> "Failed", reason |-> "none"]
      ELSE CASE s.loss > 10 -> [status |-> "Warning", reason |-> "High Packet Loss"]
             [] s.loss <= 10 /\ s.jitter > 50 ->
                  [status |-> "Warning", reason |-> "High Jitter Detected"]
             [] s.loss <= 10 /\ s.jitter <= 50 /\ s.avg > 200 ->
                  [status |-> "Warning", reason |-> "High Latency"]
             [] s.loss <= 10 /\ s.jitter <= 50 /\ ~Known(s.avg) ->
                  [status |-> "Warning", reason |-> "Latency Unavailable"]
             [] OTHER -> [status |-> "Success", reason |-> "none"]
=============================================================================

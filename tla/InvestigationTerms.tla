------------------------- MODULE InvestigationTerms -------------------------
(***************************************************************************)
(* The terms in which Investigations_proofs states its lemmas: the parts   *)
(* of the inductive invariant, names for the intermediate values of the    *)
(* engines, and the statements that an induction carries from one length   *)
(* to the next.  No run uses them.                                         *)
(***************************************************************************)
EXTENDS Investigations

-----------------------------------------------------------------------------
(* The machine.                                                            *)

(* Whatever a command may measure.                                         *)
Values == UNION {UNION {Measurements[c][i] : i \in DOMAIN Measurements[c]} : c \in Commands}

(* Each measurement gathered is one that the command may get.              *)
Gathered ==
  /\ evidence \in Seq(Values)
  /\ Len(evidence) <= Len(Measurements[command])
  /\ \A i \in 1..Len(evidence) : evidence[i] \in Measurements[command][i]

(* What is reported is the verdict on the complete evidence.               *)
Reported ==
  \/ outcome = Running
  \/ Complete /\ outcome = dispatch(command, evidence, ready)

(* The inductive invariant.                                                *)
MachineInv == command \in Commands /\ ready \in BOOLEAN /\ Gathered /\ Reported

-----------------------------------------------------------------------------
(* Complete evidence of a command.                                         *)
Shaped(c, g) ==
  /\ g \in Seq(Values)
  /\ Len(g) = Len(Shapes(c))
  /\ \A i \in 1..Len(Shapes(c)) : g[i] \in Shapes(c)[i]

-----------------------------------------------------------------------------
(* LosingEvidenceOnlyWithholds, the losses that are noticed, one command   *)
(* after the other.                                                        *)

(* No loss that is noticed adds a claim to those on the evidence g.        *)
Withholds(c, g, ok) ==
  dispatch(c, g, ok).exit = 0 =>
    \A i \in DOMAIN g : \A m \in LostForms(c, i, g[i]) :
      LET o == dispatch(c, [g EXCEPT ![i] = m], ok)
      IN  o.exit = 0 => claims(c, o.report) \subseteq claims(c, dispatch(c, g, ok).report)

(* What clock-guard makes of the answer of an NTP server.                  *)
clock(ntp) == from_ntp_result(ntp, MaxSkew)

(* A client that was killed, or whose output is no document, gives no rate,*)
(* and a radio that was not read no validity; neither says anything about  *)
(* the other.                                                              *)
LostClient(m) == m.outcome = "killed" \/ m.document.json = FALSE

(* Two clients are compared only when both left marks.                     *)
fairnessOf(e) == IF evaluate_cross_client(e[1], e[2]).kind = "Comparable"
                 THEN jain_fairness_index(<<e[3], e[4]>>) ELSE [num |-> Missing, den |-> 0]

(* An interface that netstat does not list refuses the command, and a zero *)
(* without another source is withheld.                                     *)
livenessOf(e) == classify_liveness(e[3], read_rx_packets(e[1]), read_rx_packets(e[2]),
                                   [tolerance |-> 2, small |-> 64, large |-> 256])

(* grade_from_phases grades nothing unless all three phases reported.      *)
gradeOf(e) == grade_from_phases(run_network_quality(e[1]), run_network_quality(e[2]),
                                run_network_quality(e[3]))

(* check_aggregate_constancy needs every aggregate, and the survival of a  *)
(* DSCP class the capture at the destination; neither needs the other.     *)
constantOf(e) == held_constant(SubSeq(e, 1, 3))
survivalOf(e) ==
  classify_dscp_survival(<<[sent |-> 46, src |-> IF e[4].sent_ok THEN 46 ELSE Missing,
                            dst |-> e[4].observed]>>)

(* A size that lost its answer, or that did not leave the host, is not     *)
(* confirmed, and the largest confirmed size does not grow.                *)
Trial == [size : Nat, local : BOOLEAN, runtime : BOOLEAN, df : BOOLEAN,
          quic : {"bind", "refused_size", "silent", "stalled", "estimate_below", "acknowledged"}]
confirms(t) == is_path_evidence(size_outcome(t))
confirmedSizes(e) == {e[k].size : k \in {j \in DOMAIN e : confirms(e[j])}}

(* The confidence in a protocol needs every leg of it clean, and a leg that*)
(* is not run counts for nothing.                                          *)
legOf(e, k) == run_leg("http1", <<"download", "upload", "both", "both">>[k],
                       <<[works |-> TRUE, h3 |-> FALSE]>>, e[k])
legsRun(ok) == IF ok THEN 1..4 ELSE 1..2

-----------------------------------------------------------------------------
(* From the machine to its verdicts.                                       *)

(* The commands whose claims rest on a fold, a filter or a sort of their   *)
(* measurements; their lemmas come with those about the folds.             *)
FoldingCommands == {"throughput-tuner", "site-ab", "coverage", "provider-path"}

(* The commands for which LosingEvidenceOnlyWithholds says something, those*)
(* apart.                                                                  *)
WithholdingCommands ==
  {"flow-dscp-matrix", "capacity-knee", "bufferbloat", "circuit-compare", "ap-identity", "roaming",
   "second-network", "platform-matrix", "clock-guard", "counter-liveness", "multiclient-fairness",
   "wired-control", "tcp-vs-udp", "process-model", "wired-edge", "pmtu", "protocol-compare"}

-----------------------------------------------------------------------------
(* LosingEvidenceOnlyWithholds, the losses that are not noticed.           *)

(* A loss that is not noticed leaves the claims of the figure that stands  *)
(* in for it.                                                              *)
ReadsAs(c, g, ok) ==
  \A i \in DOMAIN g : \A p \in Unnoticed(c, i, g) :
    ClaimsOn(c, [g EXCEPT ![i] = p[1]], ok) = ClaimsOn(c, [g EXCEPT ![i] = p[2]], ok)

(* The commands with such losses.                                          *)
FillingCommands ==
  {"circuit-compare", "throughput-tuner", "tcp-vs-udp", "counter-liveness", "wired-edge"}

(* Losing the k-th element is like its becoming one that P spares.         *)
Spares(P, s, k, x) ==
  (\E j \in DOMAIN RemoveAt(s, k) : RemoveAt(s, k)[j] \in P)
    <=> (\E j \in DOMAIN ReplaceAt(s, k, x) : ReplaceAt(s, k, x)[j] \in P)

(* What judge_circuits sees of a phase.                                    *)
Alike(x, y) == /\ x.state = y.state /\ x.mbps = y.mbps /\ Larger(x.loss, 0) = Larger(y.loss, 0)
               /\ x.members = <<>> <=> y.members = <<>>
               /\ (\E j \in DOMAIN x.members : missing_fields(x.members[j]) # {})
                    <=> (\E j \in DOMAIN y.members : missing_fields(y.members[j]) # {})

-----------------------------------------------------------------------------
(* FiguresAreTheirOwn, one command after the other.                        *)

(* A knee is the rate of a point of the sweep that was not rejected: the   *)
(* windows that stopped tracking have a first one.                         *)
Sweep(points) ==
  /\ DOMAIN points \subseteq Nat /\ IsFiniteSet(DOMAIN points)
  /\ \A i \in DOMAIN points : points[i].offered \in Nat

-----------------------------------------------------------------------------
(* Sorting: InOrder, SortedBy and Keep.                                    *)

(* Position i comes before j in a stable sort by key.                      *)
Precedes(key, i, j) == key[i] < key[j] \/ (key[i] = key[j] /\ i < j)

(* Some position of I is the k-th of them.                                 *)
Numbers(key, I, k) == \E i \in I : Rank(key, I, i) = k

(* o are the elements of s at the positions I, sorted by key.              *)
PicksBy(f, s, key, I, o) ==
  LET C == Cardinality(I)
  IN  /\ f \in [1..C -> I]
      /\ \A k \in 1..C : o[k] = s[f[k]]
      /\ \A i \in I : \E k \in 1..C : f[k] = i
      /\ \A k, l \in 1..C : k < l <=> Precedes(key, f[k], f[l])

-----------------------------------------------------------------------------
(* Induction over a length, and what a fold computes.                      *)

(* The equation of a fold over the subsets of 1..m, and a function of      *)
(* states in T that solves it.                                             *)
FoldEq(F, m, base, G) ==
  F = [s \in SUBSET (1..m) |-> IF s = {} THEN base ELSE G[<<F[s \ {Max(s)}], Max(s)>>]]

Solves(F, n, T, base, G) ==
  /\ F \in [SUBSET (1..n) -> T]
  /\ F[{}] = base
  /\ \A t \in SUBSET (1..n) : t # {} => F[t] = G[<<F[t \ {Max(t)}], Max(t)>>]

(* An iteration that follows G as long as it stays in T.                   *)
Obeys(iter, n, T, base, G) ==
  /\ iter[{}] = base
  /\ \A t \in SUBSET (1..n) : t # {} /\ iter[t \ {Max(t)}] \in T =>
       iter[t] = G[<<iter[t \ {Max(t)}], Max(t)>>]

(* The states a[0], ..., a[n] of a fold that ends with v.                  *)
Traces(a, n, T, base, G, v) ==
  /\ a \in [0..n -> T] /\ a[0] = base /\ a[n] = v
  /\ \A k \in 0..(n - 1) : a[k + 1] = G[<<a[k], k + 1>>]

(* The partial sums of s.                                                  *)
PartialSums(a, n, s) ==
  /\ a \in [0..n -> Int] /\ a[0] = 0 /\ a[n] = Total(s)
  /\ \A k \in 0..(n - 1) : a[k + 1] = a[k] + s[k + 1]

-----------------------------------------------------------------------------
(* Exit codes.                                                             *)

(* The exit status of a run is 0, 1 or 2.                                  *)
Exits(o) == o.exit \in {0, 1, 2}

-----------------------------------------------------------------------------
(* Filtering.                                                              *)

(* How the elements o that InOrder leaves correspond to their positions.   *)
Picks(f, s, o, I) ==
  /\ f \in [1..Len(o) -> I]
  /\ \A k \in 1..Len(o) : o[k] = s[f[k]]
  /\ \A i \in I : \E k \in 1..Len(o) : f[k] = i
  /\ \A k, l \in 1..Len(o) : k < l <=> f[k] < f[l]

(* o are the elements of s, of length n, at the positions I.               *)
Filters(o, s, n, I, T) ==
  /\ o \in Seq(T) /\ Len(o) = Cardinality(I) /\ Len(o) <= n
  /\ \E f : Picks(f, s, o, I)

-----------------------------------------------------------------------------
(* TypeOK, one figure after the other.                                     *)

(* Arrivals.                                                               *)
Arrival == [seq : Int, sent_at : Int, received_at : Int]

(* The arrivals are those of the echoes that were read, in their order.    *)
PassOf(f, arrivals, echoes) ==
  /\ f \in [1..Len(arrivals) -> 1..Len(echoes)]
  /\ \A k, l \in 1..Len(arrivals) : k < l <=> f[k] < f[l]
  /\ \A k \in 1..Len(arrivals) : arrivals[k].seq = echoes[f[k]]
  /\ \A i \in 1..Len(echoes) : Known(echoes[i]) <=> \E k \in 1..Len(arrivals) : f[k] = i

(* The position h[i] of d[i] is the first one of its sequence number.      *)
FirstAt(h, d, arrivals, k) ==
  /\ h \in [1..Len(d) -> 1..k]
  /\ \A i, j \in 1..Len(d) : i < j <=> h[i] < h[j]
  /\ \A i \in 1..Len(d) : /\ arrivals[h[i]] = d[i]
                          /\ \A j \in 1..k : arrivals[j].seq = d[i].seq => h[i] <= j

(* d are the first arrivals of each sequence number among the first k.     *)
FirstOf(d, arrivals, k) ==
  /\ d \in Seq(Arrival) /\ Len(d) <= k
  /\ \A i, j \in 1..Len(d) : d[i].seq = d[j].seq => i = j
  /\ \A i \in 1..Len(d) : \E j \in 1..k : arrivals[j] = d[i]
  /\ \A j \in 1..k : \E i \in 1..Len(d) : d[i].seq = arrivals[j].seq
  /\ \E h : FirstAt(h, d, arrivals, k)

JitterOK(j) == j.count \in Nat /\ (j.count # 0 => j.total \in Int)
FiguresOK(r) == r.loss \in 0..100 /\ JitterOK(r.jitter)

Risks == {"Low", "Elevated", "High"}

-----------------------------------------------------------------------------
(* FiguresAreTheirOwn, the engines that fold, filter or sort.              *)

(* How the elements o of a sort correspond to those of s.                  *)
Sorting(f, s, o, n, key) ==
  /\ f \in [1..n -> 1..n]
  /\ \A k \in 1..n : o[k] = s[f[k]]
  /\ \A i \in 1..n : \E k \in 1..n : f[k] = i
  /\ \A k, l \in 1..n : k < l <=> Precedes(key, f[k], f[l])

(* The trials of the tuner.                                                *)
tunerCandidates(ok) ==
  candidates_to_run(Keep(<<1, 2>>, LAMBDA c : preflight_candidate(c,
                      [files |-> IF ok THEN 256 ELSE 18, cores |-> 1]) = "Ok"), 2)
tunerTrials(e, ok) ==
  [i \in DOMAIN tunerCandidates(ok) |->
     evaluate_trial(tunerCandidates(ok)[i], 10, e[tunerCandidates(ok)[i]])]
acceptedTrials(trials) == {i \in DOMAIN trials : trials[i].rejected = "none"}

(* The baseline samples that it took.                                      *)
tunerDrift(e) == Keep(SubSeq(e, 3, 4), Known)

(* x is the rate of an accepted trial, and of none slower than another.    *)
FastestTrial(trials, x) ==
  \E i \in acceptedTrials(trials) :
    x = trials[i].bps /\ \A j \in acceptedTrials(trials) : trials[j].bps <= trials[i].bps

(* The answers to requests 1 .. k, as they wait in the socket's queue.     *)
StunDatagram(K) == [kind : K, txn : Nat, addr : Nat]
OwnDatagrams(K, fates, k) ==
  {d \in StunDatagram(K) : d.txn \in 1..k /\ d.addr = fates[d.txn].addr}
StunFates(K, fates, n) == "mapped" \in K /\ \A i \in 1..n : fates[i].kind \in K /\ fates[i].addr \in Nat
StunOutcomes == {"Mapped", "Invalid", "Unreachable"}

(* D holds the answers to request i.                                       *)
AnswersIn(D, i, fate) == \A w \in {"mapped", fate.kind} : [kind |-> w, txn |-> i, addr |-> fate.addr] \in D

(* What one request leaves, of datagrams in D.                             *)
BindingSound(b, D, i) ==
  /\ b.queue \in Seq(D) /\ b.outcome \in StunOutcomes /\ b.addr \in Nat /\ b.txn \in Nat
  /\ b.outcome = "Mapped" => \E d \in D : b.txn = d.txn /\ b.addr = d.addr /\ d.txn = i

(* The attempts of a socket that started with an empty queue.              *)
StunAttempt == [outcome : StunOutcomes, addr : Nat, txn : Nat]
OwnAttempts(K, fates, st, k) ==
  /\ st.queue \in Seq(OwnDatagrams(K, fates, k))
  /\ st.done \in Seq(StunAttempt) /\ Len(st.done) = k
  /\ \A j \in 1..k : st.done[j].outcome = "Mapped" =>
       st.done[j].txn = j /\ st.done[j].addr = fates[j].addr

bindingStep(fates, st, i) ==
  [queue |-> binding_request_once(st.queue, fates[i], i).queue,
   done  |-> Append(st.done, [outcome |-> binding_request_once(st.queue, fates[i], i).outcome,
                              addr |-> binding_request_once(st.queue, fates[i], i).addr,
                              txn |-> binding_request_once(st.queue, fates[i], i).txn])]

(* What the lines 1 .. k of the tool have shown.                           *)
RadioState ==
  [snap : [associated : BOOLEAN, phy_mode : STRING \cup {"none"}, band : STRING \cup {"none"},
           channel : Int, width : Int, rssi : Int, noise : Int],
   current : BOOLEAN]
CurrentSince(lines, i, k) == lines[i].key = "Current" /\ \A j \in i..k : lines[j].key # "Other"
SignalListed(lines, k) ==
  \E i, j \in 1..k : i < j /\ lines[j].key = "Signal" /\ CurrentSince(lines, i, j)
RadioShows(acc, lines, k) ==
  /\ acc.current => \E i \in 1..k : CurrentSince(lines, i, k)
  /\ Known(acc.snap.rssi) => SignalListed(lines, k)

-----------------------------------------------------------------------------
(* LosingEvidenceOnlyWithholds, the commands that fold, filter or sort.    *)

SiteReport == [redirected : BOOLEAN, clean : BOOLEAN, mbps : {Missing} \cup (Nat \ {0})]
cleanSamples(reports) == {i \in 1..2 : reports[i].clean /\ Known(reports[i].mbps)}

CoveragePoints == {"measured", "no_answer", "not_attempted"}
Coverage == [attempted : Nat, measured : Nat, no_answer : Nat, not_attempted : Nat]
measuredOf(points, k) == {i \in 1..k : points[i] = "measured"}
Covers(cov, points, k) == cov.attempted = k /\ cov.measured = Cardinality(measuredOf(points, k))

TraceLine == [hop : Nat, stars : BOOLEAN, addr : STRING, rtt : Int]
TraceHop == [hop : Nat, addr : STRING \cup {"none"}, rtt : Int]
hopOf(l) == IF l.stars THEN [hop |-> l.hop, addr |-> "none", rtt |-> Missing]
            ELSE [hop |-> l.hop, addr |-> l.addr, rtt |-> l.rtt]
hopsAt(hops, n) == Keep(hops, LAMBDA h : h.hop = n)

(* A hop that did not answer is among its samples.                         *)
Silent(samples) == \E k \in 1..Len(samples) : ~responded(samples[k])

(* The two traces of evidence e, parsed.                                   *)
tracesOf(e) == [i \in 1..2 |-> run_traceroute(SubSeq(e, 2 * i - 1, 2 * i))]

(* Measurements of one shape.                                              *)
Uniform(n, X) == [i \in 1..n |-> X]

(* The results of the two runs of tcp-vs-udp.                             *)
tcpOf(e) == tcp_result(run_with_hard_timeout(e[1]))
udpOf(e) == udp_result(run_with_hard_timeout(e[2]))

(* What media-quality runs on: the echoes of its pass, the interval at     *)
(* which it sends, and how its probes of the two transports ended.         *)
mediaEchoes(g) == SubSeq(g, 4, Len(g))
mediaInterval(g) == 1000 \div packets_per_sec(g[1])
mediaSockets(g) ==
  {probe_direct_udp(g[2])} \cup (IF g[3] = "none" THEN {"Refused"} ELSE {probe_turn_tcp(g[3])})

-----------------------------------------------------------------------------
(* AgreesWithReference: packet-loss, the longest run of timeouts.          *)

(* analyze_loss_pattern: the run of timeouts that is open and the longest. *)
LossState == [current : Nat, longest : Nat]
lossStep(acc, got) ==
  IF got THEN [acc EXCEPT !.current = 0]
  ELSE [current |-> acc.current + 1, longest |-> Larger(acc.longest, acc.current + 1)]

(* After k lines of which those in L were timeouts.                        *)
LossRun(acc, L, k) ==
  /\ acc.current <= acc.longest /\ acc.longest <= k
  /\ (k - acc.current + 1)..k \subseteq L
  /\ acc.current < k => k - acc.current \notin L
  /\ \E i \in 1..(k - acc.longest + 1) : i..(i + acc.longest - 1) \subseteq L
  /\ \A i \in 1..k : \A j \in i..k : i..j \subseteq L => j - i + 1 <= acc.longest

-----------------------------------------------------------------------------
(* AgreesWithReference: mtu, the binary search.                            *)

(* The binary search over min..max for the MTU g of the path.              *)
SearchState == [low : Int, high : Int, mtu : Int]

Searching(s, min, max, g, k) ==
  /\ min <= s.low /\ s.low <= s.high + 1 /\ s.high <= max
  /\ s.low - 1 <= g /\ g <= s.high
  /\ s.mtu = IF s.low = min THEN Missing ELSE s.low - 1
  /\ s.low > s.high \/ s.high - s.low + k <= max - min

-----------------------------------------------------------------------------
(* AgreesWithReference: resilience, the sessions that stayed dead.         *)

SessionSample == [session : Int, alive : {"yes", "no", "none"}, route : STRING, nat : STRING,
                  resync : STRING]

(* The session was seen dead and never alive afterwards.                   *)
StayedDead(samples, n, id) ==
  \E i \in 1..n :
    /\ samples[i].session = id /\ samples[i].alive = "no"
    /\ \A j \in (i + 1)..n : samples[j].session = id => samples[j].alive # "yes"

-----------------------------------------------------------------------------
(* AgreesWithReference: the bursts of a pass, and media-quality.           *)

(* compute_burst_distribution: the runs that are closed, and the open one. *)
LostBurst == [start : Int, len : Nat, gap : Int]
BurstScan == [bursts : Seq(LostBurst), start : Int, len : Nat]

burstStep(acc, s, sentAt) ==
  IF s \in DOMAIN sentAt
  THEN [bursts |-> close_run(acc, sentAt), start |-> Missing, len |-> 0]
  ELSE [acc EXCEPT !.start = IF acc.len = 0 THEN s ELSE @, !.len = @ + 1]

(* A maximal run of lost packets that ended before packet k.               *)
ClosedRun(Q, k, s, m) ==
  m > 0 /\ s + m < k /\ s..(s + m - 1) \subseteq Q /\ s - 1 \notin Q /\ s + m \notin Q

(* bursts are the runs of the lost packets Q that ended before packet k.   *)
Runs(bursts, Q, k) ==
  /\ bursts \in Seq(LostBurst)
  /\ \A i \in 1..Len(bursts) : /\ ClosedRun(Q, k, bursts[i].start, bursts[i].len)
                               /\ bursts[i].gap = Missing
  /\ \A s, m \in Nat : ClosedRun(Q, k, s, m) =>
       \E i \in 1..Len(bursts) : bursts[i].start = s /\ bursts[i].len = m

Scanned(acc, Q, k) ==
  /\ acc.len <= k
  /\ acc.len > 0 => acc.start = k - acc.len
  /\ (k - acc.len)..(k - 1) \subseteq Q
  /\ k - acc.len - 1 \notin Q
  /\ Runs(acc.bursts, Q, k)

(* No run of losses lasted 100 ms at the packet interval of the profile.   *)
CoversGap(b, profile) ==
  \A i \in DOMAIN b : 1000 * b[i].len < 101 * packets_per_sec(profile)

-----------------------------------------------------------------------------
(* AgreesWithReference: circuit-compare, the digest of a manifest.         *)

(* The elements of a sequence at one position, or at none.                 *)
OneOrNone(o, s, I) == /\ I = {} => o = <<>>
                      /\ \A i \in I : I = {i} => o = <<s[i]>>

(* The phases of one state.                                                *)
OfState(e, s) == Keep(e, LAMBDA p : p.state = s)

-----------------------------------------------------------------------------
(* AgreesWithReference: thresholds, the hysteresis.                        *)

(* What one more evaluation of the packet-loss profile does to the open    *)
(* threshold, at a mean of t / l.                                          *)
Hysteresis(open, next, t, l) ==
  /\ open = 0 /\ t < 10 * l => next = 0
  /\ open = 1 /\ t >= 80 * l => next = 1
  /\ open = 2 /\ t >= 5 * l => next = 2
  /\ next # open => 0 \in {next, open}

(* o is the slice of s that starts at a and has len elements of T.         *)
Slices(o, s, a, len, T) ==
  /\ o \in Seq(T) /\ DOMAIN o = 1..len /\ Len(o) = len
  /\ \A i \in 1..len : o[i] = s[a + i - 1]

(* The samples of a series, and those of the window that ends at k.        *)
SeriesOf(g, n) == [k \in 1..n |-> [at |-> k, value |-> g[k]]]
WindowStart(k) == Larger(k - 4, 1)

(* threshold_history: one more evaluation.                                 *)
historyStep(h, k, profile, samples) ==
  Append(h, next_open(profile, IF h = <<>> THEN 0 ELSE Last(h),
                      window_value(profile, SubSeq(samples, 1, k))))

(* The window of the packet-loss profile that ends at sample k.            *)
LossMean(g, k) == SubSeq(g, WindowStart(k), k)

(* A history of k evaluations that does not flap.                          *)
Steady(h, g, k) ==
  /\ h \in Seq(0..2) /\ DOMAIN h = 1..k /\ Len(h) = k
  /\ \A j \in 2..k : Hysteresis(h[j - 1], h[j], Total(LossMean(g, j)), Len(LossMean(g, j)))

-----------------------------------------------------------------------------
(* AgreesWithReference: capacity-knee, the order of the sweep.             *)

(* The windows of a sweep that stopped tracking, and the first of them.    *)
Untracking(points) == {v \in SweepWindows(points) : Untracked(points, v)}
IsFirst(v, points) ==
  /\ v \in Untracking(points)
  /\ \A u \in Untracking(points) : u = v \/ SortedBefore(points, v[1], u[1])
FirstUntracking(points) ==
  CHOOSE v \in Untracking(points) :
    \A u \in Untracking(points) : u = v \/ SortedBefore(points, v[1], u[1])

(* The knee, from the number of usable points and the ends of the first    *)
(* window that stopped tracking.                                           *)
KneeOf(usables, bad, x, y) ==
  CASE usables < 3 -> [kind |-> "InsufficientPoints", knee |-> Missing]
    [] usables >= 3 /\ bad = {} -> [kind |-> "NoKneeWithinTestedRange", knee |-> Missing]
    [] OTHER -> IF Unfair(y) THEN [kind |-> "DirectionalUnfairness", knee |-> y.offered]
                ELSE [kind |-> "CapacityPlateau", knee |-> x.offered]

(* A window that stopped tracking is one of neighbours.                    *)
Neighbours(points, U, v) ==
  /\ v \in U \X U /\ SortedBefore(points, v[1], v[2])
  /\ ~\E k \in U : SortedBefore(points, v[1], k) /\ SortedBefore(points, k, v[2])

(* s holds the points of a sweep p in another order of the same n points.  *)
Relabels(f, s, p, n) ==
  /\ DOMAIN s = 1..n /\ DOMAIN p = 1..n /\ f \in [1..n -> 1..n]
  /\ \A k \in 1..n : s[k] = p[f[k]]
  /\ \A i \in 1..n : \E k \in 1..n : f[k] = i
  /\ \A k, l \in 1..n : f[k] = f[l] => k = l
  /\ \A k, l \in 1..n : SortedBefore(s, k, l) <=> SortedBefore(p, f[k], f[l])

(* A sweep in the order of its rates.                                      *)
ByRate(p) == SortedBy(p, LAMBDA x : x.offered)

-----------------------------------------------------------------------------
(* AgreesWithReference: burst-analysis, its bursts and its depths.         *)

(* The runs of lost packets, and the maximal runs of Q within 0..(n - 1).  *)
BurstSet(b) == {<<b[i].start, b[i].len>> : i \in DOMAIN b}
MaximalRuns(Q, n) ==
  {r \in Q \X (1..n) : /\ r[1]..(r[1] + r[2] - 1) \subseteq Q
                       /\ r[1] - 1 \notin Q /\ r[1] + r[2] \notin Q}

(* A sum over a finite set is any additive measure of its subsets.         *)
Adds(C, f, S) ==
  /\ C \in [SUBSET S -> Int] /\ C[{}] = 0
  /\ \A s \in SUBSET S : \A x \in s : C[s] = f[x] + C[s \ {x}]

(* The first n values of v.                                                *)
ValuesOf(v, n) == {v[j] : j \in 1..n}

(* Max(V) is the largest element of V.                                     *)
HasMax(V) == Max(V) \in V /\ \A y \in V : y <= Max(V)

(* The pairs of the elements of D with k.                                  *)
PairsTo(D, k) == {<<j, k>> : j \in D}

(* The pairs of arrivals of which the later one was sent first.            *)
InvertedPairs(d, m) == {p \in (1..m) \X (1..m) : p[1] < p[2] /\ d[p[1]].seq > d[p[2]].seq}

(* The positions of the first echoes of each sequence number, and the      *)
(* pairs of them that were read in reverse.                                *)
FirstEchoes(e) == {i \in DOMAIN e : Known(e[i]) /\ \A j \in 1..(i - 1) : e[j] # e[i]}
InvertedEchoes(e) == {p \in FirstEchoes(e) \X FirstEchoes(e) : p[1] < p[2] /\ e[p[1]] > e[p[2]]}

(* g[k] is the position of the echo that the k-th first arrival d[k] is.   *)
EchoOf(g, d, e) ==
  /\ g \in [1..Len(d) -> FirstEchoes(e)]
  /\ \A k, l \in 1..Len(d) : k < l <=> g[k] < g[l]
  /\ \A k \in 1..Len(d) : e[g[k]] = d[k].seq
  /\ \A i \in FirstEchoes(e) : \E k \in 1..Len(d) : g[k] = i

(* The sum of the depths of reordering events.                             *)
DepthSum(S) == SumFunctionOnSet([x \in S |-> x.depth], S)

(* What the report of one pass says of the echoes it was given.            *)
PassReport(t, e) ==
  /\ t.sent = Len(e) /\ Runs(t.bursts, 0..(Len(e) - 1) \ Range(e), Len(e) + 1)
  /\ DepthSum(t.reordering) = Cardinality(InvertedEchoes(e))

=============================================================================

---------------------------- MODULE LoadVerdicts ----------------------------
(***************************************************************************)
(* What the load matrices conclude from the points they measured: capacity *)
(* knee, size/rate pressure, flow-count and DSCP matrix.                   *)
(***************************************************************************)
EXTENDS Evidence

(***************************************************************************)
(* Capacity knee.  A sweep point is [offered, up, down, rejected].         *)
(***************************************************************************)

(* reject_if_invalid: an error, then a missing interval, then a reported   *)
(* duration more than 20% away from the one requested.                     *)
reject_if_invalid(requested, reported, error) ==
  CASE error                              -> "ProcessFailure"
    [] ~error /\ ~Known(reported)         -> "SchemaIncomplete"
    [] ~error /\ Known(reported) /\ requested > 0
       /\ 5 * Distance(reported, requested) > requested -> "DurationInconsistent"
    [] OTHER                              -> "none"

usable(p) == p.rejected = "none" /\ Known(p.up) /\ Known(p.down)

combined_mbps(p) == IF usable(p) THEN p.up + p.down ELSE Missing

(* balance() <= UNFAIR_BALANCE; a point without traffic has no balance and *)
(* counts as balanced (unwrap_or(1.0)).                                    *)
Unfair(p) == /\ Larger(p.up, p.down) > 0
             /\ 5 * Smaller(p.up, p.down) <= 4 * Larger(p.up, p.down)

NoVerdict == [kind |-> "none", knee |-> Missing]

(* The stable sort by offered rate, as an order on indices.                *)
SortedBefore(points, i, j) ==
  \/ points[i].offered < points[j].offered
  \/ points[i].offered = points[j].offered /\ i < j

(* usable.windows(2): neighbours in that order.                            *)
SweepWindows(points) ==
  LET U == Where(points, usable)
  IN  {w \in U \X U :
         /\ SortedBefore(points, w[1], w[2])
         /\ ~\E k \in U : /\ SortedBefore(points, w[1], k)
                          /\ SortedBefore(points, k, w[2])}

(* Combined throughput gained less than half of what was offered on top.   *)
Untracked(points, w) ==
  LET gain == 2 * (points[w[2]].offered - points[w[1]].offered)
  IN  /\ gain > 0
      /\ 2 * (combined_mbps(points[w[2]]) - combined_mbps(points[w[1]])) < gain

(* detect_knee: the first window that stopped tracking.  A collapse names  *)
(* the upper rate of the window, a plateau the lower one.                  *)
detect_knee(points) ==
  LET U   == Where(points, usable)
      bad == {w \in SweepWindows(points) : Untracked(points, w)}
      w   == CHOOSE v \in bad :
               \A u \in bad : u = v \/ SortedBefore(points, v[1], u[1])
  IN  CASE Cardinality(U) < 3 ->
             [kind |-> "InsufficientPoints", knee |-> Missing]
        [] Cardinality(U) >= 3 /\ bad = {} ->
             [kind |-> "NoKneeWithinTestedRange", knee |-> Missing]
        [] OTHER ->
             IF Unfair(points[w[2]])
             THEN [kind |-> "DirectionalUnfairness", knee |-> points[w[2]].offered]
             ELSE [kind |-> "CapacityPlateau", knee |-> points[w[1]].offered]

(* cross_validate: the two knees lie within 35% of the larger one.         *)
cross_validate(native, application) ==
  CASE application = NoVerdict -> "NotAttempted"
    [] application # NoVerdict /\ Known(native.knee) /\ Known(application.knee) ->
         IF /\ Larger(native.knee, application.knee) > 0
            /\ 20 * Distance(native.knee, application.knee)
                 <= 7 * Larger(native.knee, application.knee)
         THEN "Reproduced" ELSE "NotReproduced"
    [] application # NoVerdict /\ ~Known(native.knee) /\ ~Known(application.knee) ->
         "NotAttempted"
    [] OTHER -> "NotReproduced"

(* DriftBracket::exceeds_tolerance, "none" when either control is missing. *)
exceeds_tolerance(opening, closing) ==
  IF Known(opening) /\ Known(closing) /\ opening > 0
  THEN IF 20 * Distance(opening, closing) > 3 * opening THEN "yes" ELSE "no"
  ELSE "none"

(* build_report.                                                           *)
knee_report(native, nv, application, av, opening, closing) ==
  LET cv == cross_validate(nv, av)
  IN  [native |-> nv, application |-> av, validation |-> cv,
       rejected |-> {native[i].offered : i \in {j \in DOMAIN native :
                                                 native[j].rejected # "none"}}
               \cup {application[i].offered : i \in {j \in DOMAIN application :
                                                 application[j].rejected # "none"}},
       established |-> IF /\ cv = "Reproduced"
                          /\ exceeds_tolerance(opening, closing) = "no"
                       THEN nv ELSE NoVerdict]

(* The capacity-knee command: an unreadable file, then nothing to analyse. *)
build_knee_report(native, application, opening, closing) ==
  knee_report(native, detect_knee(native), application,
              IF application = <<>> THEN NoVerdict ELSE detect_knee(application), opening, closing)

capacity_knee_run(a) ==
  CASE ~a.readable                       -> Refusal(1)
    [] a.readable /\ a.native = <<>>     -> Refusal(2)
    [] OTHER -> Completed(build_knee_report(a.native, a.application,
                                            a.opening, a.closing))

(***************************************************************************)
(* Size/rate pressure.  A size point is [size, offered, received]; its     *)
(* loss is Missing when nothing was offered.                               *)
(***************************************************************************)

loss_percent(p) ==
  IF p.offered > 0
  THEN (100 * (p.offered - Smaller(p.received, p.offered))) \div p.offered
  ELSE Missing

(* endpoints: the smallest and the largest size with a known loss, the     *)
(* sort being stable.                                                      *)
endpoints(points) ==
  LET U == {i \in DOMAIN points : Known(loss_percent(points[i]))}
      Less(i, j) == \/ points[i].size < points[j].size
                    \/ points[i].size = points[j].size /\ i < j
  IN  IF Cardinality(U) < 2 THEN <<>>
      ELSE << points[CHOOSE i \in U : \A j \in U : i = j \/ Less(i, j)],
              points[CHOOSE i \in U : \A j \in U : i = j \/ Less(j, i)] >>

material_rise(from, to) == 2 * to > 3 * from /\ to - from > 10

(* classify_pressure: loss that rises as packets shrink at a constant byte *)
(* rate, against loss that rises as they grow at a constant packet rate.   *)
classify_pressure(byteRate, packetRate) ==
  LET b == endpoints(byteRate)
      p == endpoints(packetRate)
      ceiling  == material_rise(loss_percent(b[2]), loss_percent(b[1]))
      policing == material_rise(loss_percent(p[1]), loss_percent(p[2]))
  IN  CASE b = <<>> \/ p = <<>> -> "Inconclusive"
        [] b # <<>> /\ p # <<>> /\ ceiling /\ ~policing -> "PacketRateCeiling"
        [] b # <<>> /\ p # <<>> /\ ~ceiling /\ policing -> "ByteRatePolicing"
        [] OTHER -> "Inconclusive"

max_safe_payload(mtu, ip, udp) == Larger(mtu - (ip + udp), 0)

(* build_sweep: a size that would fragment at the measured MTU, or whose   *)
(* phase could not be set up (outcome Missing), leaves no point.           *)
build_sweep(mtu, measured) ==
  Keep(measured, LAMBDA p : /\ Known(mtu)
                                 /\ p.size <= max_safe_payload(mtu, 20, 8)
                                 /\ Known(p.offered))

size_rate_matrix_run(a) ==
  IF a.live_event = a.maintenance THEN Refusal(2)
  ELSE Completed(classify_pressure(build_sweep(a.mtu, a.byteRate),
                                   build_sweep(a.mtu, a.packetRate)))

(***************************************************************************)
(* Flow-count and DSCP matrix.  A flow point is [flows, aggregate, loss,   *)
(* repeated], a capture sample [sent, src, dst].                           *)
(***************************************************************************)

(* Mutant: a point without a measurement is left out of the comparison.    *)
held_constant_measured(points) ==
  LET M     == {i \in DOMAIN points : Known(points[i].aggregate)}
      n     == Cardinality(M)
      total == SumFunctionOnSet([i \in DOMAIN points |-> points[i].aggregate], M)
  IN  /\ n >= 2
      /\ total > 0 =>
           \A i \in M : 100 * Distance(points[i].aggregate * n, total) <= 15 * total

(* check_aggregate_constancy: every point measured, and none more than 15% *)
(* away from the mean.                                                     *)
held_constant(points) ==
  LET n     == Len(points)
      M     == {i \in DOMAIN points : Known(points[i].aggregate)}
      total == SumFunctionOnSet([i \in DOMAIN points |-> points[i].aggregate], M)
  IN  /\ Cardinality(M) >= 2
      /\ Cardinality(M) = n
      /\ total > 0 =>
           \A i \in M : 100 * Distance(points[i].aggregate * n, total) <= 15 * total

(* detect_control_drift: each repeat against the first run of its count.   *)
detect_control_drift(points) ==
  LET First(i) == {j \in 1 .. i - 1 : /\ points[j].flows = points[i].flows
                                      /\ ~points[j].repeated
                                      /\ Known(points[j].loss)}
  IN  {[repeat |-> i, first |-> Min(First(i)),
        drifted |-> Distance(points[i].loss, points[Min(First(i))].loss) > 10] :
        i \in {k \in DOMAIN points : /\ points[k].repeated
                                     /\ Known(points[k].loss)
                                     /\ First(k) # {}}}

(* classify_dscp_survival: one sample without both captures withholds the  *)
(* claim for the class.                                                    *)
classify_dscp_survival(samples) ==
  CASE samples = <<>> -> "Unverified"
    [] \E i \in DOMAIN samples : ~Known(samples[i].src) \/ ~Known(samples[i].dst) ->
         "Unverified"
    [] samples # <<>> /\ \A i \in DOMAIN samples :
            /\ Known(samples[i].src) /\ Known(samples[i].dst)
            /\ samples[i].src = samples[i].dst -> "Survived"
    [] OTHER -> "AlteredOnPath"

build_dscp_result(samples, loss) ==
  LET s == classify_dscp_survival(samples)
  IN  [survival |-> s, loss |-> IF s = "Survived" THEN loss ELSE Missing]

(* The flow-dscp-matrix command measures no loss.  It takes the value it   *)
(* set on the socket for the one observed at the source, and what a        *)
(* capture at the destination showed from the operator.                    *)
flow_dscp_matrix_run(a) ==
  IF a.live_event = a.maintenance THEN Refusal(2)
  ELSE Completed([constant |-> held_constant(a.points),
                  drift    |-> detect_control_drift(a.points),
                  dscp     |-> [c \in DOMAIN a.classes |->
          build_dscp_result(<<[sent |-> c,
                               src  |-> IF a.classes[c].sent_ok THEN c ELSE Missing,
                               dst  |-> a.classes[c].observed]>>, Missing)]])
=============================================================================

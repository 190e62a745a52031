----------------------- MODULE Investigations_proofs -----------------------
(***************************************************************************)
(* Proofs about Investigations, for every set of measurements of the       *)
(* shapes that Shapes describes: its type invariant and its three safety   *)
(* invariants.  The machine does little but gather; the work is in showing *)
(* what each engine computes.  Its folds, filters, sorts and sums are      *)
(* recursive functions and folds of the libraries, so that most engines    *)
(* need an induction over the length of what they were given.  UpTo is that*)
(* induction, by a least counterexample; FoldTrace, InOrderIs, TotalIs and *)
(* SumIs are what a fold, a sort, a total and a sum compute, step by step. *)
(***************************************************************************)
EXTENDS InvestigationTerms, SequenceTheorems, FiniteSetTheorems, WellFoundedInduction, TLAPS

-----------------------------------------------------------------------------
(* The machine. *)

(* The evidence stays what was gathered, the outcome its verdict. *)
LEMMA MachineInvariant == Spec => []MachineInv
<1>1. Init => MachineInv BY InvestigationsAssumption DEF Init, MachineInv, Gathered, Reported, Commands
<1>2. MachineInv /\ [Next]_vars => MachineInv'
  <2> SUFFICES ASSUME MachineInv, [Next]_vars PROVE MachineInv' OBVIOUS
  <2>1. CASE ~Complete /\ \E m \in Measurements[command][Len(evidence) + 1] : Gather(m)
    <3>1. PICK m \in Measurements[command][Len(evidence) + 1] : Gather(m) BY <2>1
    <3>2. /\ command \in Commands /\ evidence \in Seq(Values) /\ Len(evidence) \in Nat
          /\ Len(Measurements[command]) \in Nat
          /\ DOMAIN Measurements[command] = 1..Len(Measurements[command])
          /\ Len(evidence) + 1 \in 1..Len(Measurements[command])
      BY <2>1, InvestigationsAssumption DEF MachineInv, Gathered, Complete, Commands
    <3>3. m \in Values BY <3>2 DEF Values
    <3>4. Gathered' BY <3>1, <3>2, <3>3 DEF MachineInv, Gathered, Gather
    <3>5. outcome = Running BY <2>1 DEF MachineInv, Reported
    <3> QED BY <3>1, <3>4, <3>5 DEF MachineInv, Reported, Gather
  <2>2. CASE Report BY <2>2 DEF Report, MachineInv, Gathered, Reported, Complete
  <2>3. CASE UNCHANGED vars BY <2>3 DEF vars, MachineInv, Gathered, Reported, Complete
  <2> QED BY <2>1, <2>2, <2>3 DEF Next
<1> QED BY <1>1, <1>2, PTL DEF Spec

(* A command is answered by the engine group it belongs to. *)
LEMMA Routes ==
  ASSUME NEW c, NEW g, NEW ok
  PROVE  /\ c \in LoadCommands => dispatch(c, g, ok) = load_report(c, g, ok)
         /\ c \in ComparisonCommands => dispatch(c, g, ok) = comparison_report(c, g, ok)
         /\ c \in EvidenceCommands => dispatch(c, g, ok) = evidence_report(c, g, ok)
         /\ c \in ControlCommands => dispatch(c, g, ok) = control_report(c, g, ok)
         /\ c \in PathCommands => dispatch(c, g, ok) = path_report(c, g, ok)
BY Zenon DEF dispatch, LoadCommands, StreamCommands, ComparisonCommands, EvidenceCommands,
             ControlCommands, PathCommands, PacketCommands, DiagnosisCommands

(* Complete evidence of two measurements of one shape. *)
LEMMA TwoShaped ==
  ASSUME NEW c, NEW S, NEW g, Shaped(c, g), Shapes(c) = [i \in 1..2 |-> S]
  PROVE  DOMAIN g = 1..2 /\ g[1] \in S /\ g[2] \in S
<1>1. Len(Shapes(c)) = 2 OBVIOUS
<1>2. DOMAIN g = 1..2 /\ g[1] \in Shapes(c)[1] /\ g[2] \in Shapes(c)[2] BY <1>1 DEF Shaped
<1> QED BY <1>2

(* Each measurement of complete evidence has its own shape. *)
LEMMA ShapedAt ==
  ASSUME NEW c, NEW g, Shaped(c, g), NEW n \in Nat, Len(Shapes(c)) = n
  PROVE  DOMAIN g = 1..n /\ \A i \in 1..n : g[i] \in Shapes(c)[i]
BY DEF Shaped

(* Three positions are three. *)
LEMMA ThreeOfThree == IsFiniteSet(1..3) /\ Cardinality(1..3) = 3
<1>1. 1 \in Int /\ 3 \in Int OBVIOUS
<1>2. IsFiniteSet(1..3) /\ Cardinality(1..3) = IF 1 > 3 THEN 0 ELSE 3 - 1 + 1 BY <1>1, FS_Interval, Zenon
<1>3. (IF 1 > 3 THEN 0 ELSE 3 - 1 + 1) = 3 OBVIOUS
<1> QED BY <1>2, <1>3

(* Measurements of one shape all have it. *)
LEMMA AllShaped ==
  ASSUME NEW c, NEW g, Shaped(c, g), NEW n \in Nat, NEW X, Shapes(c) = Uniform(n, X)
  PROVE  DOMAIN g = 1..n /\ \A i \in 1..n : g[i] \in X
BY DEF Shaped, Uniform

(* The report of a completed command. *)
LEMMA ReportOf == \A r : Completed(r).report = r /\ Completed(r).exit = 0
BY DEF Completed

(* The least element of a set of natural numbers. *)
LEMMA MinNat ==
  ASSUME NEW T, T \subseteq Nat, T # {}
  PROVE  Min(T) \in T /\ \A y \in T : Min(T) <= y
<1>1. PICK x \in T : \A y \in T : ~(<<y, x>> \in OpToRel(<, Nat)) BY NatLessThanWellFounded, WFMin
<1>2. ASSUME NEW y \in T PROVE x <= y
  <2>1. <<y, x>> \in Nat \X Nat /\ <<y, x>>[1] = y /\ <<y, x>>[2] = x OBVIOUS
  <2>2. ~(<<y, x>>[1] < <<y, x>>[2]) BY <1>1, <2>1 DEF OpToRel
  <2>3. ~(y < x) BY <2>1, <2>2
  <2> QED BY <2>3
<1> QED BY <1>1, <1>2 DEF Min

(* The greatest element of a bounded set of natural numbers. *)
LEMMA MaxNat ==
  ASSUME NEW T, T \subseteq Nat, T # {}, NEW n \in Nat, \A y \in T : y <= n
  PROVE  Max(T) \in T /\ \A y \in T : y <= Max(T)
<1> DEFINE U == {n - y : y \in T}
<1>1. U \subseteq Nat /\ U # {}
  <2>1. \A y \in T : n - y \in Nat OBVIOUS
  <2>2. \A u \in U : \E y \in T : u = n - y OBVIOUS
  <2>3. PICK y : y \in T OBVIOUS
  <2>4. n - y \in U BY <2>3
  <2> HIDE DEF U
  <2> QED BY <2>1, <2>2, <2>4
<1>2. Min(U) \in U /\ \A z \in U : Min(U) <= z
  <2> HIDE DEF U
  <2> QED BY <1>1, MinNat
<1>3. PICK x \in T : n - x = Min(U) BY <1>2
<1>4. \A y \in T : n - x <= n - y BY <1>2, <1>3
<1>5. \A y \in T : x >= y BY <1>4
<1> QED BY <1>5 DEF Max

-----------------------------------------------------------------------------
(* LosingEvidenceOnlyWithholds, the losses that are noticed, one command   *)
(* after the other.                                                        *)

(* attribute_wired_vs_wifi needs both losses and one egress. *)
LEMMA WiredControlWithholds ==
  ASSUME NEW g, NEW ok, Shaped("wired-control", g)
  PROVE  Withholds("wired-control", g, ok)
<1> DEFINE c == "wired-control"
           Path == [loss : Int, egress : STRING]
<1>1. DOMAIN g = 1..2 /\ g[1] \in Path /\ g[2] \in Path
  <2>1. Shapes(c) = [i \in 1..2 |-> Path] BY Zenon DEF Shapes
  <2> QED BY <2>1, TwoShaped
<1>2. ASSUME NEW e PROVE dispatch(c, e, ok) = Completed(attribute_wired_vs_wifi(e[1], e[2]))
  <2>1. dispatch(c, e, ok) = control_report(c, e, ok) BY Routes DEF ControlCommands
  <2>2. control_report(c, e, ok) = wired_control_run([wired |-> e[1], wifi |-> e[2]]) BY Zenon DEF control_report
  <2> QED BY <2>1, <2>2 DEF wired_control_run
<1>3. ASSUME NEW i \in DOMAIN g, NEW m \in LostForms(c, i, g[i])
      PROVE  claims(c, dispatch(c, [g EXCEPT ![i] = m], ok).report) = {}
  <2> DEFINE h == [g EXCEPT ![i] = m]
  <2>1. LostForms(c, i, g[i]) = {[g[i] EXCEPT !.loss = Missing], [g[i] EXCEPT !.egress = "none"]}
    BY Zenon DEF LostForms
  <2>2. ~Known(m.loss) \/ m.egress = "none" BY <1>1, <2>1 DEF Known, Missing
  <2>3. h[i] = m /\ i \in 1..2 BY <1>1
  <2> HIDE DEF h
  <2>4. attribute_wired_vs_wifi(h[1], h[2]) = "Withheld" BY <2>2, <2>3 DEF attribute_wired_vs_wifi, same_egress
  <2>5. dispatch(c, h, ok).report = "Withheld" BY <1>2, <2>4, ReportOf
  <2>6. claims(c, "Withheld") = {"Withheld"} \ {"Withheld"} BY Zenon DEF claims
  <2> QED BY <2>5, <2>6 DEF h
<1> QED BY <1>3 DEF Withholds

(* Without an identity on either side no two access points are compared. *)
LEMMA NoIdentityWithholds ==
  ASSUME NEW c \in {"ap-identity", "roaming"}, NEW g, Shaped(c, g),
         NEW i \in DOMAIN g, NEW m \in LostForms(c, i, g[i])
  PROVE  /\ i \in 1..2
         /\ LET h == [g EXCEPT ![i] = m]
            IN  compare_ap_identity(sample_identity(h[1]), sample_identity(h[2])) = "Unavailable"
<1> DEFINE Sample == [salt : BOOLEAN, wdutil : STRING, bssid : STRING, band : STRING]
           h == [g EXCEPT ![i] = m]
<1>1. DOMAIN g = 1..2 /\ g[1] \in Sample /\ g[2] \in Sample
  <2>1. Shapes(c) = [j \in 1..2 |-> Sample] BY Zenon DEF Shapes
  <2> QED BY <2>1, TwoShaped
<1>2. LostForms(c, i, g[i]) = {[g[i] EXCEPT !.salt = FALSE], [g[i] EXCEPT !.wdutil = "denied"],
                               [g[i] EXCEPT !.bssid = "none"]}
  BY Zenon DEF LostForms
<1>3. m.salt = FALSE \/ m.wdutil = "denied" \/ m.bssid = "none" BY <1>1, <1>2
<1>4. sample_identity(m) = NoIdentity BY <1>3 DEF sample_identity
<1>5. h[i] = m /\ i \in 1..2 BY <1>1
<1> HIDE DEF h
<1>6. NoIdentity \in {sample_identity(h[1]), sample_identity(h[2])} BY <1>4, <1>5
<1>7. compare_ap_identity(sample_identity(h[1]), sample_identity(h[2])) = "Unavailable"
  BY <1>6 DEF compare_ap_identity
<1> QED BY <1>5, <1>7 DEF h

(* Mutes: losing any measurement leaves no claim at all. *)
LEMMA MuteWithholds ==
  ASSUME NEW c, NEW g, NEW ok,
         \A i \in DOMAIN g : \A m \in LostForms(c, i, g[i]) :
           \/ dispatch(c, [g EXCEPT ![i] = m], ok).exit # 0
           \/ claims(c, dispatch(c, [g EXCEPT ![i] = m], ok).report) = {}
  PROVE  Withholds(c, g, ok)
BY DEF Withholds

(* A lost identity never makes a comparison of access points available. *)
LEMMA ApIdentityWithholds ==
  ASSUME NEW g, NEW ok, Shaped("ap-identity", g)
  PROVE  Withholds("ap-identity", g, ok)
<1> DEFINE c == "ap-identity"
           compared(e) == compare_ap_identity(sample_identity(e[1]), sample_identity(e[2]))
<1>1. ASSUME NEW e
      PROVE  dispatch(c, e, ok) =
               Completed([identity |-> sample_identity(e[1]),
                          comparison |-> IF ok THEN compared(e) ELSE "none"])
  <2>1. dispatch(c, e, ok) = comparison_report(c, e, ok) BY Routes DEF ComparisonCommands
  <2>2. comparison_report(c, e, ok) =
          ap_identity_run([first |-> e[1], second |-> e[2], compare |-> ok])
    BY Zenon DEF comparison_report
  <2> QED BY <2>1, <2>2 DEF ap_identity_run
<1>2. ASSUME NEW i \in DOMAIN g, NEW m \in LostForms(c, i, g[i])
      PROVE  claims(c, dispatch(c, [g EXCEPT ![i] = m], ok).report) = {}
  <2> DEFINE h == [g EXCEPT ![i] = m]
             r == dispatch(c, h, ok).report
  <2>1. compared(h) = "Unavailable" BY NoIdentityWithholds
  <2> HIDE DEF h, compared
  <2>2. r.comparison \in {"Unavailable", "none"}
    <3>1. dispatch(c, h, ok) = Completed([identity |-> sample_identity(h[1]),
                                          comparison |-> IF ok THEN compared(h) ELSE "none"])
      BY <1>1
    <3>2. r = [identity |-> sample_identity(h[1]),
               comparison |-> IF ok THEN compared(h) ELSE "none"]
      BY <3>1, ReportOf
    <3> QED BY <2>1, <3>2
  <2> HIDE DEF r
  <2>3. claims(c, r) = {r.comparison} \ {"Unavailable", "none"} BY Zenon DEF claims
  <2>4. claims(c, r) = {} BY <2>2, <2>3
  <2> QED BY <2>4 DEF r, h
<1> QED BY <1>2, MuteWithholds

(* A lost identity never determines what a roam was. *)
LEMMA RoamingWithholds ==
  ASSUME NEW g, NEW ok, Shaped("roaming", g)
  PROVE  Withholds("roaming", g, ok)
<1> DEFINE c == "roaming"
           id == IF ok THEN "id" ELSE "none"
<1>1. ASSUME NEW e
      PROVE  dispatch(c, e, ok) =
               Completed(build_transition(sample_identity(e[1]), sample_identity(e[2]), "id", id))
  <2>1. dispatch(c, e, ok) = comparison_report(c, e, ok) BY Routes DEF ComparisonCommands
  <2>2. comparison_report(c, e, ok) =
          roaming_run([first |-> e[1], second |-> e[2], identity_before |-> "id",
                       identity_after |-> id])
    BY Zenon DEF comparison_report
  <2> QED BY <2>1, <2>2 DEF roaming_run
<1>2. ASSUME NEW i \in DOMAIN g, NEW m \in LostForms(c, i, g[i])
      PROVE  claims(c, dispatch(c, [g EXCEPT ![i] = m], ok).report) = {}
  <2> DEFINE h == [g EXCEPT ![i] = m]
             r == dispatch(c, h, ok).report
  <2>1. compare_ap_identity(sample_identity(h[1]), sample_identity(h[2])) = "Unavailable" BY NoIdentityWithholds
  <2> HIDE DEF h, id
  <2>2. r.kind = "Undetermined"
    <3>1. dispatch(c, h, ok) = Completed(build_transition(sample_identity(h[1]),
                                                          sample_identity(h[2]), "id", id))
      BY <1>1
    <3>2. r = build_transition(sample_identity(h[1]), sample_identity(h[2]), "id", id) BY <3>1, ReportOf
    <3> QED BY <2>1, <3>2 DEF build_transition
  <2> HIDE DEF r
  <2>3. claims(c, r) = {r.kind} \ {"Undetermined"} BY Zenon DEF claims
  <2>4. claims(c, r) = {} BY <2>2, <2>3
  <2> QED BY <2>4 DEF r, h
<1> QED BY <1>2, MuteWithholds

(* A difference between platforms needs both rates. *)
LEMMA PlatformMatrixWithholds ==
  ASSUME NEW g, NEW ok, Shaped("platform-matrix", g)
  PROVE  Withholds("platform-matrix", g, ok)
<1> DEFINE c == "platform-matrix"
           Result == [os : STRING, driver : STRING, kernel : STRING, phy : STRING,
                      iperf : STRING, mbps : Int]
<1>1. DOMAIN g = 1..2 /\ g[1] \in Result /\ g[2] \in Result
  <2>1. Shapes(c) = [i \in 1..2 |-> Result] BY Zenon DEF Shapes
  <2> QED BY <2>1, TwoShaped
<1>2. ASSUME NEW e
      PROVE  dispatch(c, e, ok) =
               Completed(IF ok THEN attribute_difference(e[1], e[2])
                         ELSE [kind |-> "none", axes |-> {}, delta |-> {}])
  <2>1. dispatch(c, e, ok) = comparison_report(c, e, ok) BY Routes DEF ComparisonCommands
  <2>2. comparison_report(c, e, ok) =
          platform_matrix_run([compare |-> IF ok THEN "ok" ELSE "none", local |-> e[1],
                               other |-> e[2]])
    BY Zenon DEF comparison_report
  <2> QED BY <2>1, <2>2 DEF platform_matrix_run
<1>3. ASSUME NEW i \in DOMAIN g, NEW m \in LostForms(c, i, g[i])
      PROVE  claims(c, dispatch(c, [g EXCEPT ![i] = m], ok).report) = {}
  <2> DEFINE h == [g EXCEPT ![i] = m]
             r == dispatch(c, h, ok).report
  <2>1. LostForms(c, i, g[i]) = {[g[i] EXCEPT !.mbps = Missing]} BY Zenon DEF LostForms
  <2>2. ~Known(m.mbps) BY <1>1, <2>1 DEF Known, Missing
  <2>3. h[i] = m /\ i \in 1..2 BY <1>1
  <2> HIDE DEF h
  <2>4. ~Known(h[1].mbps) \/ ~Known(h[2].mbps) BY <2>2, <2>3
  <2>5. attribute_difference(h[1], h[2]).delta = {} BY <2>4 DEF attribute_difference
  <2>6. r.delta = {} BY <1>2, <2>5, ReportOf
  <2> HIDE DEF r
  <2>7. claims(c, r) = r.delta BY Zenon DEF claims
  <2> QED BY <2>6, <2>7 DEF r, h
<1> QED BY <1>3, MuteWithholds

(* What wired-edge reports. *)
LEMMA WiredEdgeReport ==
  ASSUME NEW e, NEW ok
  PROVE  dispatch("wired-edge", e, ok) =
           IF ok THEN Completed([verdict |-> judge_wired_edge(e[1], e[2]),
                                 delta   |-> edge_delta(e[1], e[2])])
           ELSE Refusal(1)
<1> DEFINE c == "wired-edge"
           a == [readable |-> ok, before |-> e[1], after |-> e[2]]
<1>1. dispatch(c, e, ok) = control_report(c, e, ok) BY Routes DEF ControlCommands
<1>2. control_report(c, e, ok) = wired_edge_run(a) BY Zenon DEF control_report
<1>3. a.readable = ok /\ a.before = e[1] /\ a.after = e[2] OBVIOUS
<1> HIDE DEF a
<1>4. CASE ok BY <1>1, <1>2, <1>3, <1>4, Zenon DEF wired_edge_run
<1>5. CASE ~ok BY <1>1, <1>2, <1>3, <1>5, Zenon DEF wired_edge_run
<1> QED BY <1>4, <1>5, Zenon

(* judge_wired_edge refuses as soon as a field is missing on either side. *)
LEMMA WiredEdgeWithholds ==
  ASSUME NEW g, NEW ok, Shaped("wired-edge", g)
  PROVE  Withholds("wired-edge", g, ok)
<1> DEFINE c == "wired-edge"
           Snapshot == [EdgeFields \cup {"poe_requested"} -> Int]
<1>1. DOMAIN g = 1..2 /\ g[1] \in Snapshot /\ g[2] \in Snapshot
  <2>1. Shapes(c) = [i \in 1..2 |-> Snapshot] BY Zenon DEF Shapes
  <2> QED BY <2>1, TwoShaped
<1>2. ASSUME NEW e
      PROVE  dispatch(c, e, ok) =
               wired_edge_run([readable |-> ok, before |-> e[1], after |-> e[2]])
  <2>1. dispatch(c, e, ok) = control_report(c, e, ok) BY Routes DEF ControlCommands
  <2>2. control_report(c, e, ok) =
          wired_edge_run([readable |-> ok, before |-> e[1], after |-> e[2]])
    BY Zenon DEF control_report
  <2> QED BY <2>1, <2>2
<1>3. ASSUME NEW i \in DOMAIN g, NEW m \in LostForms(c, i, g[i]),
             dispatch(c, [g EXCEPT ![i] = m], ok).exit = 0
      PROVE  claims(c, dispatch(c, [g EXCEPT ![i] = m], ok).report) = {}
  <2> DEFINE h == [g EXCEPT ![i] = m]
             r == dispatch(c, h, ok).report
             v == judge_wired_edge(h[1], h[2])
             d == edge_delta(h[1], h[2])
  <2>1. LostForms(c, i, g[i]) = {[g[i] EXCEPT ![f] = Missing] : f \in EdgeFields} BY Zenon DEF LostForms
  <2>2. PICK f \in EdgeFields : m = [g[i] EXCEPT ![f] = Missing] BY <2>1
  <2>3. m[f] = Missing BY <1>1, <2>2
  <2>4. f \in edge_missing(m) BY <2>3 DEF edge_missing, Known
  <2>5. h[i] = m /\ i \in 1..2 BY <1>1
  <2>6. dispatch(c, h, ok).exit = 0 BY <1>3
  <2> HIDE DEF h
  <2>7. v = "Refused" BY <2>4, <2>5 DEF judge_wired_edge
  <2>8. dispatch(c, h, ok) = wired_edge_run([readable |-> ok, before |-> h[1], after |-> h[2]]) BY <1>2
  <2> HIDE DEF v, d
  <2>9. r = [verdict |-> v, delta |-> d] BY <2>6, <2>8 DEF wired_edge_run, Refusal, Completed, v, d
  <2> HIDE DEF r
  <2>10. claims(c, r) = {r.verdict} \ {"Refused"} BY Zenon DEF claims
  <2>11. claims(c, r) = {} BY <2>7, <2>9, <2>10
  <2> QED BY <2>11 DEF r, h
<1> QED BY <1>3, MuteWithholds

(* A clock without an offset or a round trip permits nothing, and says     *)
(* nothing about the other clock.                                          *)
LEMMA ClockShape ==
  ASSUME NEW g, Shaped("clock-guard", g)
  PROVE  /\ DOMAIN g = 1..2
         /\ \A i \in 1..2 : g[i] \in [error : Nat, offset : Int, delay : Int]
<1>1. Shapes("clock-guard") = [i \in 1..2 |-> [error : Nat, offset : Int, delay : Int]] BY Zenon DEF Shapes
<1>2. /\ DOMAIN g = 1..2 /\ g[1] \in [error : Nat, offset : Int, delay : Int]
      /\ g[2] \in [error : Nat, offset : Int, delay : Int]
  BY <1>1, TwoShaped
<1> QED BY <1>2

(* What clock-guard reports of its two clocks. *)
LEMMA ClockReport ==
  ASSUME NEW e, NEW ok
  PROVE  LET r == dispatch("clock-guard", e, ok).report
         IN  /\ dispatch("clock-guard", e, ok).exit = 0
             /\ \A i \in 1..2 : r.clocks[i] = clock(e[i])
             /\ r.merged = "CrossNodeVerified" =>
                  ok /\ permits_one_way_claim(clock(e[1])) /\ permits_one_way_claim(clock(e[2]))
             /\ ok /\ permits_one_way_claim(clock(e[1])) /\ permits_one_way_claim(clock(e[2])) =>
                  r.merged = "CrossNodeVerified"
<1> DEFINE c == "clock-guard"
           v == [i \in 1..2 |-> clock_guard_run([ntp |-> e[i], max_skew |-> MaxSkew]).report]
           w == IF ok THEN v[2] ELSE NoClock
           q == merge_events(<<1>>, <<2>>, v[1], w).confidence
<1>1. dispatch(c, e, ok) = evidence_report(c, e, ok) BY Routes DEF EvidenceCommands
<1>2. evidence_report(c, e, ok) = Completed([clocks |-> v, merged |-> q]) BY Zenon DEF evidence_report
<1>3. \A i \in 1..2 : v[i] = clock(e[i]) BY ReportOf DEF clock_guard_run, clock
<1>4. v[1] = clock(e[1]) /\ v[2] = clock(e[2]) BY <1>3
<1>5. /\ q = "CrossNodeVerified" => permits_one_way_claim(v[1]) /\ permits_one_way_claim(w)
      /\ permits_one_way_claim(v[1]) /\ permits_one_way_claim(w) => q = "CrossNodeVerified"
  <2> HIDE DEF v, w
  <2> QED BY DEF merge_events, permits_one_way_claim, NoClock
<1>6. ~permits_one_way_claim(NoClock) BY DEF permits_one_way_claim, NoClock
<1>7. dispatch(c, e, ok).exit = 0 /\ dispatch(c, e, ok).report = [clocks |-> v, merged |-> q]
  <2> HIDE DEF v, q
  <2> QED BY <1>1, <1>2, ReportOf
<1>8. /\ q = "CrossNodeVerified" => ok /\ permits_one_way_claim(v[1]) /\ permits_one_way_claim(v[2])
      /\ ok /\ permits_one_way_claim(v[1]) /\ permits_one_way_claim(v[2]) => q = "CrossNodeVerified"
  <2> HIDE DEF v, q
  <2> QED BY <1>5, <1>6
<1> HIDE DEF v, q
<1> QED BY <1>3, <1>4, <1>7, <1>8

(* A lost clock never permits a one-way claim. *)
LEMMA ClockGuardWithholds ==
  ASSUME NEW g, NEW ok, Shaped("clock-guard", g)
  PROVE  Withholds("clock-guard", g, ok)
<1> DEFINE c == "clock-guard"
<1>1. ASSUME NEW i \in DOMAIN g, NEW m \in LostForms(c, i, g[i])
      PROVE  claims(c, dispatch(c, [g EXCEPT ![i] = m], ok).report)
               \subseteq claims(c, dispatch(c, g, ok).report)
  <2> DEFINE h == [g EXCEPT ![i] = m]
             r == dispatch(c, g, ok).report
             s == dispatch(c, h, ok).report
             may(x) == permits_one_way_claim(x)
  <2>1. LostForms(c, i, g[i]) = {[g[i] EXCEPT !.offset = Missing], [g[i] EXCEPT !.delay = Missing]}
    BY Zenon DEF LostForms
  <2>2. ~Known(m.offset) \/ ~Known(m.delay) BY <2>1, ClockShape DEF Known, Missing
  <2>3. ~may(clock(m)) BY <2>2 DEF clock, from_ntp_result, permits_one_way_claim
  <2>4. h[i] = m /\ i \in 1..2 /\ \A j \in 1..2 : j # i => h[j] = g[j] BY ClockShape
  <2> HIDE DEF h
  <2>5. \A j \in 1..2 : may(s.clocks[j]) => may(r.clocks[j]) BY <2>3, <2>4, ClockReport
  <2>6. s.merged # "CrossNodeVerified" BY <2>3, <2>4, ClockReport
  <2> HIDE DEF r, s
  <2>7. \A x : claims(c, x) = {y \in {1, 2} : may(x.clocks[y])}
                              \cup {y \in {3} : x.merged = "CrossNodeVerified"}
    BY Zenon DEF claims
  <2>8. claims(c, s) \subseteq claims(c, r) BY <2>5, <2>6, <2>7
  <2> QED BY <2>8 DEF r, s, h
<1> QED BY <1>1 DEF Withholds

(* Neither of a client's two losses leaves a figure. *)
LEMMA ClientIsLost ==
  ASSUME NEW g \in IperfClient,
         NEW m \in {[g EXCEPT !.outcome = "killed"], [g EXCEPT !.document.json = FALSE]}
  PROVE  LostClient(m)
<1>1. g.document \in IperfDocument /\ g \in [outcome : STRING, document : IperfDocument] BY DEF IperfClient
<1>2. [g.document EXCEPT !.json = FALSE].json = FALSE BY <1>1 DEF IperfDocument
<1>3. CASE m = [g EXCEPT !.outcome = "killed"] BY <1>1, <1>3 DEF LostClient
<1>4. CASE m = [g EXCEPT !.document.json = FALSE] BY <1>1, <1>2, <1>4 DEF LostClient
<1> QED BY <1>3, <1>4

(* A lost client has no usable result. *)
LEMMA KilledClient ==
  ASSUME NEW m, LostClient(m)
  PROVE  /\ run_with_hard_timeout(m) = [error |-> "InvalidJson"]
         /\ tcp_result(run_with_hard_timeout(m)) = Unusable
         /\ udp_result(run_with_hard_timeout(m)) = Unusable
<1>1. run_with_hard_timeout(m) = [error |-> "InvalidJson"]
  <2>1. m.document.json = FALSE => parse_iperf_json(m.document) = [error |-> "InvalidJson"]
    BY Zenon DEF parse_iperf_json
  <2> QED BY <2>1 DEF run_with_hard_timeout, LostClient
<1>2. [error |-> "InvalidJson"].error # "none" OBVIOUS
<1> DEFINE r == [error |-> "InvalidJson"]
<1> HIDE DEF r
<1>3. r.error # "none" => tcp_result(r) = Unusable /\ udp_result(r) = Unusable BY DEF tcp_result, udp_result
<1> QED BY <1>1, <1>2, <1>3 DEF r

(* What tcp-vs-udp reports. *)
LEMMA TcpVsUdpReport ==
  ASSUME NEW e, NEW ok
  PROVE  dispatch("tcp-vs-udp", e, ok) =
           IF ok THEN Completed([tcp |-> tcpOf(e), udp |-> udpOf(e),
                                 delta |-> achieved_mbps_delta(tcpOf(e), udpOf(e)),
                                 radio |-> radio_validity_for(e[3], e[4])])
           ELSE Refusal(1)
<1> DEFINE c == "tcp-vs-udp"
           a == [server |-> ok, interface |-> TRUE, local_ip |-> TRUE,
                 tcp |-> e[1], udp |-> e[2], before |-> e[3], after |-> e[4]]
<1>1. dispatch(c, e, ok) = control_report(c, e, ok) BY Routes DEF ControlCommands
<1>2. control_report(c, e, ok) = tcp_vs_udp_run(a) BY Zenon DEF control_report
<1>3. CASE ok BY <1>1, <1>2, <1>3 DEF tcp_vs_udp_run, tcpOf, udpOf
<1>4. CASE ~ok BY <1>1, <1>2, <1>4 DEF tcp_vs_udp_run
<1> QED BY <1>3, <1>4

(* The shape of tcp-vs-udp's measurements. *)
LEMMA TcpVsUdpShape ==
  ASSUME NEW g, Shaped("tcp-vs-udp", g)
  PROVE  DOMAIN g = 1..4 /\ g[1] \in IperfClient /\ g[2] \in IperfClient
<1> DEFINE c == "tcp-vs-udp"
<1>1. Shapes(c) = <<IperfClient, IperfClient, RadioSnapshot, RadioSnapshot>> BY Zenon DEF Shapes
<1>2. Len(Shapes(c)) = 4 BY <1>1
<1>3. DOMAIN g = 1..4 /\ \A i \in 1..4 : g[i] \in Shapes(c)[i] BY <1>2, ShapedAt
<1>4. g[1] \in Shapes(c)[1] /\ g[2] \in Shapes(c)[2] BY <1>3
<1> QED BY <1>1, <1>3, <1>4

(* A lost run or radio sample never adds a difference or a radio state. *)
LEMMA TcpVsUdpWithholds ==
  ASSUME NEW g, NEW ok, Shaped("tcp-vs-udp", g)
  PROVE  Withholds("tcp-vs-udp", g, ok)
<1> DEFINE c == "tcp-vs-udp"
           t(e) == tcpOf(e)
           u(e) == udpOf(e)
           delta(e) == achieved_mbps_delta(t(e), u(e))
           radio(e) == radio_validity_for(e[3], e[4])
<1>1. DOMAIN g = 1..4 /\ g[1] \in IperfClient /\ g[2] \in IperfClient BY TcpVsUdpShape
<1>2. ASSUME NEW e, dispatch(c, e, ok).exit = 0
      PROVE  dispatch(c, e, ok).report =
               [tcp |-> t(e), udp |-> u(e), delta |-> delta(e), radio |-> radio(e)]
  <2> DEFINE r == [tcp |-> t(e), udp |-> u(e), delta |-> delta(e), radio |-> radio(e)]
  <2>1. dispatch(c, e, ok) = IF ok THEN Completed(r) ELSE Refusal(1) BY TcpVsUdpReport
  <2> HIDE DEF r
  <2>2. dispatch(c, e, ok) = Completed(r) BY <1>2, <2>1 DEF Refusal
  <2> QED BY <2>2, ReportOf DEF r
<1>3. ASSUME NEW x
      PROVE  claims(c, x) = {<<"delta", d>> : d \in {y \in {x.delta.delta} : x.delta.known}}
                            \cup {<<"radio", s>> : s \in {x.radio} \ {"invalid"}}
  BY Zenon DEF claims
<1>4. ASSUME NEW i \in DOMAIN g, NEW m \in LostForms(c, i, g[i]),
             dispatch(c, g, ok).exit = 0, dispatch(c, [g EXCEPT ![i] = m], ok).exit = 0
      PROVE  claims(c, dispatch(c, [g EXCEPT ![i] = m], ok).report)
               \subseteq claims(c, dispatch(c, g, ok).report)
  <2> DEFINE h == [g EXCEPT ![i] = m]
             r == dispatch(c, g, ok).report
             s == dispatch(c, h, ok).report
  <2>1. /\ r.delta = delta(g) /\ r.radio = radio(g)
        /\ s.delta = delta(h) /\ s.radio = radio(h)
    <3> HIDE DEF delta, radio, t, u
    <3>1. r = [tcp |-> t(g), udp |-> u(g), delta |-> delta(g), radio |-> radio(g)] BY <1>2, <1>4
    <3>2. s = [tcp |-> t(h), udp |-> u(h), delta |-> delta(h), radio |-> radio(h)] BY <1>2, <1>4
    <3> HIDE DEF r, s
    <3> QED BY <3>1, <3>2
  <2>2. LostForms(c, i, g[i]) =
          IF i <= 2 THEN {[g[i] EXCEPT !.outcome = "killed"], [g[i] EXCEPT !.document.json = FALSE]}
          ELSE {Unavailable}
    BY Zenon DEF LostForms
  <2>3. h[i] = m /\ i \in 1..4 /\ \A j \in 1..4 : j # i => h[j] = g[j] BY <1>1
  <2> HIDE DEF h
  <2>4. CASE i \in 1..2
    <3>1. LostClient(m)
      <4>1. m \in {[g[i] EXCEPT !.outcome = "killed"], [g[i] EXCEPT !.document.json = FALSE]} BY <2>2, <2>4
      <4>2. g[i] \in IperfClient BY <1>1, <2>4
      <4> QED BY <4>1, <4>2, ClientIsLost
    <3>2. t(h) = Unusable \/ u(h) = Unusable BY <2>3, <2>4, <3>1, KilledClient DEF tcpOf, udpOf
    <3>3. ~delta(h).known
      <4> HIDE DEF t, u
      <4> QED BY <3>2 DEF achieved_mbps_delta, Unusable, Known
    <3>4. radio(h) = radio(g) BY <2>3, <2>4
    <3> HIDE DEF delta, radio, r, s
    <3>5. claims(c, s) \subseteq claims(c, r) BY <1>3, <2>1, <3>3, <3>4
    <3> QED BY <3>5 DEF r, s, h
  <2>5. CASE i \in 3..4
    <3>1. m = Unavailable BY <2>2, <2>5
    <3>2. radio(h) = "invalid" BY <2>3, <2>5, <3>1 DEF radio_validity_for, Unavailable
    <3>3. h[1] = g[1] /\ h[2] = g[2] BY <2>3, <2>5
    <3>4. delta(h) = delta(g) BY <3>3 DEF tcpOf, udpOf
    <3> HIDE DEF delta, radio, r, s
    <3>5. claims(c, s) \subseteq claims(c, r) BY <1>3, <2>1, <3>2, <3>4
    <3> QED BY <3>5 DEF r, s, h
  <2>6. i \in 1..2 \/ i \in 3..4 BY <2>3
  <2> QED BY <2>4, <2>5, <2>6
<1> QED BY <1>4 DEF Withholds

(* judge_collapse needs both directions of both process models. *)
LEMMA ProcessModelWithholds ==
  ASSUME NEW g, NEW ok, Shaped("process-model", g)
  PROVE  Withholds("process-model", g, ok)
<1> DEFINE c == "process-model"
           n(e) == native_trial(run_with_hard_timeout(e[1]))
           p(e) == paired_trial(run_with_hard_timeout(e[2]), run_with_hard_timeout(e[3]))
<1>1. /\ DOMAIN g = 1..5
      /\ g[1] \in IperfClient /\ g[2] \in IperfClient /\ g[3] \in IperfClient
  <2> DEFINE External == [readable : BOOLEAN, given : BOOLEAN, value : Int]
  <2>1. Shapes(c) = <<IperfClient, IperfClient, IperfClient, Int, External>> BY Zenon DEF Shapes
  <2> HIDE DEF External
  <2>2. Len(Shapes(c)) = 5 BY <2>1
  <2>3. DOMAIN g = 1..5 /\ \A i \in 1..5 : g[i] \in Shapes(c)[i] BY <2>2, ShapedAt
  <2>4. g[1] \in Shapes(c)[1] /\ g[2] \in Shapes(c)[2] /\ g[3] \in Shapes(c)[3] BY <2>3
  <2> QED BY <2>1, <2>3, <2>4
<1>2. ASSUME NEW e, dispatch(c, e, ok).exit = 0
      PROVE  dispatch(c, e, ok).report =
               [verdict |-> judge_collapse(n(e), p(e)), collapsed |-> receive_path(e[4], e[5])]
  <2> DEFINE a == [interface |-> TRUE, server |-> ok, local_ip |-> TRUE,
                   native |-> e[1], up |-> e[2], down |-> e[3],
                   rcv_collapsed |-> e[4], external |-> e[5]]
             r == [verdict |-> judge_collapse(n(e), p(e)), collapsed |-> receive_path(e[4], e[5])]
  <2>1. dispatch(c, e, ok) = control_report(c, e, ok) BY Routes DEF ControlCommands
  <2>2. control_report(c, e, ok) = process_model_run(a) BY Zenon DEF control_report
  <2>3. process_model_run(a) = IF ~ok \/ ~e[5].readable THEN Refusal(1) ELSE Completed(r) BY DEF process_model_run
  <2> HIDE DEF r
  <2>4. process_model_run(a) = Completed(r) BY <1>2, <2>1, <2>2, <2>3 DEF Refusal
  <2> QED BY <2>1, <2>2, <2>4, ReportOf DEF r
<1>3. ASSUME NEW i \in DOMAIN g, NEW m \in LostForms(c, i, g[i]),
             dispatch(c, [g EXCEPT ![i] = m], ok).exit = 0
      PROVE  claims(c, dispatch(c, [g EXCEPT ![i] = m], ok).report) = {}
  <2> DEFINE h == [g EXCEPT ![i] = m]
             r == dispatch(c, h, ok).report
             v == judge_collapse(n(h), p(h))
  <2>1. LostForms(c, i, g[i]) =
          IF i <= 3 THEN {[g[i] EXCEPT !.outcome = "killed"], [g[i] EXCEPT !.document.json = FALSE]}
          ELSE {}
    BY Zenon DEF LostForms
  <2>2. i \in 1..3 BY <1>1, <2>1
  <2>3. LostClient(m) /\ h[i] = m
    <3>1. m \in {[g[i] EXCEPT !.outcome = "killed"], [g[i] EXCEPT !.document.json = FALSE]} BY <2>1, <2>2
    <3>2. g[i] \in IperfClient BY <1>1, <2>2
    <3> QED BY <1>1, <2>2, <3>1, <3>2, ClientIsLost
  <2>4. r = [verdict |-> v, collapsed |-> receive_path(h[4], h[5])] BY <1>2, <1>3
  <2> HIDE DEF h
  <2>5. /\ run_with_hard_timeout(m).error # "none"
        /\ udp_result(run_with_hard_timeout(m)).mbps = Missing
    BY <2>3, KilledClient DEF Unusable
  <2>6. n(h).up = Missing \/ p(h).up = Missing \/ p(h).down = Missing
    <3>1. CASE i = 1 BY <2>3, <2>5, <3>1 DEF native_trial, NoTrial
    <3>2. CASE i = 2 BY <2>3, <2>5, <3>2 DEF paired_trial
    <3>3. CASE i = 3 BY <2>3, <2>5, <3>3 DEF paired_trial
    <3> QED BY <2>2, <3>1, <3>2, <3>3
  <2>7. v = "Withheld"
    <3> HIDE DEF n, p
    <3> QED BY <2>6 DEF judge_collapse, balance_known, Known
  <2> HIDE DEF r, v
  <2>8. claims(c, r) = {r.verdict} \ {"Withheld"} BY Zenon DEF claims
  <2>9. claims(c, r) = {} BY <2>4, <2>7, <2>8
  <2> QED BY <2>9 DEF r, h
<1> QED BY <1>3, MuteWithholds

(* What multiclient-fairness reports of its two clients. *)
LEMMA FairnessReport ==
  ASSUME NEW e, NEW ok, dispatch("multiclient-fairness", e, ok).exit = 0
  PROVE  dispatch("multiclient-fairness", e, ok).report =
           [verdict |-> evaluate_cross_client(e[1], e[2]), fairness |-> fairnessOf(e)]
<1> DEFINE c == "multiclient-fairness"
           a == [emit |-> ~ok, role |-> "none", writable |-> TRUE, first |-> e[1],
                 second |-> e[2], rates |-> <<e[3], e[4]>>]
           r == [verdict |-> evaluate_cross_client(e[1], e[2]), fairness |-> fairnessOf(e)]
<1>1. dispatch(c, e, ok) = control_report(c, e, ok) BY Routes DEF ControlCommands
<1>2. control_report(c, e, ok) = multiclient_fairness_run(a) BY Zenon DEF control_report
<1>3. multiclient_fairness_run(a) = IF ~ok THEN Refusal(1) ELSE Completed(r)
  BY DEF multiclient_fairness_run, fairnessOf
<1> HIDE DEF r
<1>4. multiclient_fairness_run(a) = Completed(r) BY <1>1, <1>2, <1>3 DEF Refusal
<1> QED BY <1>1, <1>2, <1>4, ReportOf DEF r

(* A lost client never adds a verdict on the clients. *)
LEMMA FairnessWithholds ==
  ASSUME NEW g, NEW ok, Shaped("multiclient-fairness", g)
  PROVE  Withholds("multiclient-fairness", g, ok)
<1> DEFINE c == "multiclient-fairness"
           Descriptor == [start : Int, marks : SUBSET Int, listeners : SUBSET STRING]
<1>1. DOMAIN g = 1..4 /\ g[1] \in Descriptor /\ g[2] \in Descriptor
  <2>1. Shapes(c) = <<Descriptor, Descriptor, Nat, Nat>> BY Zenon DEF Shapes
  <2> HIDE DEF Descriptor
  <2>2. Len(Shapes(c)) = 4 BY <2>1
  <2>3. DOMAIN g = 1..4 /\ \A i \in 1..4 : g[i] \in Shapes(c)[i] BY <2>2, ShapedAt
  <2>4. g[1] \in Shapes(c)[1] /\ g[2] \in Shapes(c)[2] BY <2>3
  <2> QED BY <2>1, <2>3, <2>4
<1>2. ASSUME NEW e, dispatch(c, e, ok).exit = 0
      PROVE  dispatch(c, e, ok).report =
               [verdict |-> evaluate_cross_client(e[1], e[2]), fairness |-> fairnessOf(e)]
  BY <1>2, FairnessReport
<1>3. ASSUME NEW i \in DOMAIN g, NEW m \in LostForms(c, i, g[i]),
             dispatch(c, [g EXCEPT ![i] = m], ok).exit = 0
      PROVE  claims(c, dispatch(c, [g EXCEPT ![i] = m], ok).report) = {}
  <2> DEFINE h == [g EXCEPT ![i] = m]
             r == dispatch(c, h, ok).report
             v == evaluate_cross_client(h[1], h[2])
  <2>1. LostForms(c, i, g[i]) = IF i <= 2 THEN {NoDescriptor, [g[i] EXCEPT !.marks = {}]} ELSE {}
    BY Zenon DEF LostForms
  <2>2. i \in 1..2 /\ h[i] = m BY <1>1, <2>1
  <2>3. m = NoDescriptor \/ m.marks = {} BY <1>1, <2>1, <2>2
  <2>4. r = [verdict |-> v, fairness |-> fairnessOf(h)] BY <1>2, <1>3
  <2> HIDE DEF h
  <2>5. v = [kind |-> "Refused"] BY <2>2, <2>3 DEF evaluate_cross_client
  <2> HIDE DEF r, v
  <2>6. claims(c, r) = {r.verdict.kind} \ {"Refused"} BY Zenon DEF claims
  <2>7. claims(c, r) = {} BY <2>4, <2>5, <2>6
  <2> QED BY <2>7 DEF r, h
<1> QED BY <1>3, MuteWithholds

(* What counter-liveness reports of its readings. *)
LEMMA LivenessAnswer ==
  ASSUME NEW e, NEW ok
  PROVE  dispatch("counter-liveness", e, ok) =
           IF ~Known(read_rx_packets(e[1])) \/ ~Known(read_rx_packets(e[2])) \/ ~ok THEN Refusal(1)
           ELSE Completed([liveness  |-> livenessOf(e),
                           zero_drop |-> qualify_zero_drop_claim(livenessOf(e), e[4], e[5])])
<1> DEFINE c == "counter-liveness"
           before == read_rx_packets(e[1])
           after  == read_rx_packets(e[2])
           widths == [tolerance |-> 2, small |-> 64, large |-> 256]
           r == [liveness  |-> livenessOf(e),
                 zero_drop |-> qualify_zero_drop_claim(livenessOf(e), e[4], e[5])]
           a == [injected |-> FALSE, before |-> before, after |-> after, sockets |-> ok,
                 stimulus |-> e[3], drops |-> e[4], corroborate |-> e[5], widths |-> widths]
<1>1. dispatch(c, e, ok) = evidence_report(c, e, ok) BY Routes DEF EvidenceCommands
<1>2. evidence_report(c, e, ok) = counter_liveness_run(a) BY Zenon DEF evidence_report
<1>3. counter_liveness_run(a) =
        IF ~Known(before) \/ ~Known(after) \/ ~ok THEN Refusal(1) ELSE Completed(r)
  BY DEF counter_liveness_run, livenessOf
<1> HIDE DEF before, after, r, a
<1>4. dispatch(c, e, ok) =
        IF ~Known(before) \/ ~Known(after) \/ ~ok THEN Refusal(1) ELSE Completed(r)
  BY <1>1, <1>2, <1>3
<1> QED BY <1>4 DEF before, after, r

(* The interface was listed twice when there is a report. *)
LEMMA LivenessReport ==
  ASSUME NEW e, NEW ok, dispatch("counter-liveness", e, ok).exit = 0
  PROVE  /\ Known(read_rx_packets(e[1])) /\ Known(read_rx_packets(e[2]))
         /\ dispatch("counter-liveness", e, ok).report =
              [liveness  |-> livenessOf(e),
               zero_drop |-> qualify_zero_drop_claim(livenessOf(e), e[4], e[5])]
<1> DEFINE c == "counter-liveness"
           before == read_rx_packets(e[1])
           after  == read_rx_packets(e[2])
           r == [liveness  |-> livenessOf(e),
                 zero_drop |-> qualify_zero_drop_claim(livenessOf(e), e[4], e[5])]
<1>1. dispatch(c, e, ok) =
        IF ~Known(before) \/ ~Known(after) \/ ~ok THEN Refusal(1) ELSE Completed(r)
  BY LivenessAnswer
<1> HIDE DEF before, after, r
<1>2. Known(before) /\ Known(after) /\ dispatch(c, e, ok) = Completed(r) BY <1>1 DEF Refusal
<1>3. dispatch(c, e, ok).report = r BY <1>2, ReportOf
<1> QED BY <1>2, <1>3 DEF before, after, r

(* A lost reading never adds a claim of zero drops. *)
LEMMA LivenessWithholds ==
  ASSUME NEW g, NEW ok, Shaped("counter-liveness", g)
  PROVE  Withholds("counter-liveness", g, ok)
<1> DEFINE c == "counter-liveness"
<1>1. ASSUME NEW i \in DOMAIN g, NEW m \in LostForms(c, i, g[i]),
             dispatch(c, [g EXCEPT ![i] = m], ok).exit = 0
      PROVE  claims(c, dispatch(c, [g EXCEPT ![i] = m], ok).report) = {}
  <2> DEFINE h == [g EXCEPT ![i] = m]
             r == dispatch(c, h, ok).report
  <2>1. LostForms(c, i, g[i]) = IF i \in {1, 2, 5} THEN {<<>>} ELSE {} BY Zenon DEF LostForms
  <2>2. i \in {1, 2, 5} /\ m = <<>> BY <2>1
  <2>3. h[i] = <<>> BY <2>2
  <2>4. dispatch(c, h, ok).exit = 0 BY <1>1
  <2> HIDE DEF h
  <2>5. Known(read_rx_packets(h[1])) /\ Known(read_rx_packets(h[2])) BY <2>4, LivenessReport
  <2>6. read_rx_packets(<<>>) = Missing BY DEF read_rx_packets, FirstOr, Where
  <2>7. h[5] = <<>> BY <2>2, <2>3, <2>5, <2>6 DEF Known
  <2>8. \A v, d : qualify_zero_drop_claim(v, d, <<>>) = "withheld" BY DEF qualify_zero_drop_claim, zero_drop_sources
  <2>9. r.zero_drop = "withheld"
    <3> DEFINE v == livenessOf(h)
    <3>1. r = [liveness |-> v, zero_drop |-> qualify_zero_drop_claim(v, h[4], h[5])] BY <2>4, LivenessReport
    <3> HIDE DEF r, v
    <3> QED BY <2>7, <2>8, <3>1
  <2> HIDE DEF r
  <2>10. claims(c, r) = {r.zero_drop} \ {"withheld"} BY Zenon DEF claims
  <2>11. claims(c, r) = {} BY <2>9, <2>10
  <2> QED BY <2>11 DEF r, h
<1> QED BY <1>1, MuteWithholds

(* Without both controls no drift bracket holds and no knee is established.*)
LEMMA KneeReport ==
  ASSUME NEW e, NEW ok, dispatch("capacity-knee", e, ok).exit = 0
  PROVE  dispatch("capacity-knee", e, ok).report =
           build_knee_report(SubSeq(e, 3, 5), SubSeq(e, 6, 8), e[1], e[2])
<1> DEFINE c == "capacity-knee"
           n == SubSeq(e, 3, 5)
           p == SubSeq(e, 6, 8)
           a == [readable |-> ok, native |-> n, application |-> p, opening |-> e[1],
                 closing |-> e[2]]
           r == build_knee_report(n, p, e[1], e[2])
<1>1. dispatch(c, e, ok) = load_report(c, e, ok) BY Routes DEF LoadCommands
<1>2. load_report(c, e, ok) = capacity_knee_run(a) BY SMT DEF load_report
<1> HIDE DEF n, p
<1>3. capacity_knee_run(a) \in {Refusal(1), Refusal(2), Completed(r)}
  <2> HIDE DEF r
  <2>1. \/ capacity_knee_run(a) = Refusal(1) \/ capacity_knee_run(a) = Refusal(2)
        \/ capacity_knee_run(a) = Completed(build_knee_report(a.native, a.application,
                                                              a.opening, a.closing))
    BY DEF capacity_knee_run
  <2> QED BY <2>1 DEF r
<1>4. dispatch(c, e, ok) = Completed(r)
  <2> HIDE DEF r, a
  <2> QED BY <1>1, <1>2, <1>3 DEF Refusal
<1> HIDE DEF r
<1> QED BY <1>4, ReportOf DEF r, n, p

(* A sweep of three points that lost one has too few. *)
LEMMA LostPoint ==
  ASSUME NEW points, DOMAIN points = 1..3, NEW k \in 1..3, ~usable(points[k])
  PROVE  detect_knee(points).knee = Missing
<1> DEFINE U == {i \in DOMAIN points : usable(points[i])}
<1>1. Where(points, usable) = U BY DEF Where
<1>2. U \subseteq 1..3 /\ k \notin U OBVIOUS
<1> HIDE DEF U
<1>3. Cardinality(U) < 3 /\ ~(Cardinality(U) >= 3)
  <2>1. IsFiniteSet(1..3) /\ Cardinality(1..3) = 3 BY ThreeOfThree
  <2>2. U \in SUBSET (1..3) /\ U # 1..3 BY <1>2
  <2>3. /\ IsFiniteSet(U) /\ Cardinality(U) <= Cardinality(1..3)
        /\ Cardinality(1..3) = Cardinality(U) => 1..3 = U
    BY <2>1, <2>2, FS_Subset, Zenon
  <2>4. Cardinality(U) \in Nat BY <2>3, FS_CardinalityType, Zenon
  <2> QED BY <2>1, <2>2, <2>3, <2>4
<1>4. detect_knee(points) = [kind |-> "InsufficientPoints", knee |-> Missing]
  BY <1>1, <1>3, ZenonT(30) DEF detect_knee
<1> QED BY <1>4

(* A knee that was not found is not reproduced. *)
LEMMA NotReproduced ==
  ASSUME NEW native, NEW application, NEW opening, NEW closing,
         \/ detect_knee(native).knee = Missing
         \/ application # <<>> /\ detect_knee(application).knee = Missing
  PROVE  build_knee_report(native, application, opening, closing).established = NoVerdict
<1> DEFINE nv == detect_knee(native)
           av == IF application = <<>> THEN NoVerdict ELSE detect_knee(application)
<1>1. ~Known(nv.knee) \/ ~Known(av.knee) BY DEF Known, NoVerdict
<1>2. build_knee_report(native, application, opening, closing)
        = knee_report(native, nv, application, av, opening, closing)
  BY DEF build_knee_report
<1> HIDE DEF nv, av
<1>3. cross_validate(nv, av) # "Reproduced" BY <1>1 DEF cross_validate
<1> QED BY <1>2, <1>3 DEF knee_report

(* The points of the two sweeps of capacity-knee. *)
LEMMA KneeShape ==
  ASSUME NEW g, Shaped("capacity-knee", g)
  PROVE  /\ DOMAIN g = 1..8
         /\ \A i \in 3..8 : g[i] \in [offered : Nat, up : Int, down : Int, rejected : STRING]
<1> DEFINE c == "capacity-knee"
           Point == [offered : Nat, up : Int, down : Int, rejected : STRING]
<1>1. Shapes(c) = <<Int, Int>> \o [i \in 1..6 |-> Point] BY Zenon DEF Shapes
<1> HIDE DEF Point
<1>2. Len(Shapes(c)) = 8 /\ \A i \in 3..8 : Shapes(c)[i] = Point BY <1>1
<1>3. DOMAIN g = 1..8 /\ \A i \in 1..8 : g[i] \in Shapes(c)[i] BY <1>2, ShapedAt
<1>4. DOMAIN g = 1..8 /\ \A i \in 3..8 : g[i] \in Point BY <1>2, <1>3
<1> QED BY <1>4, Zenon DEF Point

(* A lost control rate, or a lost point of either sweep, never establishes *)
(* a knee.                                                                 *)
LEMMA KneeWithholds ==
  ASSUME NEW g, NEW ok, Shaped("capacity-knee", g)
  PROVE  Withholds("capacity-knee", g, ok)
<1> DEFINE c == "capacity-knee"
           Point == [offered : Nat, up : Int, down : Int, rejected : STRING]
<1>0. DOMAIN g = 1..8 /\ \A i \in 3..8 : g[i] \in Point BY KneeShape
<1>1. ASSUME NEW i \in DOMAIN g, NEW m \in LostForms(c, i, g[i]),
             dispatch(c, [g EXCEPT ![i] = m], ok).exit = 0
      PROVE  claims(c, dispatch(c, [g EXCEPT ![i] = m], ok).report) = {}
  <2> DEFINE h == [g EXCEPT ![i] = m]
             r == dispatch(c, h, ok).report
             n == SubSeq(h, 3, 5)
             p == SubSeq(h, 6, 8)
  <2>1. LostForms(c, i, g[i]) =
          IF i <= 2 THEN {Missing}
          ELSE {[g[i] EXCEPT !.up = Missing], [g[i] EXCEPT !.down = Missing],
                [g[i] EXCEPT !.rejected = "ProcessFailure"]}
    BY Zenon DEF LostForms
  <2>2. i \in 1..8 /\ DOMAIN h = 1..8 /\ h[i] = m BY <1>0
  <2>3. dispatch(c, h, ok).exit = 0 BY <1>1
  <2> HIDE DEF h
  <2>5. r = build_knee_report(n, p, h[1], h[2]) BY <2>3, KneeReport
  <2>4. /\ DOMAIN n = 1..3 /\ DOMAIN p = 1..3 /\ p # <<>>
        /\ n[1] = h[3] /\ n[2] = h[4] /\ n[3] = h[5]
        /\ p[1] = h[6] /\ p[2] = h[7] /\ p[3] = h[8]
    BY <2>2
  <2> HIDE DEF r, n, p
  <2>7. r.established = NoVerdict
    <3>1. CASE i \in 1..2
      <4>1. m = Missing BY <2>1, <3>1
      <4>2. exceeds_tolerance(h[1], h[2]) = "none" BY <2>2, <3>1, <4>1 DEF exceeds_tolerance, Known
      <4>3. \A u, v, x, y : exceeds_tolerance(x, y) = "none"
                              => build_knee_report(u, v, x, y).established = NoVerdict
        BY DEF build_knee_report, knee_report
      <4> QED BY <2>5, <4>2, <4>3
    <3>2. CASE i \in 3..8
      <4>1. ~usable(m)
        <5>1. m \in {[g[i] EXCEPT !.up = Missing], [g[i] EXCEPT !.down = Missing],
                     [g[i] EXCEPT !.rejected = "ProcessFailure"]}
          BY <2>1, <3>2
        <5>2. g[i] \in Point BY <1>0, <3>2
        <5>3. m.up = Missing \/ m.down = Missing \/ m.rejected = "ProcessFailure" BY <5>1, <5>2
        <5> QED BY <5>3 DEF usable, Known
      <4>2. (\E k \in 1..3 : ~usable(n[k])) \/ (\E k \in 1..3 : ~usable(p[k]))
        <5>1. h[i] = m /\ i \in {3, 4, 5, 6, 7, 8} BY <2>2, <3>2
        <5>2. 1 \in 1..3 /\ 2 \in 1..3 /\ 3 \in 1..3 OBVIOUS
        <5> QED BY <2>4, <4>1, <5>1, <5>2, Zenon
      <4>3. detect_knee(n).knee = Missing \/ detect_knee(p).knee = Missing BY <2>4, <4>2, LostPoint
      <4> QED BY <2>4, <2>5, <4>3, NotReproduced
    <3> QED BY <2>2, <3>1, <3>2
  <2>8. claims(c, r) = {r.established} \ {NoVerdict} BY Zenon DEF claims
  <2>9. claims(c, r) = {} BY <2>7, <2>8
  <2> QED BY <2>9 DEF r, h
<1> QED BY <1>1, MuteWithholds

(* The grade that bufferbloat reports. *)
LEMMA BufferbloatReport ==
  ASSUME NEW e, NEW ok
  PROVE  dispatch("bufferbloat", e, ok).report.grade = IF ok THEN gradeOf(e) ELSE "none"
<1> DEFINE c == "bufferbloat"
           a == [tool |-> ok, interface |-> "none", route |-> "en0", tunnel |-> FALSE,
                 phases |-> [up |-> e[1], down |-> e[2], sim |-> e[3]]]
           b == run_bufferbloat(a)
           n == IF a.interface # "none" THEN a.interface ELSE a.route
           t == a.route # "none" /\ a.tunnel
           r == [grade |-> b.grade, failed |-> b.failed, available |-> b.available,
                 interface |-> n, tunnel |-> t]
<1>1. dispatch(c, e, ok) = load_report(c, e, ok) BY Routes DEF LoadCommands
<1>2. load_report(c, e, ok) = bufferbloat_run(a) BY SMT DEF load_report
<1>3. b.grade = IF ok THEN gradeOf(e) ELSE "none"
  <2> DEFINE G == gradeOf(e)
             F == {p \in DOMAIN a.phases : a.phases[p].outcome # "json"}
  <2>1. a.phases["up"] = e[1] /\ a.phases["down"] = e[2] /\ a.phases["sim"] = e[3] /\ a.tool = ok OBVIOUS
  <2>2. b = IF ~ok THEN [grade |-> "none", failed |-> {}, available |-> FALSE]
            ELSE [grade |-> G, failed |-> F, available |-> TRUE]
    BY <2>1, Zenon DEF run_bufferbloat, gradeOf
  <2> HIDE DEF b, G, F
  <2>3. b.grade = IF ok THEN G ELSE "none" BY <2>2
  <2> QED BY <2>3 DEF G
<1>4. bufferbloat_run(a) = Completed(r) BY Zenon DEF bufferbloat_run
<1> HIDE DEF r
<1>5. dispatch(c, e, ok).report = r BY <1>1, <1>2, <1>4, ReportOf
<1> HIDE DEF b, n, t
<1>6. r.grade = b.grade BY DEF r
<1> QED BY <1>3, <1>5, <1>6

(* A lost phase never adds a grade. *)
LEMMA BufferbloatWithholds ==
  ASSUME NEW g, NEW ok, Shaped("bufferbloat", g)
  PROVE  Withholds("bufferbloat", g, ok)
<1> DEFINE c == "bufferbloat"
           Child == [outcome : STRING, rpm : Int]
<1>1. DOMAIN g = 1..3 /\ \A i \in 1..3 : g[i] \in Child
  <2>1. Shapes(c) = Uniform(3, Child) BY Zenon DEF Shapes, Uniform
  <2> HIDE DEF Child
  <2> QED BY <2>1, AllShaped
<1>2. ASSUME NEW i \in DOMAIN g, NEW m \in LostForms(c, i, g[i])
      PROVE  claims(c, dispatch(c, [g EXCEPT ![i] = m], ok).report) = {}
  <2> DEFINE h == [g EXCEPT ![i] = m]
             r == dispatch(c, h, ok).report
  <2>1. LostForms(c, i, g[i]) = {[g[i] EXCEPT !.rpm = Missing], [g[i] EXCEPT !.outcome = "killed"]}
    BY Zenon DEF LostForms
  <2>2. run_network_quality(m) = Missing BY <1>1, <2>1 DEF run_network_quality
  <2>3. h[i] = m /\ i \in 1..3 BY <1>1
  <2> HIDE DEF h
  <2>4. gradeOf(h) = "none" BY <2>2, <2>3 DEF gradeOf, grade_from_phases
  <2>5. r.grade = "none" BY <2>4, BufferbloatReport
  <2> HIDE DEF r
  <2>6. claims(c, r) = {r.grade} \ {"none"} BY Zenon DEF claims
  <2>7. claims(c, r) = {} BY <2>5, <2>6
  <2> QED BY <2>7 DEF r, h
<1> QED BY <1>2, MuteWithholds

(* A state is judged by its first phase: either the phase that lost a      *)
(* figure is that one, and the comparison is refused, or it is not, and    *)
(* nothing changes.                                                        *)
LEMMA CircuitReport ==
  ASSUME NEW e, NEW ok
  PROVE  /\ ok => /\ dispatch("circuit-compare", e, ok).exit = 0
                  /\ dispatch("circuit-compare", e, ok).report.verdict = judge_circuits(e)
         /\ ~ok => dispatch("circuit-compare", e, ok).exit = 1
<1> DEFINE c == "circuit-compare"
           a == [readable |-> ok, valid |-> TRUE, digest_only |-> FALSE, phases |-> e]
           j == judge_circuits(e)
           d == circuit_digest(e)
<1>1. dispatch(c, e, ok) = comparison_report(c, e, ok) BY Routes DEF ComparisonCommands
<1>2. comparison_report(c, e, ok) = circuit_compare_run(a) BY Zenon DEF comparison_report
<1> HIDE DEF j, d
<1>3. circuit_compare_run(a) = IF ok THEN Completed([digest |-> d, verdict |-> j]) ELSE Refusal(1)
  BY DEF circuit_compare_run, j, d
<1> HIDE DEF a
<1>4. ok => dispatch(c, e, ok) = Completed([digest |-> d, verdict |-> j]) BY <1>1, <1>2, <1>3
<1>5. ok => dispatch(c, e, ok).exit = 0 /\ dispatch(c, e, ok).report = [digest |-> d, verdict |-> j] BY <1>4, ReportOf
<1>6. ~ok => dispatch(c, e, ok).exit = 1 BY <1>1, <1>2, <1>3 DEF Refusal
<1> QED BY <1>5, <1>6 DEF j

(* A lost phase never adds a verdict on the circuits. *)
LEMMA CircuitWithholds ==
  ASSUME NEW g, NEW ok, Shaped("circuit-compare", g)
  PROVE  Withholds("circuit-compare", g, ok)
<1> DEFINE c == "circuit-compare"
           Phase == [state : STRING, mbps : Int, loss : Int, members : Seq(SUBSET TelemetryFields)]
<1>1. DOMAIN g = 1..3 /\ \A i \in 1..3 : g[i] \in Phase
  <2>1. Shapes(c) = Uniform(3, Phase) BY Zenon DEF Shapes, Uniform
  <2> HIDE DEF Phase
  <2> QED BY <2>1, AllShaped
<1>2. ASSUME NEW i \in DOMAIN g, NEW m \in LostForms(c, i, g[i]),
             dispatch(c, g, ok).exit = 0, dispatch(c, [g EXCEPT ![i] = m], ok).exit = 0
      PROVE  claims(c, dispatch(c, [g EXCEPT ![i] = m], ok).report)
               \subseteq claims(c, dispatch(c, g, ok).report)
  <2> DEFINE h == [g EXCEPT ![i] = m]
             r == dispatch(c, g, ok).report
             q == dispatch(c, h, ok).report
             of(s) == {k \in 1..3 : g[k].state = s}
  <2>1. LostForms(c, i, g[i]) = {[g[i] EXCEPT !.mbps = Missing], [g[i] EXCEPT !.members = <<>>]}
    BY Zenon DEF LostForms
  <2>2. m.state = g[i].state /\ (~Known(m.mbps) \/ m.members = <<>>) BY <1>1, <2>1 DEF Known
  <2>3. /\ h[i] = m /\ i \in 1..3 /\ DOMAIN h = 1..3
        /\ \A j \in 1..3 : j # i => h[j] = g[j]
    BY <1>1
  <2>4. r.verdict = judge_circuits(g) /\ q.verdict = judge_circuits(h) BY <1>2, CircuitReport
  <2> HIDE DEF h, r, q
  <2>5. \A s : of(s) = {k \in DOMAIN g : g[k].state = s} /\ of(s) = {k \in DOMAIN h : h[k].state = s}
    BY <1>1, <2>2, <2>3
  <2> HIDE DEF of
  <2>6. \A s : /\ circuit_phase(g, s) = IF of(s) = {} THEN NoPhase ELSE g[Min(of(s))]
               /\ circuit_phase(h, s) = IF of(s) = {} THEN NoPhase ELSE h[Min(of(s))]
    BY <2>5, Zenon DEF circuit_phase, FirstOr, Where
  <2>7. CASE \E s \in CircuitStates : of(s) # {} /\ Min(of(s)) = i
    <3>1. PICK s \in CircuitStates : circuit_phase(h, s) = m BY <2>3, <2>6, <2>7
    <3>2. s \in CircuitMissing(h) BY <2>2, <3>1 DEF CircuitMissing
    <3>3. judge_circuits(h) = [kind |-> "Refused", slow |-> "none"] BY <3>2 DEF judge_circuits
    <3>4. q.verdict.kind = "Refused" BY <2>4, <3>3
    <3>5. claims(c, q) = {q.verdict.kind} \ {"Refused"} BY Zenon DEF claims
    <3>6. claims(c, q) = {} BY <3>4, <3>5
    <3> QED BY <3>6 DEF q, h
  <2>8. CASE ~\E s \in CircuitStates : of(s) # {} /\ Min(of(s)) = i
    <3>1. \A s \in CircuitStates : circuit_phase(h, s) = circuit_phase(g, s)
      <4> SUFFICES ASSUME NEW s \in CircuitStates PROVE circuit_phase(h, s) = circuit_phase(g, s) OBVIOUS
      <4>1. CASE of(s) = {} BY <2>6, <4>1
      <4>2. CASE of(s) # {}
        <5>1. of(s) \subseteq Nat BY DEF of
        <5>2. Min(of(s)) \in of(s) BY <4>2, <5>1, MinNat
        <5>3. Min(of(s)) \in 1..3 /\ Min(of(s)) # i BY <2>8, <4>2, <5>2 DEF of
        <5> QED BY <2>3, <2>6, <4>2, <5>3
      <4> QED BY <4>1, <4>2
    <3>2. CircuitMissing(h) = CircuitMissing(g) BY <3>1 DEF CircuitMissing
    <3>3. "a-only" \in CircuitStates /\ "b-only" \in CircuitStates BY DEF CircuitStates
    <3>4. judge_circuits(h) = judge_circuits(g) BY <3>1, <3>2, <3>3, Zenon DEF judge_circuits
    <3>5. \A x : claims(c, x) = {x.verdict.kind} \ {"Refused"} BY Zenon DEF claims
    <3>6. claims(c, q) \subseteq claims(c, r) BY <2>4, <3>4, <3>5
    <3> QED BY <3>6 DEF q, r, h
  <2> QED BY <2>7, <2>8
<1> QED BY <1>2 DEF Withholds

(* What flow-dscp-matrix reports of its one class. *)
LEMMA FlowReport ==
  ASSUME NEW e, NEW ok \in BOOLEAN, dispatch("flow-dscp-matrix", e, ok).exit = 0
  PROVE  LET r == dispatch("flow-dscp-matrix", e, ok).report
         IN  /\ r.constant = constantOf(e)
             /\ DOMAIN r.dscp = {46} /\ r.dscp[46].survival = survivalOf(e)
<1> DEFINE c == "flow-dscp-matrix"
           p == SubSeq(e, 1, 3)
           k == [d \in {46} |-> e[4]]
           a == [live_event |-> ok, maintenance |-> FALSE, points |-> p, classes |-> k]
           t(d) == <<[sent |-> d, src |-> IF a.classes[d].sent_ok THEN d ELSE Missing,
                      dst |-> a.classes[d].observed]>>
           x == held_constant(p)
           y == detect_control_drift(p)
           z == [d \in DOMAIN a.classes |-> build_dscp_result(t(d), Missing)]
           r == [constant |-> x, drift |-> y, dscp |-> z]
<1>1. dispatch(c, e, ok) = load_report(c, e, ok) BY Routes DEF LoadCommands
<1>2. load_report(c, e, ok) = flow_dscp_matrix_run(a) BY SMT DEF load_report
<1>3. flow_dscp_matrix_run(a) = IF ok THEN Completed(r) ELSE Refusal(2)
  <2> HIDE DEF p, k
  <2>1. a.live_event = ok /\ a.maintenance = FALSE /\ a.points = p OBVIOUS
  <2>2. a.live_event = a.maintenance <=> ~ok BY <2>1
  <2> HIDE DEF a
  <2> QED BY <2>1, <2>2, Zenon DEF flow_dscp_matrix_run
<1>4. DOMAIN z = {46} /\ z[46] = build_dscp_result(t(46), Missing) OBVIOUS
<1>5. t(46) = <<[sent |-> 46, src |-> IF e[4].sent_ok THEN 46 ELSE Missing,
                 dst |-> e[4].observed]>>
  OBVIOUS
<1>6. DOMAIN z = {46} /\ z[46].survival = survivalOf(e)
  <2> HIDE DEF z, t
  <2>1. \A s : build_dscp_result(s, Missing).survival = classify_dscp_survival(s) BY DEF build_dscp_result
  <2> QED BY <1>4, <1>5, <2>1 DEF survivalOf
<1> HIDE DEF x, y, z
<1>7. r.constant = x /\ r.dscp = z OBVIOUS
<1> HIDE DEF r, a
<1>8. dispatch(c, e, ok) = Completed(r) BY <1>1, <1>2, <1>3 DEF Refusal
<1>9. dispatch(c, e, ok).report = r BY <1>8, ReportOf
<1> QED BY <1>6, <1>7, <1>9 DEF x, constantOf

(* A lost flow never adds a survival claim. *)
LEMMA FlowWithholds ==
  ASSUME NEW g, NEW ok \in BOOLEAN, Shaped("flow-dscp-matrix", g)
  PROVE  Withholds("flow-dscp-matrix", g, ok)
<1> DEFINE c == "flow-dscp-matrix"
           Point == [flows : Int, aggregate : Int, loss : Int, repeated : BOOLEAN]
           Class == [sent_ok : BOOLEAN, observed : Int]
<1>1. DOMAIN g = 1..4 /\ (\A i \in 1..3 : g[i] \in Point) /\ g[4] \in Class
  <2>1. Shapes(c) = [i \in 1..3 |-> Point] \o <<Class>> BY SMT DEF Shapes
  <2> HIDE DEF Point, Class
  <2>2. Len(Shapes(c)) = 4 /\ (\A i \in 1..3 : Shapes(c)[i] = Point) /\ Shapes(c)[4] = Class BY <2>1
  <2>3. DOMAIN g = 1..4 /\ \A i \in 1..4 : g[i] \in Shapes(c)[i] BY <2>2, ShapedAt
  <2> QED BY <2>2, <2>3
<1>2. ASSUME NEW x, DOMAIN x.dscp = {46}
      PROVE  claims(c, x) = {y \in {"constant"} : x.constant}
                            \cup ({x.dscp[46].survival} \ {"Unverified"})
  <2>1. claims(c, x) = {y \in {"constant"} : x.constant}
                       \cup ({x.dscp[d].survival : d \in DOMAIN x.dscp} \ {"Unverified"})
    BY Zenon DEF claims
  <2> QED BY <1>2, <2>1
<1>3. ASSUME NEW i \in DOMAIN g, NEW m \in LostForms(c, i, g[i]),
             dispatch(c, g, ok).exit = 0, dispatch(c, [g EXCEPT ![i] = m], ok).exit = 0
      PROVE  claims(c, dispatch(c, [g EXCEPT ![i] = m], ok).report)
               \subseteq claims(c, dispatch(c, g, ok).report)
  <2> DEFINE h == [g EXCEPT ![i] = m]
             r == dispatch(c, g, ok).report
             q == dispatch(c, h, ok).report
  <2>1. LostForms(c, i, g[i]) = {IF i <= 3 THEN [g[i] EXCEPT !.aggregate = Missing]
                                 ELSE [g[i] EXCEPT !.observed = Missing]}
    BY Zenon DEF LostForms
  <2>2. h[i] = m /\ i \in 1..4 /\ \A j \in 1..4 : j # i => h[j] = g[j] BY <1>1
  <2>3. /\ r.constant = constantOf(g) /\ q.constant = constantOf(h)
        /\ DOMAIN r.dscp = {46} /\ r.dscp[46].survival = survivalOf(g)
        /\ DOMAIN q.dscp = {46} /\ q.dscp[46].survival = survivalOf(h)
    <3> HIDE DEF h
    <3> QED BY <1>3, FlowReport DEF h
  <2> HIDE DEF h, r, q
  <2>4. CASE i \in 1..3
    <3> DEFINE p == SubSeq(h, 1, 3)
               M == {j \in DOMAIN p : Known(p[j].aggregate)}
    <3>1. m.aggregate = Missing BY <1>1, <2>1, <2>4
    <3>2. Len(p) = 3 /\ DOMAIN p = 1..3 /\ p[i] = m BY <2>2, <2>4
    <3>3. M \subseteq 1..3 /\ i \notin M BY <3>1, <3>2 DEF Known
    <3> HIDE DEF M
    <3>4. Cardinality(M) # 3
      <4>1. IsFiniteSet(1..3) /\ Cardinality(1..3) = 3 BY ThreeOfThree
      <4>2. M \in SUBSET (1..3) /\ M # 1..3 BY <2>4, <3>3
      <4> QED BY <4>1, <4>2, FS_Subset
    <3>5. ~constantOf(h) BY <3>2, <3>4 DEF constantOf, held_constant, M
    <3>6. survivalOf(h) = survivalOf(g) BY <2>2, <2>4 DEF survivalOf
    <3>7. claims(c, q) \subseteq claims(c, r) BY <1>2, <2>3, <3>5, <3>6
    <3> QED BY <3>7 DEF q, r, h
  <2>5. CASE i = 4
    <3>1. m.observed = Missing BY <1>1, <2>1, <2>5
    <3>2. survivalOf(h) = "Unverified" BY <2>2, <2>5, <3>1 DEF survivalOf, classify_dscp_survival, Known
    <3>3. SubSeq(h, 1, 3) = SubSeq(g, 1, 3) BY <1>1, <2>2, <2>5
    <3>4. constantOf(h) = constantOf(g) BY <3>3 DEF constantOf
    <3>5. claims(c, q) \subseteq claims(c, r) BY <1>2, <2>3, <3>2, <3>4
    <3> QED BY <3>5 DEF q, r, h
  <2>6. i \in 1..3 \/ i = 4 BY <2>2
  <2> QED BY <2>4, <2>5, <2>6
<1> QED BY <1>3 DEF Withholds

(* The evidence of pmtu is three trials. *)
LEMMA PmtuShape ==
  ASSUME NEW g, Shaped("pmtu", g)
  PROVE  DOMAIN g = 1..3 /\ \A i \in 1..3 : g[i] \in Trial
<1> DEFINE c == "pmtu"
<1>1. Shapes(c) = [i \in 1..3 |-> Trial] BY Zenon DEF Shapes, Trial
<1>2. Len(Shapes(c)) = 3 /\ \A i \in 1..3 : Shapes(c)[i] = Trial BY <1>1
<1>3. DOMAIN g = 1..3 /\ \A i \in 1..3 : g[i] \in Shapes(c)[i] BY <1>2, ShapedAt
<1> QED BY <1>2, <1>3

(* The size that pmtu confirms. *)
LEMMA PmtuReport ==
  ASSUME NEW e, NEW ok
  PROVE  dispatch("pmtu", e, ok).report.confirmed =
           IF confirmedSizes(e) = {} THEN Missing ELSE Max(confirmedSizes(e))
<1> DEFINE c == "pmtu"
           x == build_verdict(e)
           y == largest_confirmed(e)
           z == smallest_unanswered(e)
<1>1. dispatch(c, e, ok) = path_report(c, e, ok) BY Routes DEF PathCommands
<1>2. path_report(c, e, ok) = Completed([parts |-> x, confirmed |-> y, unanswered |-> z]) BY SMT DEF path_report
<1>3. y = IF confirmedSizes(e) = {} THEN Missing ELSE Max(confirmedSizes(e))
  BY Zenon DEF largest_confirmed, confirmedSizes, confirms, Where
<1> HIDE DEF x, y, z
<1>4. dispatch(c, e, ok).report = [parts |-> x, confirmed |-> y, unanswered |-> z] BY <1>1, <1>2, ReportOf
<1> QED BY <1>3, <1>4

(* Max is the maximum of what three trials confirmed. *)
LEMMA LargestConfirmed ==
  ASSUME NEW e, DOMAIN e = 1..3, \A i \in 1..3 : e[i].size \in Nat, confirmedSizes(e) # {}
  PROVE  /\ confirmedSizes(e) \subseteq Nat
         /\ Max(confirmedSizes(e)) \in confirmedSizes(e)
         /\ \A y \in confirmedSizes(e) : y <= Max(confirmedSizes(e))
<1> DEFINE n == e[1].size + e[2].size + e[3].size
<1>1. e[1].size \in Nat /\ e[2].size \in Nat /\ e[3].size \in Nat OBVIOUS
<1>2. \A i \in 1..3 : e[i].size \in Nat /\ e[i].size <= n BY <1>1
<1>3. n \in Nat BY <1>1
<1> HIDE DEF n
<1>4. confirmedSizes(e) \subseteq Nat /\ \A y \in confirmedSizes(e) : y <= n BY <1>2 DEF confirmedSizes
<1> QED BY <1>3, <1>4, MaxNat

(* A lost trial never confirms a size. *)
LEMMA PmtuWithholds ==
  ASSUME NEW g, NEW ok, Shaped("pmtu", g)
  PROVE  Withholds("pmtu", g, ok)
<1> DEFINE c == "pmtu"
<1>1. ASSUME NEW i \in DOMAIN g, NEW m \in LostForms(c, i, g[i])
      PROVE  claims(c, dispatch(c, [g EXCEPT ![i] = m], ok).report)
               \subseteq claims(c, dispatch(c, g, ok).report)
  <2> DEFINE h == [g EXCEPT ![i] = m]
             r == dispatch(c, g, ok).report
             q == dispatch(c, h, ok).report
  <2>1. LostForms(c, i, g[i]) = {[g[i] EXCEPT !.quic = "silent"], [g[i] EXCEPT !.quic = "stalled"],
                                 [g[i] EXCEPT !.local = FALSE]}
    BY Zenon DEF LostForms
  <2>2. DOMAIN g = 1..3 /\ \A j \in 1..3 : g[j] \in Trial BY PmtuShape
  <2>3. m.size = g[i].size /\ (m.quic \in {"silent", "stalled"} \/ m.local = FALSE) BY <2>1, <2>2 DEF Trial
  <2>4. ~confirms(m)
    <3> DEFINE x == Smaller(m.size, MaxU16)
    <3>1. x \in Int BY <2>2, <2>3 DEF Trial, Smaller, MaxU16
    <3> HIDE DEF x
    <3>2. m.quic \in {"silent", "stalled"} => confirm_size_via_quic(x, m.quic) # "Confirmed"
      BY <3>1 DEF confirm_size_via_quic, QuicFloor
    <3> QED BY <2>3, <3>2 DEF confirms, is_path_evidence, size_outcome, local_send_check, x
  <2>5. /\ h[i] = m /\ i \in 1..3 /\ DOMAIN h = 1..3
        /\ \A j \in 1..3 : j # i => h[j] = g[j]
    BY <2>2
  <2>6. (\A j \in 1..3 : g[j].size \in Nat) /\ (\A j \in 1..3 : h[j].size \in Nat) BY <2>2, <2>3, <2>5 DEF Trial
  <2> HIDE DEF h
  <2>7. confirmedSizes(h) \subseteq confirmedSizes(g) BY <2>2, <2>4, <2>5 DEF confirmedSizes
  <2>8. /\ r.confirmed = IF confirmedSizes(g) = {} THEN Missing ELSE Max(confirmedSizes(g))
        /\ q.confirmed = IF confirmedSizes(h) = {} THEN Missing ELSE Max(confirmedSizes(h))
    BY PmtuReport
  <2> HIDE DEF r, q
  <2>9. claims(c, r) = 1..r.confirmed /\ claims(c, q) = 1..q.confirmed BY Zenon DEF claims
  <2>10. claims(c, q) \subseteq claims(c, r)
    <3>1. CASE confirmedSizes(h) = {}
      <4>1. q.confirmed = -1 BY <2>8, <3>1 DEF Missing
      <4> QED BY <2>9, <4>1
    <3>2. CASE confirmedSizes(h) # {}
      <4>1. confirmedSizes(g) # {} BY <2>7, <3>2
      <4>2. r.confirmed = Max(confirmedSizes(g)) /\ q.confirmed = Max(confirmedSizes(h)) BY <2>8, <3>2, <4>1
      <4>3. q.confirmed \in confirmedSizes(h) BY <2>5, <2>6, <3>2, <4>2, LargestConfirmed
      <4>4. r.confirmed \in confirmedSizes(g) /\ \A y \in confirmedSizes(g) : y <= r.confirmed
        BY <2>2, <2>6, <4>1, <4>2, LargestConfirmed
      <4>5. confirmedSizes(g) \subseteq Nat BY <2>2, <2>6, <4>1, LargestConfirmed
      <4>6. q.confirmed \in Nat /\ r.confirmed \in Nat /\ q.confirmed <= r.confirmed BY <2>7, <4>3, <4>4, <4>5
      <4> QED BY <2>9, <4>6
    <3> QED BY <3>1, <3>2
  <2> QED BY <2>10 DEF q, r, h
<1> QED BY <1>1 DEF Withholds

(* A metric is compared only when both bundles hold it. *)
LEMMA SecondNetworkWithholds ==
  ASSUME NEW g, NEW ok, Shaped("second-network", g)
  PROVE  Withholds("second-network", g, ok)
<1> DEFINE c == "second-network"
           Bundle == [ap : [label : STRING, band : STRING],
                      metrics : Seq([name : STRING, value : Int])]
<1>1. DOMAIN g = 1..2 /\ g[1] \in Bundle /\ g[2] \in Bundle
  <2>1. Shapes(c) = [i \in 1..2 |-> Bundle] BY Zenon DEF Shapes
  <2> QED BY <2>1, TwoShaped
<1>2. ASSUME NEW e, dispatch(c, e, ok).exit = 0
      PROVE  dispatch(c, e, ok).report = compare_bundles(e[1], e[2])
  <2> DEFINE b == <<[readable |-> ok, bundle |-> e[1]], [readable |-> TRUE, bundle |-> e[2]]>>
             a == [save |-> FALSE, compare |-> b]
             r == compare_bundles(e[1], e[2])
  <2>1. dispatch(c, e, ok) = comparison_report(c, e, ok) BY Routes DEF ComparisonCommands
  <2>2. comparison_report(c, e, ok) = second_network_run(a) BY Zenon DEF comparison_report
  <2>3. /\ Len(b) = 2 /\ b[1].readable = ok /\ b[2].readable = TRUE
        /\ b[1].bundle = e[1] /\ b[2].bundle = e[2]
    OBVIOUS
  <2> HIDE DEF b, r
  <2>4. second_network_run(a) \in {Refusal(1), Completed(r)} BY <2>3 DEF second_network_run, r
  <2> HIDE DEF a
  <2>5. dispatch(c, e, ok) = Completed(r) BY <1>2, <2>1, <2>2, <2>4 DEF Refusal
  <2> QED BY <2>5, ReportOf DEF r
<1>3. ASSUME NEW i \in DOMAIN g, NEW m \in LostForms(c, i, g[i]),
             dispatch(c, [g EXCEPT ![i] = m], ok).exit = 0
      PROVE  claims(c, dispatch(c, [g EXCEPT ![i] = m], ok).report) = {}
  <2> DEFINE h == [g EXCEPT ![i] = m]
             r == dispatch(c, h, ok).report
             value(b, n) == FirstOr(b.metrics, LAMBDA x : x.name = n, [value |-> Missing]).value
  <2>1. LostForms(c, i, g[i]) = {[g[i] EXCEPT !.metrics = <<>>]} BY Zenon DEF LostForms
  <2>2. m.metrics = <<>> BY <1>1, <2>1
  <2>3. h[i] = m /\ i \in 1..2 BY <1>1
  <2>4. r = compare_bundles(h[1], h[2]) BY <1>2, <1>3
  <2> HIDE DEF h, r
  <2>5. h[1].metrics = <<>> \/ h[2].metrics = <<>> BY <2>2, <2>3
  <2>6. \A b, n : b.metrics = <<>> => value(b, n) = Missing BY DEF FirstOr, Where
  <2>7. \A n : ~Known(value(h[1], n)) \/ ~Known(value(h[2], n))
    <3> HIDE DEF value
    <3> QED BY <2>5, <2>6 DEF Known
  <2>8. DOMAIN r.delta = {}
    <3> DEFINE names == {x.name : x \in Range(h[1].metrics) \cup Range(h[2].metrics)}
               both == {n \in names : Known(value(h[1], n)) /\ Known(value(h[2], n))}
               t == compare_ap_identity(h[1].ap, h[2].ap)
               u == names \ both
               d == [n \in both |-> value(h[2], n) - value(h[1], n)]
    <3>1. r = [relationship |-> t, missing |-> u, delta |-> d] BY <2>4, Zenon DEF compare_bundles
    <3>2. both = {}
      <4> HIDE DEF value, names
      <4> QED BY <2>7
    <3>3. DOMAIN d = both
      <4> HIDE DEF value, both
      <4> QED  OBVIOUS
    <3> HIDE DEF t, u, d
    <3>4. r.delta = d BY <3>1
    <3> QED BY <3>2, <3>3, <3>4
  <2>9. claims(c, r) = {<<n, r.delta[n]>> : n \in DOMAIN r.delta} BY Zenon DEF claims
  <2>10. claims(c, r) = {} BY <2>8, <2>9
  <2> QED BY <2>10 DEF r, h
<1> QED BY <1>3, MuteWithholds

(* The elements of a concatenation of short sequences. *)
LEMMA Joined ==
  ASSUME NEW w, NEW x, NEW y, NEW z
  PROVE  /\ LET s == <<w>> \o <<x>> \o <<y>> \o <<z>>
            IN  DOMAIN s = 1..4 /\ s[1] = w /\ s[2] = x /\ s[3] = y /\ s[4] = z
         /\ LET s == <<w>> \o <<x>> \o <<>> \o <<>>
            IN  DOMAIN s = 1..2 /\ s[1] = w /\ s[2] = x
OBVIOUS

(* The confidence that protocol-compare reports. *)
LEMMA ProtocolReport ==
  ASSUME NEW e, NEW ok \in BOOLEAN
  PROVE  LET r == dispatch("protocol-compare", e, ok).report
         IN  /\ DOMAIN r.protocols = {1}
             /\ r.protocols[1].confidence = confidence_for({legOf(e, k) : k \in legsRun(ok)})
<1> DEFINE c == "protocol-compare"
           curls == <<[works |-> TRUE, h3 |-> FALSE]>>
           tr == [download |-> e[1], upload |-> e[2], both_down |-> e[3], both_up |-> e[4]]
           p == [protocol |-> "http1", preflight |-> "Supported", transfer |-> tr]
           a == [curls |-> curls, body |-> TRUE, simultaneous |-> ok, host |-> "host",
                 protocols |-> <<p>>]
           L == legs_of(a, p)
<1>1. dispatch(c, e, ok) = packet_report(c, e, ok)
  BY Zenon DEF dispatch, LoadCommands, StreamCommands, ComparisonCommands, EvidenceCommands,
               ControlCommands, PathCommands, PacketCommands, DiagnosisCommands
<1>2. packet_report(c, e, ok) = protocol_compare_run(a) BY Zenon DEF packet_report
<1>3. /\ DOMAIN L = legsRun(ok) /\ L[1] = legOf(e, 1) /\ L[2] = legOf(e, 2)
      /\ ok => L[3] = legOf(e, 3) /\ L[4] = legOf(e, 4)
  <2> DEFINE l(n, d) == run_leg(p.protocol, d, a.curls, p.transfer[n])
  <2>1. /\ p.protocol = "http1" /\ p.transfer = tr
        /\ tr["download"] = e[1] /\ tr["upload"] = e[2]
        /\ tr["both_down"] = e[3] /\ tr["both_up"] = e[4]
    OBVIOUS
  <2>2. a.curls = curls /\ a.body = TRUE /\ a.simultaneous = ok
    <3> HIDE DEF curls, p
    <3> QED  OBVIOUS
  <2> HIDE DEF curls, p, a, tr
  <2>3. /\ l("download", "download") = legOf(e, 1) /\ l("upload", "upload") = legOf(e, 2)
        /\ l("both_down", "both") = legOf(e, 3) /\ l("both_up", "both") = legOf(e, 4)
    BY <2>1, <2>2 DEF legOf, curls
  <2>4. L = <<l("download", "download")>>
            \o (IF a.body THEN <<l("upload", "upload")>> ELSE <<>>)
            \o (IF a.simultaneous THEN <<l("both_down", "both")>> ELSE <<>>)
            \o (IF a.simultaneous /\ a.body THEN <<l("both_up", "both")>> ELSE <<>>)
    BY Zenon DEF legs_of
  <2> HIDE DEF l, L
  <2>5. L = <<legOf(e, 1)>> \o <<legOf(e, 2)>>
            \o (IF ok THEN <<legOf(e, 3)>> ELSE <<>>) \o (IF ok THEN <<legOf(e, 4)>> ELSE <<>>)
    BY <2>2, <2>3, <2>4, Zenon
  <2>6. CASE ok
    <3>1. L = <<legOf(e, 1)>> \o <<legOf(e, 2)>> \o <<legOf(e, 3)>> \o <<legOf(e, 4)>> BY <2>5, <2>6, Zenon
    <3> QED BY <2>6, <3>1, Joined DEF legsRun
  <2>7. CASE ~ok
    <3>1. L = <<legOf(e, 1)>> \o <<legOf(e, 2)>> \o <<>> \o <<>> BY <2>5, <2>7, Zenon
    <3> QED BY <2>7, <3>1, Joined DEF legsRun
  <2> QED BY <2>6, <2>7
<1>4. Range(L) = {legOf(e, k) : k \in legsRun(ok)}
  <2> HIDE DEF L
  <2> QED BY <1>3 DEF Range, legsRun
<1> DEFINE legs == [i \in DOMAIN a.protocols |->
                      IF a.protocols[i].protocol = "http3"
                           /\ a.protocols[i].preflight = "Unsupported"
                      THEN <<>> ELSE legs_of(a, a.protocols[i])]
           r == comparison_of("host", legs)
<1>5. dispatch(c, e, ok).report = r
  <2>1. a.host = "host"
    <3> HIDE DEF curls, p
    <3> QED  OBVIOUS
  <2> HIDE DEF a
  <2>2. protocol_compare_run(a) = Completed(r) BY <2>1, Zenon DEF protocol_compare_run, run_comparison
  <2> HIDE DEF r
  <2> QED BY <1>1, <1>2, <2>2, ReportOf
<1>6. DOMAIN legs = {1} /\ legs[1] = L
  <2>1. a.protocols = <<p>>
    <3> HIDE DEF curls, p
    <3> QED  OBVIOUS
  <2>2. p.protocol = "http1"
    <3> HIDE DEF tr
    <3> QED  OBVIOUS
  <2> HIDE DEF a, p, L
  <2> QED BY <2>1, <2>2 DEF L
<1> HIDE DEF legs, L
<1>7. DOMAIN r.protocols = {1} /\ r.protocols[1].confidence = confidence_for(Range(legs[1]))
  <2> DEFINE all == FlattenSeq(legs)
             x == [i \in DOMAIN legs |-> [legs |-> legs[i],
                                          confidence |-> confidence_for(Range(legs[i]))]]
             y == leg_endpoint_mismatch(Keep([i \in DOMAIN all |-> all[i].ip],
                                                  LAMBDA z : z # "none"))
             z == detect_redirect_host_drift("host", {all[i].final : i \in DOMAIN all})
  <2>1. r = [protocols |-> x, mismatch |-> y, redirected |-> z] BY Zenon DEF comparison_of
  <2>2. DOMAIN x = {1} /\ x[1].confidence = confidence_for(Range(legs[1])) BY <1>6
  <2> HIDE DEF x, y, z, r
  <2> QED BY <2>1, <2>2
<1> HIDE DEF r
<1> QED BY <1>4, <1>5, <1>6, <1>7

(* A lost leg never raises the confidence. *)
LEMMA ProtocolWithholds ==
  ASSUME NEW g, NEW ok \in BOOLEAN, Shaped("protocol-compare", g)
  PROVE  Withholds("protocol-compare", g, ok)
<1> DEFINE c == "protocol-compare"
           Transfer == [spawned : BOOLEAN, ended : BOOLEAN, exited : BOOLEAN, status : Int,
                        down : Int, up : Int, ip : STRING, final : STRING]
<1>1. DOMAIN g = 1..4 /\ \A i \in 1..4 : g[i] \in Transfer
  <2>1. Shapes(c) = Uniform(4, Transfer) BY Zenon DEF Shapes, Uniform
  <2> HIDE DEF Transfer
  <2> QED BY <2>1, AllShaped
<1>2. ASSUME NEW i \in DOMAIN g, NEW m \in LostForms(c, i, g[i])
      PROVE  claims(c, dispatch(c, [g EXCEPT ![i] = m], ok).report)
               \subseteq claims(c, dispatch(c, g, ok).report)
  <2> DEFINE h == [g EXCEPT ![i] = m]
             r == dispatch(c, g, ok).report
             q == dispatch(c, h, ok).report
  <2>1. LostForms(c, i, g[i]) = {[g[i] EXCEPT !.ended = FALSE],
                                 [g[i] EXCEPT !.down = Missing, !.up = Missing]}
    BY Zenon DEF LostForms
  <2>2. m.ended = FALSE \/ (m.down = Missing /\ m.up = Missing) BY <1>1, <2>1
  <2>3. h[i] = m /\ i \in 1..4 /\ \A j \in 1..4 : j # i => h[j] = g[j] BY <1>1
  <2> HIDE DEF h
  <2>4. legOf(h, i).loss # "Clean"
    BY <2>2, <2>3 DEF legOf, run_leg, run_curl_watched, failed_leg, transferred_bytes, Known
  <2>5. \A j \in 1..4 : j # i => legOf(h, j) = legOf(g, j) BY <2>3 DEF legOf
  <2> DEFINE G == {legOf(g, k) : k \in legsRun(ok)}
             H == {legOf(h, k) : k \in legsRun(ok)}
  <2>6. legsRun(ok) \subseteq 1..4 BY DEF legsRun
  <2>7. confidence_for(H) = "Medium" => confidence_for(G) = "Medium"
    <3>1. CASE i \in legsRun(ok)
      <4>1. legOf(h, i) \in H BY <3>1
      <4> HIDE DEF H
      <4>2. confidence_for(H) = "Low" BY <2>4, <4>1 DEF confidence_for
      <4> QED BY <4>2
    <3>2. CASE i \notin legsRun(ok)
      <4>1. H = G BY <2>5, <2>6, <3>2
      <4> QED BY <4>1
    <3> QED BY <3>1, <3>2
  <2>8. /\ DOMAIN r.protocols = {1} /\ r.protocols[1].confidence = confidence_for(G)
        /\ DOMAIN q.protocols = {1} /\ q.protocols[1].confidence = confidence_for(H)
    BY ProtocolReport
  <2> HIDE DEF r, q, G, H
  <2>9. \A x : claims(c, x) = {k \in DOMAIN x.protocols : x.protocols[k].confidence = "Medium"} BY Zenon DEF claims
  <2>10. claims(c, q) \subseteq claims(c, r) BY <2>7, <2>8, <2>9
  <2> QED BY <2>10 DEF q, r, h
<1> QED BY <1>2 DEF Withholds

-----------------------------------------------------------------------------
(* From the machine to its verdicts. *)

(* A completed command reported its verdict on complete evidence. *)
LEMMA VerdictOnShapedEvidence ==
  ASSUME MachineInv, outcome.exit = 0
  PROVE  /\ ready \in BOOLEAN
         /\ outcome = dispatch(command, evidence, ready)
         /\ command \in ShapedCommands => Shaped(command, evidence)
<1>1. outcome # Running BY DEF Running, Missing
<1>2. Complete /\ outcome = dispatch(command, evidence, ready) /\ ready \in BOOLEAN BY <1>1 DEF MachineInv, Reported
<1>3. ASSUME command \in ShapedCommands PROVE Shaped(command, evidence)
  <2>1. /\ command \in DOMAIN Measurements
        /\ evidence \in Seq(Values)
        /\ \A i \in 1..Len(evidence) : evidence[i] \in Measurements[command][i]
    BY DEF MachineInv, Gathered, Commands
  <2>2. /\ Len(Measurements[command]) = Len(Shapes(command))
        /\ DOMAIN Measurements[command] = 1..Len(Measurements[command])
        /\ \A i \in DOMAIN Measurements[command] : Measurements[command][i] \subseteq Shapes(command)[i]
    BY <1>3, <2>1, InvestigationsAssumption, MeasurementsAssumption
  <2>3. Len(evidence) = Len(Measurements[command]) BY <1>2 DEF Complete
  <2> QED BY <2>1, <2>2, <2>3 DEF Shaped
<1> QED BY <1>2, <1>3

(* The withholding commands together. *)
LEMMA EachWithholds ==
  ASSUME NEW c \in WithholdingCommands, NEW g, NEW ok \in BOOLEAN, Shaped(c, g)
  PROVE  Withholds(c, g, ok)
<1>1. CASE c \in {"flow-dscp-matrix", "capacity-knee", "bufferbloat", "circuit-compare"}
  BY <1>1, FlowWithholds, KneeWithholds, BufferbloatWithholds, CircuitWithholds, Zenon
<1>2. CASE c \in {"ap-identity", "roaming", "second-network", "platform-matrix"}
  BY <1>2, ApIdentityWithholds, RoamingWithholds, SecondNetworkWithholds,
     PlatformMatrixWithholds, Zenon
<1>3. CASE c \in {"clock-guard", "counter-liveness", "multiclient-fairness", "wired-control"}
  BY <1>3, ClockGuardWithholds, LivenessWithholds, FairnessWithholds, WiredControlWithholds, Zenon
<1>4. CASE c \in {"tcp-vs-udp", "process-model", "wired-edge", "pmtu", "protocol-compare"}
  BY <1>4, TcpVsUdpWithholds, ProcessModelWithholds, WiredEdgeWithholds, PmtuWithholds,
     ProtocolWithholds, Zenon
<1> QED BY <1>1, <1>2, <1>3, <1>4, Zenon DEF WithholdingCommands

-----------------------------------------------------------------------------
(* LosingEvidenceOnlyWithholds, the losses that are not noticed. *)

(* The other commands fill nothing in. *)
LEMMA NothingElseIsFilledIn ==
  ASSUME NEW c, c \notin FillingCommands, NEW g, NEW ok
  PROVE  ReadsAs(c, g, ok)
<1>1. \A i : Unnoticed(c, i, g) = {} BY Zenon DEF Unnoticed, FillingCommands
<1> QED BY <1>1 DEF ReadsAs

(* A sequence without its k-th element. *)
LEMMA Removed ==
  ASSUME NEW S, NEW s \in Seq(S), NEW k \in DOMAIN s, Len(s) > 1
  PROVE  /\ RemoveAt(s, k) # <<>>
         /\ \A j \in DOMAIN RemoveAt(s, k) : \E l \in DOMAIN s : l # k /\ RemoveAt(s, k)[j] = s[l]
         /\ \A l \in DOMAIN s : l # k => \E j \in DOMAIN RemoveAt(s, k) : RemoveAt(s, k)[j] = s[l]
<1> DEFINE n == Len(s)
           t == RemoveAt(s, k)
<1>1. n \in Nat /\ k \in 1..n /\ DOMAIN s = 1..n OBVIOUS
<1>2. /\ DOMAIN t = 1..(n - 1)
      /\ \A j \in 1..(n - 1) : t[j] = IF j < k THEN s[j] ELSE s[j + 1]
  <2> DEFINE a == SubSeq(s, 1, k - 1)
             b == SubSeq(s, k + 1, n)
  <2>1. a \in Seq(S) /\ Len(a) = k - 1 /\ \A j \in 1..(k - 1) : a[j] = s[j] BY <1>1
  <2>2. b \in Seq(S) /\ Len(b) = n - k /\ \A j \in 1..(n - k) : b[j] = s[k + j]
    <3>1. b \in Seq(S) /\ Len(b) = n - k BY <1>1
    <3>2. ASSUME NEW j \in 1..(n - k) PROVE b[j] = s[k + j]
      <4>1. k + 1 \in Int /\ n \in Int /\ \A l \in (k + 1)..n : s[l] \in S BY <1>1
      <4>2. \A l \in 1..(n - (k + 1) + 1) : b[l] = s[(k + 1) + l - 1]
        <5>1. PICK q : q = k + 1 OBVIOUS
        <5>2. q \in Int /\ n \in Int /\ \A l \in q..n : s[l] \in S BY <4>1, <5>1
        <5>3. \A l \in 1..(n - q + 1) : SubSeq(s, q, n)[l] = s[q + l - 1]
          <6> HIDE DEF n
          <6> QED BY <5>2, SubSeqProperties
        <5> QED BY <5>1, <5>3, Zenon
      <4>3. (k + 1) + j - 1 = k + j /\ n - (k + 1) + 1 = n - k BY <1>1
      <4> QED BY <4>2, <4>3, Zenon
    <3> QED BY <3>1, <3>2
  <2>3. t = a \o b BY DEF RemoveAt
  <2> HIDE DEF a, b, n, t
  <2>4. DOMAIN t = 1..(n - 1)
    <3>1. Len(t) = Len(a) + Len(b) /\ t \in Seq(S) BY <2>1, <2>2, <2>3, ConcatProperties
    <3>2. Len(t) = n - 1 BY <1>1, <2>1, <2>2, <3>1
    <3> QED BY <3>1, <3>2
  <2>5. \A j \in 1..(n - 1) : t[j] = IF j <= k - 1 THEN a[j] ELSE b[j - (k - 1)] BY <1>1, <2>1, <2>2, <2>3
  <2>6. ASSUME NEW j \in 1..(n - 1), j >= k PROVE b[j - (k - 1)] = s[j + 1]
    <3>1. j - (k - 1) \in 1..(n - k) /\ k + (j - (k - 1)) = j + 1 BY <1>1, <2>6
    <3> QED BY <2>2, <3>1, Zenon
  <2>7. ASSUME NEW j \in 1..(n - 1), j < k PROVE a[j] = s[j] BY <1>1, <2>1, <2>7
  <2>8. ASSUME NEW j \in 1..(n - 1) PROVE t[j] = IF j < k THEN s[j] ELSE s[j + 1]
    <3>1. k \in Int /\ j \in Int /\ (j < k <=> j <= k - 1) /\ (~(j < k) <=> j >= k) BY <1>1
    <3>2. CASE j < k BY <2>5, <2>7, <3>1, <3>2, Zenon
    <3>3. CASE ~(j < k) BY <2>5, <2>6, <3>1, <3>3, Zenon
    <3> QED BY <3>2, <3>3, Zenon
  <2> QED BY <2>4, <2>8, Zenon
<1> HIDE DEF n, t
<1>3. t # <<>> BY <1>1, <1>2 DEF n
<1>4. ASSUME NEW j \in DOMAIN t PROVE \E l \in DOMAIN s : l # k /\ t[j] = s[l]
  <2>1. j \in 1..(n - 1) BY <1>2
  <2>2. CASE j < k BY <1>1, <1>2, <2>1, <2>2
  <2>3. CASE ~(j < k)
    <3>1. j + 1 \in DOMAIN s /\ j + 1 # k /\ t[j] = s[j + 1] BY <1>1, <1>2, <2>1, <2>3
    <3> QED BY <3>1
  <2> QED BY <2>2, <2>3
<1>5. ASSUME NEW l \in DOMAIN s, l # k PROVE \E j \in DOMAIN t : t[j] = s[l]
  <2>1. CASE l < k
    <3>1. l \in DOMAIN t /\ t[l] = s[l] BY <1>1, <1>2, <1>5, <2>1
    <3> QED BY <3>1
  <2>2. CASE ~(l < k)
    <3>1. l - 1 \in 1..(n - 1) /\ ~(l - 1 < k) /\ (l - 1) + 1 = l BY <1>1, <1>5, <2>2
    <3>2. l - 1 \in DOMAIN t /\ t[l - 1] = s[l] BY <1>2, <3>1
    <3> QED BY <3>2
  <2> QED BY <2>1, <2>2
<1> QED BY <1>3, <1>4, <1>5 DEF t

(* Removing an element is like its becoming one that P spares. *)
LEMMA RemovedIsSpared ==
  ASSUME NEW S, NEW s \in Seq(S), NEW k \in DOMAIN s, Len(s) > 1, NEW P, NEW x, x \notin P
  PROVE  Spares(P, s, k, x)
<1> DEFINE t == RemoveAt(s, k)
           u == ReplaceAt(s, k, x)
<1>1. DOMAIN u = DOMAIN s /\ u[k] = x /\ \A l \in DOMAIN s : l # k => u[l] = s[l] BY DEF ReplaceAt
<1>2. /\ \A j \in DOMAIN t : \E l \in DOMAIN s : l # k /\ t[j] = s[l]
      /\ \A l \in DOMAIN s : l # k => \E j \in DOMAIN t : t[j] = s[l]
  BY Removed
<1> HIDE DEF t, u
<1>3. (\E j \in DOMAIN t : t[j] \in P) => \E j \in DOMAIN u : u[j] \in P BY <1>1, <1>2
<1>4. (\E j \in DOMAIN u : u[j] \in P) => \E j \in DOMAIN t : t[j] \in P BY <1>1, <1>2
<1> QED BY <1>3, <1>4 DEF t, u, Spares

(* Circuits whose phases look alike are judged alike. *)
LEMMA JudgedAlike ==
  ASSUME NEW g, NEW h, \A s \in CircuitStates :
           /\ Alike(circuit_phase(g, s), circuit_phase(h, s))
           /\ circuit_phase(g, s) = NoPhase <=> circuit_phase(h, s) = NoPhase
  PROVE  judge_circuits(g) = judge_circuits(h)
<1>1. ASSUME NEW s \in CircuitStates PROVE s \in CircuitMissing(g) <=> s \in CircuitMissing(h)
  <2> DEFINE x == circuit_phase(g, s)
             y == circuit_phase(h, s)
  <2>1. Alike(x, y) /\ (x = NoPhase <=> y = NoPhase) OBVIOUS
  <2>2. /\ s \in CircuitMissing(g) <=> \/ x = NoPhase \/ ~Known(x.mbps) \/ x.members = <<>>
                                       \/ \E j \in DOMAIN x.members : missing_fields(x.members[j]) # {}
        /\ s \in CircuitMissing(h) <=> \/ y = NoPhase \/ ~Known(y.mbps) \/ y.members = <<>>
                                       \/ \E j \in DOMAIN y.members : missing_fields(y.members[j]) # {}
    BY Zenon DEF CircuitMissing
  <2> HIDE DEF x, y
  <2> QED BY <2>1, <2>2, Zenon DEF Alike
<1>2. CircuitMissing(g) = CircuitMissing(h)
  <2>1. CircuitMissing(g) \subseteq CircuitStates /\ CircuitMissing(h) \subseteq CircuitStates
    BY Zenon DEF CircuitMissing
  <2> QED BY <1>1, <2>1, Zenon
<1>3. "a-only" \in CircuitStates /\ "b-only" \in CircuitStates BY DEF CircuitStates
<1> DEFINE a == circuit_phase(g, "a-only")
           b == circuit_phase(g, "b-only")
           x == circuit_phase(h, "a-only")
           y == circuit_phase(h, "b-only")
<1>4. /\ a.mbps = x.mbps /\ Larger(a.loss, 0) = Larger(x.loss, 0)
      /\ b.mbps = y.mbps /\ Larger(b.loss, 0) = Larger(y.loss, 0)
  BY <1>3, Zenon DEF Alike
<1> QED BY <1>2, <1>4, Zenon DEF judge_circuits

(* A loss that was not measured reads as 0, and a member that was not      *)
(* reported as a complete one.                                             *)
LEMMA CircuitReadsAs ==
  ASSUME NEW g, NEW ok, Shaped("circuit-compare", g)
  PROVE  ReadsAs("circuit-compare", g, ok)
<1> DEFINE c == "circuit-compare"
           Phase == [state : STRING, mbps : Int, loss : Int, members : Seq(SUBSET TelemetryFields)]
<1>1. DOMAIN g = 1..3 /\ \A i \in 1..3 : g[i] \in Phase
  <2>1. Shapes(c) = Uniform(3, Phase) BY Zenon DEF Shapes, Uniform
  <2> HIDE DEF Phase
  <2> QED BY <2>1, AllShaped
<1>2. ASSUME NEW i \in DOMAIN g, NEW p \in Unnoticed(c, i, g) PROVE Alike(p[1], p[2]) /\ p[1].state = g[i].state
  <2> DEFINE m == g[i]
  <2>1. m \in Phase BY <1>1
  <2>2. Unnoticed(c, i, g) =
          {<<[m EXCEPT !.loss = Missing], [m EXCEPT !.loss = 0]>>}
          \cup {<<[m EXCEPT !.members = RemoveAt(m.members, k)],
                  [m EXCEPT !.members = ReplaceAt(m.members, k, TelemetryFields)]>> :
                   k \in {j \in DOMAIN m.members : Len(m.members) > 1}}
    BY Zenon DEF Unnoticed
  <2> HIDE DEF m
  <2>3. CASE p = <<[m EXCEPT !.loss = Missing], [m EXCEPT !.loss = 0]>>
    <3> DEFINE x == [m EXCEPT !.loss = Missing]
               y == [m EXCEPT !.loss = 0]
    <3>1. /\ x.state = m.state /\ x.mbps = m.mbps /\ x.members = m.members /\ x.loss = Missing
          /\ y.state = m.state /\ y.mbps = m.mbps /\ y.members = m.members /\ y.loss = 0
      BY <2>1
    <3>2. p[1] = x /\ p[2] = y BY <2>3
    <3> HIDE DEF x, y
    <3>3. Larger(x.loss, 0) = Larger(y.loss, 0) BY <3>1 DEF Larger, Missing
    <3> QED BY <3>1, <3>2, <3>3, Zenon DEF Alike, m
  <2>4. ASSUME NEW k \in DOMAIN m.members, Len(m.members) > 1,
               p = <<[m EXCEPT !.members = RemoveAt(m.members, k)],
                     [m EXCEPT !.members = ReplaceAt(m.members, k, TelemetryFields)]>>
        PROVE  Alike(p[1], p[2]) /\ p[1].state = m.state
    <3> DEFINE t == RemoveAt(m.members, k)
               u == ReplaceAt(m.members, k, TelemetryFields)
               x == [m EXCEPT !.members = t]
               y == [m EXCEPT !.members = u]
               P == {f \in SUBSET TelemetryFields : missing_fields(f) # {}}
    <3>1. m.members \in Seq(SUBSET TelemetryFields) BY <2>1
    <3>2. TelemetryFields \notin P BY DEF missing_fields
    <3>3. Spares(P, m.members, k, TelemetryFields)
      <4> HIDE DEF P
      <4> QED BY <2>4, <3>1, <3>2, RemovedIsSpared
    <3>4. /\ \A j \in DOMAIN t : t[j] \in SUBSET TelemetryFields
          /\ \A j \in DOMAIN u : u[j] \in SUBSET TelemetryFields
      <4>1. \A j \in DOMAIN m.members : m.members[j] \in SUBSET TelemetryFields BY <3>1
      <4>2. \A j \in DOMAIN t : \E l \in DOMAIN m.members : l # k /\ t[j] = m.members[l] BY <2>4, <3>1, Removed
      <4> HIDE DEF t
      <4>3. \A j \in DOMAIN t : t[j] \in SUBSET TelemetryFields BY <4>1, <4>2
      <4>4. \A j \in DOMAIN u : u[j] \in SUBSET TelemetryFields BY <4>1 DEF ReplaceAt
      <4> QED BY <4>3, <4>4
    <3>5. t # <<>> /\ u # <<>>
      <4>1. t # <<>> BY <2>4, <3>1, Removed
      <4>2. k \in DOMAIN u BY <2>4 DEF ReplaceAt
      <4>3. DOMAIN << >> = {} OBVIOUS
      <4> HIDE DEF t, u
      <4> QED BY <4>1, <4>2, <4>3
    <3>6. (\E j \in DOMAIN t : t[j] \in P) <=> (\E j \in DOMAIN u : u[j] \in P)
      <4> HIDE DEF P
      <4> QED BY <3>3, Zenon DEF Spares
    <3> HIDE DEF t, u
    <3>7. (\E j \in DOMAIN t : missing_fields(t[j]) # {}) <=> (\E j \in DOMAIN u : missing_fields(u[j]) # {})
      BY <3>4, <3>6, Zenon
    <3>8. /\ x.state = m.state /\ x.mbps = m.mbps /\ x.loss = m.loss /\ x.members = t
          /\ y.state = m.state /\ y.mbps = m.mbps /\ y.loss = m.loss /\ y.members = u
      BY <2>1
    <3>9. p[1] = x /\ p[2] = y BY <2>4 DEF t, u
    <3> HIDE DEF x, y
    <3> QED BY <3>5, <3>7, <3>8, <3>9, Zenon DEF Alike
  <2> QED BY <2>2, <2>3, <2>4, Zenon DEF m
<1>3. ASSUME NEW i \in DOMAIN g, NEW p \in Unnoticed(c, i, g)
      PROVE  ClaimsOn(c, [g EXCEPT ![i] = p[1]], ok) = ClaimsOn(c, [g EXCEPT ![i] = p[2]], ok)
  <2> DEFINE x == p[1]
             y == p[2]
             e == [g EXCEPT ![i] = x]
             f == [g EXCEPT ![i] = y]
             of(s) == {k \in 1..3 : g[k].state = s}
  <2>1. Alike(x, y) /\ x.state = g[i].state /\ y.state = g[i].state BY <1>2 DEF Alike
  <2> HIDE DEF x, y
  <2>2. /\ DOMAIN e = 1..3 /\ e[i] = x /\ \A j \in 1..3 : j # i => e[j] = g[j]
        /\ DOMAIN f = 1..3 /\ f[i] = y /\ \A j \in 1..3 : j # i => f[j] = g[j]
    BY <1>1
  <2> HIDE DEF e, f
  <2>3. \A s : of(s) = {k \in DOMAIN e : e[k].state = s} /\ of(s) = {k \in DOMAIN f : f[k].state = s} BY <2>1, <2>2
  <2>4. \A s : of(s) \subseteq Nat /\ \A k \in of(s) : g[k].state = s /\ k \in 1..3 OBVIOUS
  <2> HIDE DEF of
  <2>5. \A s : /\ circuit_phase(e, s) = IF of(s) = {} THEN NoPhase ELSE e[Min(of(s))]
               /\ circuit_phase(f, s) = IF of(s) = {} THEN NoPhase ELSE f[Min(of(s))]
    BY <2>3, Zenon DEF circuit_phase, FirstOr, Where
  <2>6. \A z : Alike(z, z) BY DEF Alike
  <2>7. ASSUME NEW s \in CircuitStates
        PROVE  /\ Alike(circuit_phase(e, s), circuit_phase(f, s))
               /\ circuit_phase(e, s) = NoPhase <=> circuit_phase(f, s) = NoPhase
    <3>1. CASE of(s) = {} BY <2>5, <2>6, <3>1
    <3>2. CASE of(s) # {}
      <4>1. Min(of(s)) \in of(s) BY <2>4, <3>2, MinNat
      <4>2. PICK k : k = Min(of(s)) OBVIOUS
      <4>3. k \in 1..3 /\ g[k].state = s /\ circuit_phase(e, s) = e[k] /\ circuit_phase(f, s) = f[k]
        BY <2>4, <2>5, <3>2, <4>1, <4>2
      <4>4. Alike(e[k], f[k]) /\ e[k].state = s /\ f[k].state = s BY <2>1, <2>2, <2>6, <4>3
      <4>5. NoPhase.state # s BY DEF NoPhase, CircuitStates
      <4> QED BY <4>3, <4>4, <4>5
    <3> QED BY <3>1, <3>2
  <2>8. judge_circuits(e) = judge_circuits(f) BY <2>7, JudgedAlike
  <2>9. \A z : claims(c, z) = {z.verdict.kind} \ {"Refused"} BY Zenon DEF claims
  <2>10. ClaimsOn(c, e, ok) = ClaimsOn(c, f, ok)
    <3>1. CASE ok
      <4>1. \A z : dispatch(c, z, ok).exit = 0 /\ dispatch(c, z, ok).report.verdict = judge_circuits(z)
        BY <3>1, CircuitReport
      <4>2. \A z : ClaimsOn(c, z, ok) = {judge_circuits(z).kind} \ {"Refused"} BY <2>9, <4>1, Zenon DEF ClaimsOf, ClaimsOn
      <4> QED BY <2>8, <4>2, Zenon
    <3>2. CASE ~ok BY <3>2, CircuitReport DEF ClaimsOf, ClaimsOn
    <3> QED BY <3>1, <3>2
  <2> QED BY <2>10 DEF e, f, x, y
<1> QED BY <1>3 DEF ReadsAs

(* One of several counters that was not read is one that did not drop. *)
LEMMA LivenessReadsAs ==
  ASSUME NEW g, NEW ok, Shaped("counter-liveness", g)
  PROVE  ReadsAs("counter-liveness", g, ok)
<1> DEFINE c == "counter-liveness"
           Rows == Seq([own : BOOLEAN, columns : Nat, ipkts : Int])
<1>1. DOMAIN g = 1..5 /\ g[5] \in Seq(Int)
  <2>1. Shapes(c) = <<Rows, Rows, Nat, Nat, Seq(Int)>> BY Zenon DEF Shapes
  <2> HIDE DEF Rows
  <2>2. Len(Shapes(c)) = 5 /\ Shapes(c)[5] = Seq(Int) BY <2>1
  <2>3. DOMAIN g = 1..5 /\ \A i \in 1..5 : g[i] \in Shapes(c)[i] BY <2>2, ShapedAt
  <2> QED BY <2>2, <2>3
<1>2. ASSUME NEW i \in DOMAIN g, NEW p \in Unnoticed(c, i, g)
      PROVE  ClaimsOn(c, [g EXCEPT ![i] = p[1]], ok) = ClaimsOn(c, [g EXCEPT ![i] = p[2]], ok)
  <2> DEFINE m == g[i]
             e == [g EXCEPT ![i] = p[1]]
             f == [g EXCEPT ![i] = p[2]]
             P == Int \ {0}
  <2>1. Unnoticed(c, i, g) =
          IF i = 5 THEN {<<RemoveAt(m, k), ReplaceAt(m, k, 0)>> : k \in {j \in DOMAIN m : Len(m) > 1}} ELSE {}
    BY Zenon DEF Unnoticed
  <2>2. i = 5 /\ m \in Seq(Int) BY <1>1, <2>1
  <2>3. PICK k \in DOMAIN m : Len(m) > 1 /\ p = <<RemoveAt(m, k), ReplaceAt(m, k, 0)>> BY <2>1, <2>2
  <2> HIDE DEF m
  <2> DEFINE t == RemoveAt(m, k)
             u == ReplaceAt(m, k, 0)
  <2>4. /\ \A j \in DOMAIN t : t[j] \in Int
        /\ \A j \in DOMAIN u : u[j] \in Int
        /\ t # <<>> /\ u # <<>>
    <3>1. /\ t # <<>>
          /\ \A j \in DOMAIN t : \E l \in DOMAIN m : l # k /\ t[j] = m[l]
      BY <2>2, <2>3, Removed
    <3>2. \A l \in DOMAIN m : m[l] \in Int BY <2>2
    <3>3. DOMAIN u = DOMAIN m /\ \A l \in DOMAIN u : u[l] = 0 \/ u[l] = m[l] BY DEF ReplaceAt
    <3>4. DOMAIN << >> = {} OBVIOUS
    <3> HIDE DEF t, u
    <3> QED BY <2>3, <3>1, <3>2, <3>3, <3>4
  <2>5. Spares(P, m, k, 0)
    <3>1. 0 \notin P OBVIOUS
    <3> HIDE DEF P
    <3> QED BY <2>2, <2>3, <3>1, RemovedIsSpared
  <2>6. (\E j \in DOMAIN t : t[j] \in P) <=> (\E j \in DOMAIN u : u[j] \in P)
    <3> HIDE DEF P
    <3> QED BY <2>5, Zenon DEF Spares
  <2> HIDE DEF t, u
  <2>7. (\A j \in DOMAIN t : t[j] = 0) <=> (\A j \in DOMAIN u : u[j] = 0) BY <2>4, <2>6
  <2>8. ASSUME NEW v, NEW d PROVE qualify_zero_drop_claim(v, d, t) = qualify_zero_drop_claim(v, d, u)
    BY <2>4, <2>7, Zenon DEF qualify_zero_drop_claim, zero_drop_sources
  <2>9. /\ e[1] = g[1] /\ e[2] = g[2] /\ e[3] = g[3] /\ e[4] = g[4] /\ e[5] = t
        /\ f[1] = g[1] /\ f[2] = g[2] /\ f[3] = g[3] /\ f[4] = g[4] /\ f[5] = u
    BY <1>1, <2>2, <2>3 DEF t, u
  <2> HIDE DEF e, f
  <2>10. dispatch(c, e, ok) = dispatch(c, f, ok)
    <3>1. livenessOf(e) = livenessOf(f) BY <2>9 DEF livenessOf
    <3>2. qualify_zero_drop_claim(livenessOf(e), e[4], e[5]) = qualify_zero_drop_claim(livenessOf(f), f[4], f[5])
      BY <2>8, <2>9, <3>1
    <3>3. /\ read_rx_packets(e[1]) = read_rx_packets(f[1])
          /\ read_rx_packets(e[2]) = read_rx_packets(f[2])
      BY <2>9
    <3>4. dispatch(c, e, ok) =
            IF ~Known(read_rx_packets(e[1])) \/ ~Known(read_rx_packets(e[2])) \/ ~ok THEN Refusal(1)
            ELSE Completed([liveness  |-> livenessOf(e),
                            zero_drop |-> qualify_zero_drop_claim(livenessOf(e), e[4], e[5])])
      BY LivenessAnswer, Zenon
    <3>5. dispatch(c, f, ok) =
            IF ~Known(read_rx_packets(f[1])) \/ ~Known(read_rx_packets(f[2])) \/ ~ok THEN Refusal(1)
            ELSE Completed([liveness  |-> livenessOf(f),
                            zero_drop |-> qualify_zero_drop_claim(livenessOf(f), f[4], f[5])])
      BY LivenessAnswer, Zenon
    <3> QED BY <3>1, <3>2, <3>3, <3>4, <3>5
  <2> QED BY <2>10, Zenon DEF ClaimsOf, ClaimsOn, e, f
<1> QED BY <1>2 DEF ReadsAs

(* The power an access point asked for, when it was not read, is the power *)
(* it got.                                                                 *)
LEMMA WiredEdgeReadsAs ==
  ASSUME NEW g, NEW ok, Shaped("wired-edge", g)
  PROVE  ReadsAs("wired-edge", g, ok)
<1> DEFINE c == "wired-edge"
           Snapshot == [EdgeFields \cup {"poe_requested"} -> Int]
<1>1. DOMAIN g = 1..2 /\ g[1] \in Snapshot /\ g[2] \in Snapshot
  <2>1. Shapes(c) = [i \in 1..2 |-> Snapshot] BY Zenon DEF Shapes
  <2> QED BY <2>1, TwoShaped
<1>2. ASSUME NEW i \in DOMAIN g, NEW p \in Unnoticed(c, i, g)
      PROVE  ClaimsOn(c, [g EXCEPT ![i] = p[1]], ok) = ClaimsOn(c, [g EXCEPT ![i] = p[2]], ok)
  <2> DEFINE m == g[i]
             x == [m EXCEPT !.poe_requested = Missing]
             y == [m EXCEPT !.poe_requested = m.poe_negotiated]
             e == [g EXCEPT ![i] = x]
             f == [g EXCEPT ![i] = y]
  <2>1. Unnoticed(c, i, g) = {<<x, y>>} BY Zenon DEF Unnoticed
  <2>2. p[1] = x /\ p[2] = y BY <2>1
  <2>3. m \in Snapshot /\ i \in 1..2 BY <1>1
  <2> HIDE DEF m
  <2>4. "poe_negotiated" \in EdgeFields /\ EdgeCounters \subseteq EdgeFields /\ "poe_requested" \notin EdgeFields
    BY DEF EdgeFields, EdgeCounters
  <2>5. /\ \A n \in EdgeFields : x[n] = y[n]
        /\ ~Known(x.poe_requested) /\ y.poe_requested = y.poe_negotiated /\ y.poe_negotiated \in Int
    BY <2>3, <2>4 DEF Known
  <2>6. e[i] = x /\ f[i] = y /\ \A j \in 1..2 : j # i => e[j] = f[j] BY <1>1
  <2> HIDE DEF x, y, e, f
  <2>7. edge_missing(x) = edge_missing(y) BY <2>5 DEF edge_missing
  <2>8. \A z : edge_delta(x, z) = edge_delta(y, z) /\ edge_delta(z, x) = edge_delta(z, y) BY <2>4, <2>5 DEF edge_delta
  <2>9. assess_poe_risk(x) # "ReducedFunctionalityFromPoe" /\ assess_poe_risk(y) # "ReducedFunctionalityFromPoe"
    BY <2>5 DEF assess_poe_risk
  <2>10. \A z : judge_wired_edge(x, z) = judge_wired_edge(y, z) /\ judge_wired_edge(z, x) = judge_wired_edge(z, y)
    BY <2>7, <2>8, <2>9 DEF judge_wired_edge
  <2>11. dispatch(c, e, ok) = dispatch(c, f, ok)
    <3>1. judge_wired_edge(e[1], e[2]) = judge_wired_edge(f[1], f[2]) /\ edge_delta(e[1], e[2]) = edge_delta(f[1], f[2])
      BY <2>3, <2>6, <2>8, <2>10
    <3>2. \A z : dispatch(c, z, ok) =
                   IF ok THEN Completed([verdict |-> judge_wired_edge(z[1], z[2]),
                                         delta   |-> edge_delta(z[1], z[2])])
                   ELSE Refusal(1)
      BY WiredEdgeReport
    <3> QED BY <3>1, <3>2, Zenon
  <2> QED BY <2>2, <2>11, Zenon DEF ClaimsOf, ClaimsOn, e, f
<1> QED BY <1>2 DEF ReadsAs

(* What the document of a client says, up to the fields no rate rests on. *)
LEMMA DocumentRates ==
  ASSUME NEW d
  PROVE  LET r == parse_iperf_json(d)
         IN  /\ r.error = IF ~d.json THEN "InvalidJson" ELSE IF d.error THEN "ServerError"
                          ELSE IF ~d.end THEN "MissingField" ELSE "none"
             /\ r.error = "none" => /\ r.sent = Solid(parse_rate_sample(d.sum_sent))
                                    /\ r.received = Solid(parse_rate_sample(d.sum_received))
                                    /\ r.estimated = parse_rate_sample(d.sum)
<1> DEFINE o == IF d.target > 0 THEN d.target ELSE Missing
           w == IF d.bidir THEN "Bidirectional" ELSE IF d.reverse THEN "Reverse" ELSE "Forward"
           s == Solid(parse_rate_sample(d.sum_sent))
           q == Solid(parse_rate_sample(d.sum_received))
           l == parse_rate_sample(d.sum)
           v == IF d.bidir THEN Solid(parse_rate_sample(d.recv_rev)) ELSE Absent
           x == {f \in {"sum_sent", "sum_received"} : d[f] = Absent}
                \cup (IF d.bidir THEN {f \in {"sent_rev", "recv_rev"} : d[f] = Absent} ELSE {})
           r == [error |-> "none", version |-> d.version, direction |-> w, offered |-> o, sent |-> s,
                 received |-> q, estimated |-> l, reverse |-> v, missing |-> x]
<1>1. parse_iperf_json(d) =
        IF ~d.json THEN [error |-> "InvalidJson"] ELSE IF d.error THEN [error |-> "ServerError"]
        ELSE IF ~d.end THEN [error |-> "MissingField"] ELSE r
  BY Zenon DEF parse_iperf_json
<1> HIDE DEF o, w, s, q, l, v, x
<1>2. r.error = "none" /\ r.sent = s /\ r.received = q /\ r.estimated = l OBVIOUS
<1> HIDE DEF r
<1> QED BY <1>1, <1>2 DEF s, q, l

(* Without the receiver's figure a TCP client is rated by the sender's, a  *)
(* UDP client by the legacy sum.                                           *)
LEMMA ReceiverReadsAs ==
  ASSUME NEW m \in IperfClient, NEW b \in IperfBlock,
         NEW x, x = [m EXCEPT !.document.sum_received = Absent],
         NEW y, y = [m EXCEPT !.document.sum_received = b]
  PROVE  /\ b = m.document.sum_sent =>
              tcp_result(run_with_hard_timeout(x)) = tcp_result(run_with_hard_timeout(y))
         /\ b = m.document.sum =>
              udp_result(run_with_hard_timeout(x)) = udp_result(run_with_hard_timeout(y))
<1> DEFINE d == m.document
           dx == [d EXCEPT !.sum_received = Absent]
           dy == [d EXCEPT !.sum_received = b]
           rx == parse_iperf_json(dx)
           ry == parse_iperf_json(dy)
<1>1. d \in IperfDocument /\ m \in [outcome : STRING, document : IperfDocument] BY DEF IperfClient
<1>2. /\ x.outcome = m.outcome /\ x.document = dx
      /\ y.outcome = m.outcome /\ y.document = dy
  BY <1>1
<1> HIDE DEF d
<1>3. /\ dx.sum_received = Absent /\ dy.sum_received = b
      /\ dx.json = d.json /\ dx.error = d.error /\ dx.end = d.end
      /\ dy.json = d.json /\ dy.error = d.error /\ dy.end = d.end
      /\ dx.sum_sent = d.sum_sent /\ dx.sum = d.sum /\ dy.sum_sent = d.sum_sent /\ dy.sum = d.sum
  BY <1>1 DEF IperfDocument
<1> HIDE DEF dx, dy
<1>4. Solid(parse_rate_sample(Absent)) = Absent BY DEF Solid, parse_rate_sample, Absent, Known
<1>5. /\ rx.error = ry.error
      /\ rx.error = "none" =>
           /\ rx.sent = Solid(parse_rate_sample(d.sum_sent)) /\ rx.received = Absent
           /\ rx.estimated = parse_rate_sample(d.sum)
           /\ ry.sent = Solid(parse_rate_sample(d.sum_sent)) /\ ry.received = Solid(parse_rate_sample(b))
           /\ ry.estimated = parse_rate_sample(d.sum)
  BY <1>3, <1>4, DocumentRates, Zenon
<1> HIDE DEF rx, ry
<1>6. \A z : Solid(z) = Absent \/ Solid(z) = z BY DEF Solid
<1>7. b = d.sum_sent => tcp_result(rx) = tcp_result(ry) BY <1>5, <1>6, Zenon DEF tcp_result
<1>8. b = d.sum => udp_result(rx) = udp_result(ry) BY <1>5, <1>6, Zenon DEF udp_result
<1>9. /\ run_with_hard_timeout(x) = IF m.outcome = "exited" THEN rx ELSE [error |-> "InvalidJson"]
      /\ run_with_hard_timeout(y) = IF m.outcome = "exited" THEN ry ELSE [error |-> "InvalidJson"]
  BY <1>2 DEF run_with_hard_timeout, rx, ry
<1>10. CASE m.outcome = "exited" BY <1>7, <1>8, <1>9, <1>10, Zenon DEF d
<1>11. CASE m.outcome # "exited" BY <1>9, <1>11, Zenon
<1> QED BY <1>10, <1>11, Zenon

(* A comparison without a receiver's figure is that with the figure that   *)
(* the client falls back to.                                               *)
LEMMA TcpVsUdpReadsAs ==
  ASSUME NEW g, NEW ok, Shaped("tcp-vs-udp", g)
  PROVE  ReadsAs("tcp-vs-udp", g, ok)
<1> DEFINE c == "tcp-vs-udp"
           without(m) == [m EXCEPT !.document.sum_received = Absent]
           with(m, b) == [m EXCEPT !.document.sum_received = b]
<1>1. DOMAIN g = 1..4 /\ g[1] \in IperfClient /\ g[2] \in IperfClient BY TcpVsUdpShape
<1>2. ASSUME NEW i \in DOMAIN g, NEW p \in Unnoticed(c, i, g)
      PROVE  ClaimsOn(c, [g EXCEPT ![i] = p[1]], ok) = ClaimsOn(c, [g EXCEPT ![i] = p[2]], ok)
  <2> DEFINE e == [g EXCEPT ![i] = p[1]]
             f == [g EXCEPT ![i] = p[2]]
  <2>1. Unnoticed(c, i, g) =
          IF i = 1 THEN {<<without(g[i]), with(g[i], g[i].document.sum_sent)>>}
          ELSE IF i = 2 THEN {<<without(g[i]), with(g[i], g[i].document.sum)>>} ELSE {}
    BY Zenon DEF Unnoticed
  <2>2. \/ i = 1 /\ p[1] = without(g[1]) /\ p[2] = with(g[1], g[1].document.sum_sent)
        \/ i = 2 /\ p[1] = without(g[2]) /\ p[2] = with(g[2], g[2].document.sum)
    <3> HIDE DEF without, with
    <3> QED BY <2>1
  <2>3. /\ e[i] = p[1] /\ f[i] = p[2] /\ i \in 1..4
        /\ \A j \in 1..4 : j # i => e[j] = f[j]
    BY <1>1
  <2> HIDE DEF e, f
  <2>4. tcpOf(e) = tcpOf(f) /\ udpOf(e) = udpOf(f) /\ e[3] = f[3] /\ e[4] = f[4]
    <3>1. \A m \in IperfClient : m.document.sum_sent \in IperfBlock /\ m.document.sum \in IperfBlock
      BY DEF IperfClient, IperfDocument
    <3>2. CASE i = 1
      <4>1. e[1] = without(g[1]) /\ f[1] = with(g[1], g[1].document.sum_sent) BY <2>2, <2>3, <3>2
      <4>2. tcpOf(e) = tcpOf(f) BY <1>1, <3>1, <4>1, ReceiverReadsAs DEF tcpOf
      <4>3. e[2] = f[2] /\ e[3] = f[3] /\ e[4] = f[4] BY <2>3, <3>2
      <4> QED BY <4>2, <4>3 DEF udpOf
    <3>3. CASE i = 2
      <4>1. e[2] = without(g[2]) /\ f[2] = with(g[2], g[2].document.sum) BY <2>2, <2>3, <3>3
      <4>2. udpOf(e) = udpOf(f) BY <1>1, <3>1, <4>1, ReceiverReadsAs DEF udpOf
      <4>3. e[1] = f[1] /\ e[3] = f[3] /\ e[4] = f[4] BY <2>3, <3>3
      <4> QED BY <4>2, <4>3 DEF tcpOf
    <3> QED BY <2>2, <3>2, <3>3
  <2>5. dispatch(c, e, ok) = dispatch(c, f, ok)
    <3>1. \A z : dispatch(c, z, ok) =
                   IF ok THEN Completed([tcp |-> tcpOf(z), udp |-> udpOf(z),
                                         delta |-> achieved_mbps_delta(tcpOf(z), udpOf(z)),
                                         radio |-> radio_validity_for(z[3], z[4])])
                   ELSE Refusal(1)
      BY TcpVsUdpReport
    <3> QED BY <2>4, <3>1, Zenon
  <2> QED BY <2>5, Zenon DEF ClaimsOf, ClaimsOn, e, f
<1> QED BY <1>2 DEF ReadsAs

-----------------------------------------------------------------------------
(* FiguresAreTheirOwn, one command after the other. *)

(* A clock within the skew: its offset and its round trip bound its error. *)
LEMMA ClocksAreClose ==
  ASSUME MachineInv, outcome.exit = 0, command = "clock-guard"
  PROVE  PermittedClocksAreClose
<1>1. outcome = dispatch("clock-guard", evidence, ready) /\ Shaped("clock-guard", evidence)
  BY VerdictOnShapedEvidence DEF ShapedCommands
<1> SUFFICES ASSUME NEW i \in 1..2, permits_one_way_claim(report.clocks[i])
             PROVE  evidence[i].error <= MaxSkew
  BY DEF PermittedClocksAreClose
<1>2. permits_one_way_claim(clock(evidence[i])) BY <1>1, ClockReport DEF report
<1>3. /\ Known(evidence[i].offset) /\ Known(evidence[i].delay)
      /\ evidence[i].offset + evidence[i].delay <= MaxSkew
  BY <1>2 DEF permits_one_way_claim, clock, from_ntp_result, within_skew
<1>4. /\ evidence[i] \in [error : Nat, offset : Int, delay : Int]
      /\ i \in 1..Len(evidence)
  BY <1>1, ClockShape DEF Shaped
<1>5. "clock-guard" \in DOMAIN Measurements /\ evidence[i] \in Measurements["clock-guard"][i]
  BY <1>4 DEF MachineInv, Gathered, Commands
<1>6. evidence[i].error <= evidence[i].offset + evidence[i].delay BY <1>3, <1>5, MeasurementsAssumption
<1> QED BY <1>3, <1>4, <1>6, InvestigationsAssumption

(* A counter that moved, of an interface that was listed twice. *)
LEMMA ReadsAnOwnRow ==
  ASSUME NEW rows \in Seq([own : BOOLEAN, columns : Nat, ipkts : Int]), Known(read_rx_packets(rows))
  PROVE  /\ read_rx_packets(rows) \in Int
         /\ \E k \in DOMAIN rows : rows[k].own
<1> DEFINE W == {k \in DOMAIN rows : rows[k].own /\ rows[k].columns >= 7 /\ Known(rows[k].ipkts)}
<1>1. read_rx_packets(rows) = (IF W = {} THEN [ipkts |-> Missing] ELSE rows[Min(W)]).ipkts
  BY Zenon DEF read_rx_packets, FirstOr, Where
<1>2. W \subseteq Nat OBVIOUS
<1>3. W # {}
  <2> HIDE DEF W
  <2> QED BY <1>1 DEF Known
<1>4. Min(W) \in W
  <2> HIDE DEF W
  <2> QED BY <1>2, <1>3, MinNat
<1>5. Min(W) \in DOMAIN rows /\ rows[Min(W)].own BY <1>4
<1>6. rows[Min(W)].ipkts \in Int
  <2> HIDE DEF W
  <2>1. DOMAIN rows = 1..Len(rows) OBVIOUS
  <2>2. rows[Min(W)] \in [own : BOOLEAN, columns : Nat, ipkts : Int] BY <1>5, <2>1, ElementOfSeq, Zenon
  <2> QED BY <2>2
<1> HIDE DEF W
<1> QED BY <1>1, <1>3, <1>5, <1>6

(* "No drops" is said only of a counter that moved. *)
LEMMA DropsAreCorroborated ==
  ASSUME MachineInv, outcome.exit = 0, command = "counter-liveness"
  PROVE  ZeroDropsAreCorroborated
<1> DEFINE c == "counter-liveness"
           Rows == Seq([own : BOOLEAN, columns : Nat, ipkts : Int])
           e == evidence
           v == livenessOf(e)
<1>1. outcome = dispatch(c, e, ready) /\ Shaped(c, e) BY VerdictOnShapedEvidence DEF ShapedCommands
<1>2. e[1] \in Rows /\ e[2] \in Rows /\ e[3] \in Nat /\ e[5] \in Seq(Int)
  <2>1. Shapes(c) = <<Rows, Rows, Nat, Nat, Seq(Int)>> BY Zenon DEF Shapes
  <2> HIDE DEF Rows
  <2>2. Len(Shapes(c)) = 5 BY <2>1
  <2>3. \A i \in 1..5 : e[i] \in Shapes(c)[i] BY <1>1, <2>2, ShapedAt
  <2>4. /\ e[1] \in Shapes(c)[1] /\ e[2] \in Shapes(c)[2] /\ e[3] \in Shapes(c)[3]
        /\ e[5] \in Shapes(c)[5]
    BY <2>3
  <2> QED BY <2>1, <2>4
<1> SUFFICES ASSUME report.zero_drop = "clean" PROVE ZeroDropsAreCorroborated BY DEF ZeroDropsAreCorroborated
<1>3. dispatch(c, e, ready).exit = 0 BY <1>1
<1>4. /\ Known(read_rx_packets(e[1])) /\ Known(read_rx_packets(e[2]))
      /\ report = [liveness |-> v, zero_drop |-> qualify_zero_drop_claim(v, e[4], e[5])]
  BY <1>1, <1>3, LivenessReport DEF report
<1> HIDE DEF v
<1>5. qualify_zero_drop_claim(v, e[4], e[5]) = "clean" BY <1>4
<1>6. /\ v = "Live" /\ e[4] = 0 /\ e[5] # <<>>
      /\ \A i \in DOMAIN e[5] : e[5][i] = 0
  BY <1>5 DEF qualify_zero_drop_claim, zero_drop_sources
<1>7. Range(e[5]) = {0}
  <2>1. 1 \in DOMAIN e[5] BY <1>2, <1>6
  <2> QED BY <1>6, <2>1 DEF Range
<1>8. /\ read_rx_packets(e[1]) \in Int /\ read_rx_packets(e[2]) \in Int
      /\ \A i \in 1..2 : \E k \in DOMAIN e[i] : e[i][k].own
  <2>1. read_rx_packets(e[1]) \in Int /\ \E k \in DOMAIN e[1] : e[1][k].own BY <1>2, <1>4, ReadsAnOwnRow
  <2>2. read_rx_packets(e[2]) \in Int /\ \E k \in DOMAIN e[2] : e[2][k].own BY <1>2, <1>4, ReadsAnOwnRow
  <2>3. \A i \in 1..2 : i = 1 \/ i = 2 OBVIOUS
  <2> QED BY <2>1, <2>2, <2>3
<1>9. e[1] # e[2]
  <2> SUFFICES ASSUME e[1] = e[2] PROVE FALSE OBVIOUS
  <2>1. read_rx_packets(e[2]) - read_rx_packets(e[1]) = 0 BY <1>8
  <2> DEFINE x == read_rx_packets(e[1])
             y == read_rx_packets(e[2])
             w == [tolerance |-> 2, small |-> 64, large |-> 256]
  <2> HIDE DEF x, y, w
  <2>2. classify_liveness(e[3], x, y, w) # "Live" BY <1>2, <2>1 DEF classify_liveness, x, y
  <2> QED BY <1>6, <2>2 DEF v, livenessOf, x, y, w
<1> QED BY <1>6, <1>7, <1>8, <1>9 DEF ZeroDropsAreCorroborated

(* A delta is normalised only when it is clean. *)
LEMMA DeltasAreClean ==
  ASSUME MachineInv, outcome.exit = 0, command = "counter-deltas"
  PROVE  DeltasAreOfThisTest
<1> DEFINE c == "counter-deltas"
           e == evidence
           a == [interface |-> ready, budget |-> TRUE, before |-> e[1], after |-> e[2],
                 inject_wrap |-> FALSE, shared |-> e[4], isolated |-> e[3], validity |-> "stable"]
           d == compute_counter_delta(e[1], e[2], e[4], e[3])
<1>1. outcome = dispatch(c, e, ready) BY VerdictOnShapedEvidence
<1>2. dispatch(c, e, ready) = evidence_report(c, e, ready) BY Routes DEF EvidenceCommands
<1>3. evidence_report(c, e, ready) = counter_deltas_run(a) BY Zenon DEF evidence_report
<1>4. counter_deltas_run(a) =
        IF ~ready THEN Refusal(1) ELSE Completed([delta |-> d, radio |-> "stable"])
  <2> HIDE DEF d
  <2> QED BY DEF counter_deltas_run, d
<1> HIDE DEF d, a
<1>5. outcome = Completed([delta |-> d, radio |-> "stable"]) BY <1>1, <1>2, <1>3, <1>4 DEF Refusal
<1>6. report.delta = d BY <1>5, ReportOf DEF report
<1>7. Known(d.normalized.rx) => qualify_delta(e[1], e[2], e[4], e[3]) = "Clean" BY DEF d, compute_counter_delta, Known
<1>8. qualify_delta(e[1], e[2], e[4], e[3]) = "Clean" => e[2].rx >= e[1].rx /\ (e[3] \/ ~e[4])
  BY DEF qualify_delta, usable_delta_from
<1> QED BY <1>6, <1>7, <1>8 DEF DeltasAreOfThisTest

(* A gateway that suppresses ICMP answered the fallback. *)
LEMMA SuppressedAnswered ==
  ASSUME MachineInv, outcome.exit = 0, command = "first-hop", report.state = "Suppressed"
  PROVE  evidence[3] # "timeout"
<1> DEFINE c == "first-hop"
           e == evidence
           p == SubSeq(e, 1, 2)
           x == [name |-> "none", tunnel |-> FALSE]
           y == [name |-> "en0", tunnel |-> FALSE]
           w == IF ready THEN "gw" ELSE "none"
           a == [gateway |-> w, replies |-> p, explicit |-> x, fallback |-> e[3], route |-> y]
           got == Count(p, Known)
           n == resolve_probe_interface(x, y)
           s == classify_icmp(Len(p), got, IF got = 0 THEN e[3] ELSE "none")
           r == [interface |-> n, sent |-> Len(p), received |-> got, state |-> s]
<1>1. outcome = dispatch(c, e, ready) BY VerdictOnShapedEvidence
<1>2. dispatch(c, e, ready) = comparison_report(c, e, ready) BY Routes DEF ComparisonCommands
<1>3. comparison_report(c, e, ready) = firsthop_run(a) BY Zenon DEF comparison_report
<1>4. /\ a.gateway = w /\ a.replies = p /\ a.explicit = x /\ a.fallback = e[3] /\ a.route = y
  <2> HIDE DEF p, x, y, w
  <2> QED  OBVIOUS
<1> HIDE DEF a, p, x, y
<1>5. firsthop_run(a) = IF w = "none" THEN Refusal(1) ELSE Completed(r) BY <1>4, Zenon DEF firsthop_run
<1> HIDE DEF r, w
<1>6. outcome = Completed(r) BY <1>1, <1>2, <1>3, <1>5 DEF Refusal
<1>7. report = r BY <1>6, ReportOf DEF report
<1> HIDE DEF got, n
<1>8. s = "Suppressed"
  <2> HIDE DEF s
  <2> QED BY <1>7 DEF r
<1> QED BY <1>8 DEF classify_icmp, tcp_syn_succeeds

(* The receiver's rate is the receiver's. *)
LEMMA ReceiverIsTheReceivers ==
  ASSUME MachineInv, outcome.exit = 0, command = "iperf-summary",
         evidence[1].sum_received.packets > 0, Known(report.receiver)
  PROVE  report.receiver = evidence[1].sum_received.bps
<1> DEFINE c == "iperf-summary"
           e == evidence
           d == e[1]
           up == ~d.error /\ d.connected > 0
           block(b) == IF up /\ d.end THEN b ELSE Absent
           x == block(Solid(d.sum_sent)).bps
           y == block(receiver_block(d)).bps
           z == block(receiver_block(d)).packets
<1>1. outcome = dispatch(c, e, ready) /\ Shaped(c, e) BY VerdictOnShapedEvidence DEF ShapedCommands
<1>2. d.sum_received \in IperfBlock
  <2>1. Shapes(c) = <<IperfDocument>> BY Zenon DEF Shapes
  <2>2. Len(Shapes(c)) = 1 /\ Shapes(c)[1] = IperfDocument BY <2>1
  <2>3. \A i \in 1..1 : e[i] \in Shapes(c)[i] BY <1>1, <2>2, ShapedAt
  <2>4. d \in IperfDocument BY <2>2, <2>3
  <2> QED BY <2>4 DEF IperfDocument
<1>3. dispatch(c, e, ready) = load_report(c, e, ready) BY Routes DEF LoadCommands
<1>4. load_report(c, e, ready) = Completed(from_json(d)) BY SMT DEF load_report
<1>5. from_json(d) = [connected |-> up, error |-> d.error, sender |-> x, receiver |-> y,
                      packets |-> z]
  BY Zenon DEF from_json
<1>6. report = from_json(d) BY <1>1, <1>3, <1>4, ReportOf DEF report
<1>7. report.receiver = y
  <2> HIDE DEF x, y, z, up, d
  <2> QED BY <1>5, <1>6
<1>8. receiver_block(d) = d.sum_received
  <2> HIDE DEF d
  <2>1. d.sum_received # Absent /\ Known(d.sum_received.packets) /\ d.sum_received.packets # 0
    BY <1>2 DEF IperfBlock, Absent, Missing, Known, d
  <2>2. Solid(d.sum_received) = d.sum_received BY <2>1 DEF Solid, is_hollow
  <2> QED BY <2>1, <2>2 DEF receiver_block
<1>9. CASE up /\ d.end BY <1>7, <1>8, <1>9
<1>10. CASE ~(up /\ d.end)
  <2>1. y = Missing BY <1>10 DEF Absent
  <2> QED BY <1>7, <2>1 DEF Known
<1> QED BY <1>9, <1>10

(* A size is confirmed when it left the host and the peer acknowledged it. *)
LEMMA SizesWereAnswered ==
  ASSUME MachineInv, outcome.exit = 0, command = "pmtu"
  PROVE  ConfirmedSizesWereAnswered
<1> DEFINE c == "pmtu"
           e == evidence
<1>1. outcome = dispatch(c, e, ready) /\ Shaped(c, e) BY VerdictOnShapedEvidence DEF ShapedCommands
<1>2. DOMAIN e = 1..3 /\ \A i \in 1..3 : e[i] \in Trial BY <1>1, PmtuShape
<1> SUFFICES ASSUME Known(report.confirmed)
             PROVE  \E i \in DOMAIN e : /\ e[i].size = report.confirmed
                                        /\ e[i].local /\ e[i].quic = "acknowledged"
  BY DEF ConfirmedSizesWereAnswered
<1>3. report.confirmed = IF confirmedSizes(e) = {} THEN Missing ELSE Max(confirmedSizes(e))
  BY <1>1, PmtuReport DEF report
<1>4. confirmedSizes(e) # {} /\ report.confirmed = Max(confirmedSizes(e)) BY <1>3 DEF Known
<1>5. \A i \in 1..3 : e[i].size \in Nat BY <1>2 DEF Trial
<1>6. report.confirmed \in confirmedSizes(e) BY <1>2, <1>4, <1>5, LargestConfirmed
<1>7. PICK k \in 1..3 : confirms(e[k]) /\ e[k].size = report.confirmed BY <1>2, <1>6 DEF confirmedSizes
<1> DEFINE x == Smaller(e[k].size, MaxU16)
           t == e[k]
<1>8. x \in Int BY <1>5 DEF Smaller, MaxU16
<1>9. t \in Trial BY <1>2
<1>10. t.local /\ confirm_size_via_quic(x, t.quic) = "Confirmed"
  <2>1. size_outcome(t) = "Confirmed" BY <1>7 DEF confirms, is_path_evidence
  <2>2. t.local \in BOOLEAN /\ t.runtime \in BOOLEAN BY <1>9 DEF Trial
  <2> HIDE DEF t
  <2> QED BY <2>1, <2>2 DEF size_outcome, local_send_check, t
<1> HIDE DEF x
<1>11. t.quic = "acknowledged" BY <1>8, <1>9, <1>10 DEF confirm_size_via_quic, QuicFloor, Trial
<1> QED BY <1>2, <1>7, <1>10, <1>11

(* Of the points of a sweep one comes first in sorted order. *)
LEMMA FirstPoint ==
  ASSUME NEW points, Sweep(points), NEW F \in SUBSET DOMAIN points, F # {}
  PROVE  \E i \in F : \A j \in F : i = j \/ SortedBefore(points, i, j)
<1> DEFINE O == {points[i].offered : i \in F}
           x == Min(O)
           G == {i \in F : points[i].offered = x}
           k == Min(G)
<1>1. \A i \in F : points[i].offered \in Nat /\ points[i].offered \in O /\ i \in Nat BY DEF Sweep
<1>2. O \subseteq Nat /\ O # {} BY <1>1
<1>3. x \in O /\ \A y \in O : x <= y
  <2> HIDE DEF O
  <2> QED BY <1>2, MinNat
<1>4. x \in Nat /\ \A i \in F : x <= points[i].offered
  <2> HIDE DEF x, O
  <2> QED BY <1>1, <1>2, <1>3
<1>5. G \subseteq Nat /\ G # {}
  <2> HIDE DEF x
  <2> QED BY <1>1, <1>3
<1>6. k \in G /\ \A j \in G : k <= j
  <2> HIDE DEF G
  <2> QED BY <1>5, MinNat
<1> HIDE DEF x, k, O
<1>7. ASSUME NEW j \in F PROVE k = j \/ SortedBefore(points, k, j)
  <2>1. k \in Nat /\ j \in Nat /\ points[k].offered = x /\ points[j].offered \in Nat BY <1>1, <1>6
  <2>2. CASE points[j].offered = x
    <3>1. k <= j BY <1>6, <2>2
    <3> QED BY <2>1, <2>2, <3>1 DEF SortedBefore
  <2>3. CASE points[j].offered # x
    <3>1. x < points[j].offered BY <1>4, <2>1, <2>3
    <3> QED BY <2>1, <3>1 DEF SortedBefore
  <2> QED BY <2>2, <2>3
<1> QED BY <1>6, <1>7

(* detect_knee in terms of the first pair that stopped tracking. *)
LEMMA KneeFrom ==
  ASSUME NEW points
  PROVE  LET w == FirstUntracking(points)
         IN  detect_knee(points) = KneeOf(Cardinality(Where(points, usable)), Untracking(points),
                                          points[w[1]], points[w[2]])
BY Zenon DEF detect_knee, Untracking, FirstUntracking, KneeOf

(* A knee that detect_knee reports is the rate of a usable point. *)
LEMMA KneeIsOfAPoint ==
  ASSUME NEW points, Sweep(points), Known(detect_knee(points).knee)
  PROVE  \E i \in DOMAIN points : usable(points[i]) /\ points[i].offered = detect_knee(points).knee
<1> DEFINE U   == Where(points, usable)
           bad == {v \in SweepWindows(points) : Untracked(points, v)}
           w   == CHOOSE v \in bad : \A u \in bad : u = v \/ SortedBefore(points, v[1], u[1])
<1>1. U = {i \in DOMAIN points : usable(points[i])} BY Zenon DEF Where
<1>2. SweepWindows(points) = {v \in U \X U : /\ SortedBefore(points, v[1], v[2])
                                             /\ ~\E k \in U : /\ SortedBefore(points, v[1], k)
                                                              /\ SortedBefore(points, k, v[2])}
  BY Zenon DEF SweepWindows
<1>3. detect_knee(points) = KneeOf(Cardinality(U), bad, points[w[1]], points[w[2]])
  BY KneeFrom, Zenon DEF Untracking, FirstUntracking
<1>4. Cardinality(U) \in Nat
  <2>1. U \in SUBSET DOMAIN points BY <1>1
  <2> HIDE DEF U
  <2> QED BY <2>1, FS_Subset, FS_CardinalityType DEF Sweep
<1> HIDE DEF w, U
<1>5. /\ bad # {}
      /\ detect_knee(points).knee \in {points[w[1]].offered, points[w[2]].offered}
  <2> HIDE DEF bad
  <2> QED BY <1>3, <1>4 DEF Known, KneeOf
<1>6. \A v \in bad : /\ v \in U \X U /\ SortedBefore(points, v[1], v[2])
                     /\ ~\E k \in U : SortedBefore(points, v[1], k) /\ SortedBefore(points, k, v[2])
  BY <1>2
<1> HIDE DEF bad
<1>7. \A v \in bad : v[1] \in U /\ v[2] \in U /\ v = <<v[1], v[2]>> BY <1>6
<1>8. U \subseteq DOMAIN points /\ U \subseteq Nat /\ \A i \in U : points[i].offered \in Nat BY <1>1 DEF Sweep
<1>9. ASSUME NEW v \in bad, NEW u \in bad, v[1] = u[1] PROVE v = u
  <2>1. v[2] = u[2] \/ SortedBefore(points, v[2], u[2]) \/ SortedBefore(points, u[2], v[2])
    BY <1>7, <1>8 DEF SortedBefore
  <2>2. v[2] = u[2] BY <1>6, <1>7, <1>9, <2>1
  <2> QED BY <1>7, <1>9, <2>2
<1>10. \E v \in bad : \A u \in bad : u = v \/ SortedBefore(points, v[1], u[1])
  <2> DEFINE F == {v[1] : v \in bad}
  <2>1. F \in SUBSET DOMAIN points /\ F # {} BY <1>5, <1>7, <1>8
  <2>2. PICK i \in F : \A j \in F : i = j \/ SortedBefore(points, i, j)
    <3> HIDE DEF F
    <3> QED BY <2>1, FirstPoint
  <2>3. PICK v \in bad : i = v[1] OBVIOUS
  <2>4. \A u \in bad : v[1] = u[1] \/ SortedBefore(points, v[1], u[1]) BY <2>2, <2>3
  <2> QED BY <1>9, <2>4
<1>11. w \in bad BY <1>10 DEF w
<1> QED BY <1>1, <1>5, <1>7, <1>11

(* The reported knee is the rate of a probe that was not rejected. *)
LEMMA KneeWasMeasured ==
  ASSUME MachineInv, outcome.exit = 0, command = "capacity-knee", Known(report.native.knee)
  PROVE  \E i \in 3..5 : evidence[i].rejected = "none" /\ evidence[i].offered = report.native.knee
<1> DEFINE c == "capacity-knee"
           e == evidence
           p == SubSeq(e, 3, 5)
           q == SubSeq(e, 6, 8)
           Point == [offered : Nat, up : Int, down : Int, rejected : STRING]
<1>1. outcome = dispatch(c, e, ready) /\ Shaped(c, e) BY VerdictOnShapedEvidence DEF ShapedCommands
<1>2. DOMAIN e = 1..8 /\ \A i \in 3..8 : e[i] \in Point BY <1>1, KneeShape
<1>3. DOMAIN p = 1..3 /\ \A i \in 1..3 : p[i] = e[i + 2] BY <1>2
<1>4. report = build_knee_report(p, q, e[1], e[2]) BY <1>1, KneeReport DEF report
<1> HIDE DEF p, q
<1>5. report.native = detect_knee(p) BY <1>4 DEF build_knee_report, knee_report
<1>6. Sweep(p) BY <1>2, <1>3, ThreeOfThree DEF Sweep
<1>7. PICK i \in 1..3 : usable(p[i]) /\ p[i].offered = detect_knee(p).knee BY <1>3, <1>5, <1>6, KneeIsOfAPoint
<1>8. e[i + 2].rejected = "none" /\ e[i + 2].offered = report.native.knee /\ i + 2 \in 3..5
  BY <1>3, <1>5, <1>7 DEF usable
<1> QED BY <1>8

-----------------------------------------------------------------------------
(* Sorting: InOrder, SortedBy and Keep. *)

(* Rank numbers the positions of I in the order of their keys. *)
LEMMA RankNumbers ==
  ASSUME NEW n \in Nat, NEW I, I \subseteq 1..n, NEW key, \A i \in I : key[i] \in Int
  PROVE  /\ IsFiniteSet(I) /\ Cardinality(I) \in Nat
         /\ \A i \in I : Rank(key, I, i) \in 1..Cardinality(I)
         /\ \A i, j \in I : Rank(key, I, i) < Rank(key, I, j) <=> Precedes(key, i, j)
         /\ \A k \in 1..Cardinality(I) : Numbers(key, I, k)
<1> DEFINE Upto(i) == {j \in I : key[j] < key[i] \/ (key[j] = key[i] /\ j <= i)}
           Before(i, j) == key[i] < key[j] \/ (key[i] = key[j] /\ i < j)
           R(i) == Rank(key, I, i)
<1>1. IsFiniteSet(I) /\ Cardinality(I) \in Nat
  <2>1. IsFiniteSet(1..n) BY FS_Interval
  <2>2. IsFiniteSet(I) BY <2>1, FS_Subset
  <2> QED BY <2>2, FS_CardinalityType
<1>2. ASSUME NEW i \in I
      PROVE  /\ IsFiniteSet(Upto(i)) /\ i \in Upto(i) /\ R(i) = Cardinality(Upto(i))
             /\ R(i) \in 1..Cardinality(I)
  <2>1. Upto(i) \in SUBSET I /\ i \in Upto(i) OBVIOUS
  <2>2. R(i) = Cardinality(Upto(i)) BY DEF Rank
  <2> HIDE DEF Upto, R
  <2>3. IsFiniteSet(Upto(i)) /\ Cardinality(Upto(i)) <= Cardinality(I) BY <1>1, <2>1, FS_Subset
  <2>4. Cardinality(Upto(i)) \in Nat BY <2>3, FS_CardinalityType
  <2>5. Upto(i) # {} BY <2>1
  <2>6. Cardinality(Upto(i)) # 0 BY <2>3, <2>5, FS_EmptySet, Zenon
  <2> QED BY <1>1, <2>1, <2>2, <2>3, <2>4, <2>6
<1>3. ASSUME NEW i \in I, NEW j \in I, Before(i, j)
      PROVE  R(i) < R(j)
  <2>1. Upto(i) \subseteq Upto(j)
    <3> SUFFICES ASSUME NEW h \in Upto(i) PROVE h \in Upto(j) OBVIOUS
    <3>1. h \in I /\ h \in Int /\ i \in Int /\ j \in Int
          /\ key[h] \in Int /\ key[i] \in Int /\ key[j] \in Int
      OBVIOUS
    <3> QED BY <1>3, <3>1
  <2>2. j \notin Upto(i) /\ j \in Upto(j)
    <3>1. i \in Int /\ j \in Int /\ key[i] \in Int /\ key[j] \in Int OBVIOUS
    <3> QED BY <1>3, <3>1
  <2> HIDE DEF Upto, R
  <2>3. Upto(i) \in SUBSET Upto(j) /\ Upto(i) # Upto(j) BY <2>1, <2>2
  <2>4. Cardinality(Upto(i)) <= Cardinality(Upto(j)) /\ Cardinality(Upto(i)) # Cardinality(Upto(j))
    BY <1>2, <2>3, FS_Subset
  <2> QED BY <1>1, <1>2, <2>4
<1>4. ASSUME NEW i \in I, NEW j \in I
      PROVE  i = j \/ Before(i, j) \/ Before(j, i)
  OBVIOUS
<1>5. \A i, j \in I : R(i) < R(j) <=> Before(i, j)
  <2> SUFFICES ASSUME NEW i \in I, NEW j \in I PROVE R(i) < R(j) <=> Before(i, j) OBVIOUS
  <2> HIDE DEF R, Before, Upto
  <2>1. R(i) \in Int /\ R(j) \in Int BY <1>1, <1>2
  <2> QED BY <1>3, <1>4, <2>1
<1>6. \A k \in 1..Cardinality(I) : \E i \in I : R(i) = k
  <2> DEFINE f == [i \in I |-> R(i)]
             C == Cardinality(I)
  <2> HIDE DEF R, Before, Upto
  <2>1. f \in [I -> 1..C] BY <1>2
  <2>2. \A i, j \in I : f[i] = f[j] => i = j
    <3>1. ASSUME NEW i \in I, NEW j \in I, f[i] = f[j] PROVE i = j
      <4>1. R(i) = R(j) /\ R(i) \in Int BY <1>1, <1>2, <3>1
      <4>2. ~(R(i) < R(j)) /\ ~(R(j) < R(i)) BY <4>1
      <4> QED BY <1>3, <1>4, <4>2
    <3> QED BY <3>1
  <2>3. IsFiniteSet(1..C) /\ Cardinality(1..C) = C BY <1>1, FS_Interval
  <2>4. f \in Injection(I, 1..C) BY <2>1, <2>2 DEF Injection, IsInjective
  <2> HIDE DEF f, C
  <2>5. f \in Surjection(I, 1..C) BY <1>1, <2>3, <2>4, FS_Injection DEF C
  <2>6. \A k \in 1..C : \E i \in I : f[i] = k BY <2>5 DEF Surjection
  <2> QED BY <2>6 DEF f, C
<1> QED BY <1>1, <1>2, <1>5, <1>6 DEF Precedes, Numbers

(* What InOrder leaves: the positions of I, each once, in their order. *)
LEMMA InOrderIs ==
  ASSUME NEW n \in Nat, NEW I, I \subseteq 1..n, NEW key, \A i \in I : key[i] \in Int, NEW s
  PROVE  /\ Cardinality(I) \in Nat
         /\ DOMAIN InOrder(s, key, I) = 1..Cardinality(I)
         /\ \E f : PicksBy(f, s, key, I, InOrder(s, key, I))
<1> DEFINE C == Cardinality(I)
           f == [k \in 1..C |-> CHOOSE i \in I : Rank(key, I, i) = k]
           o == InOrder(s, key, I)
<1>0. Cardinality(I) \in Nat BY RankNumbers
<1>a. \A i \in I : Rank(key, I, i) \in 1..Cardinality(I) BY RankNumbers
<1>b. \A i, j \in I : Rank(key, I, i) < Rank(key, I, j) <=> Precedes(key, i, j) BY RankNumbers
<1>c. \A k \in 1..Cardinality(I) : Numbers(key, I, k) BY RankNumbers
<1>1. C \in Nat BY <1>0
<1>2. o = [k \in 1..C |-> s[f[k]]] BY DEF InOrder
<1> HIDE DEF C, o
<1>3. ASSUME NEW k \in 1..C PROVE f[k] \in I /\ Rank(key, I, f[k]) = k
  <2>1. \E i \in I : Rank(key, I, i) = k BY <1>c DEF C, Numbers
  <2>2. f[k] = CHOOSE i \in I : Rank(key, I, i) = k OBVIOUS
  <2> QED BY <2>1, <2>2
<1>4. f \in [1..C -> I] BY <1>3
<1> HIDE DEF f
<1>5. ASSUME NEW i \in I PROVE \E k \in 1..C : f[k] = i
  <2> DEFINE k == Rank(key, I, i)
  <2>1. k \in 1..C BY <1>a DEF C
  <2>2. f[k] \in I /\ Rank(key, I, f[k]) = k BY <1>3, <2>1
  <2>3. ~(Rank(key, I, f[k]) < Rank(key, I, i)) /\ ~(Rank(key, I, i) < Rank(key, I, f[k])) BY <1>1, <2>1, <2>2
  <2> HIDE DEF k
  <2>4. ~(key[f[k]] < key[i]) /\ ~(key[i] < key[f[k]]) /\ ~(key[f[k]] = key[i] /\ f[k] < i)
        /\ ~(key[f[k]] = key[i] /\ i < f[k])
    BY <2>2, <2>3, <1>b DEF Precedes
  <2>5. key[f[k]] \in Int /\ key[i] \in Int /\ f[k] \in 1..n /\ i \in 1..n BY <2>2, Zenon
  <2>6. f[k] = i BY <2>4, <2>5
  <2> QED BY <2>1, <2>6
<1>6. ASSUME NEW k \in 1..C, NEW l \in 1..C
      PROVE  k < l <=> Precedes(key, f[k], f[l])
  <2>1. f[k] \in I /\ Rank(key, I, f[k]) = k /\ f[l] \in I /\ Rank(key, I, f[l]) = l BY <1>3
  <2>2. Rank(key, I, f[k]) < Rank(key, I, f[l]) <=> Precedes(key, f[k], f[l]) BY <2>1, <1>b
  <2> QED BY <2>1, <2>2
<1>7. PicksBy(f, s, key, I, o) BY <1>1, <1>2, <1>4, <1>5, <1>6 DEF C, PicksBy
<1>8. DOMAIN o = 1..C BY <1>2
<1> QED BY <1>1, <1>7, <1>8 DEF C, o

-----------------------------------------------------------------------------
(* Induction over a length, and what a fold computes. *)

(* Induction up to n, by the least number that would be left out. *)
LEMMA UpTo ==
  ASSUME NEW n \in Nat, NEW S, 0 \in S, \A k \in 0..(n - 1) : k \in S => k + 1 \in S
  PROVE  \A k \in 0..n : k \in S
<1> DEFINE T == {k \in 0..n : k \notin S}
<1> SUFFICES ASSUME T # {} PROVE FALSE OBVIOUS
<1>1. T \subseteq Nat OBVIOUS
<1>2. Min(T) \in T /\ \A y \in T : Min(T) <= y
  <2> HIDE DEF T
  <2> QED BY <1>1, MinNat
<1> DEFINE m == Min(T)
<1> HIDE DEF m
<1>3. m \in 0..n /\ m \notin S /\ \A y \in 0..n : y \notin S => m <= y BY <1>2 DEF m
<1>4. m # 0 BY <1>3
<1>5. m - 1 \in 0..(n - 1) /\ m - 1 \in 0..n /\ (m - 1) + 1 = m /\ ~(m <= m - 1) BY <1>3, <1>4
<1>6. m - 1 \in S BY <1>3, <1>5
<1> QED BY <1>3, <1>5, <1>6

(* The sets of positions that a fold goes through. *)
LEMMA Prefix ==
  ASSUME NEW n \in Nat, NEW k \in 0..(n - 1)
  PROVE  /\ 1..(k + 1) \in SUBSET (1..n) /\ 1..(k + 1) # {}
         /\ Max(1..(k + 1)) = k + 1
         /\ (1..(k + 1)) \ {k + 1} = 1..k
<1>1. k \in Nat /\ k + 1 \in Nat /\ k + 1 \in 1..(k + 1) /\ k + 1 <= n OBVIOUS
<1>2. Max(1..(k + 1)) \in 1..(k + 1) /\ \A y \in 1..(k + 1) : y <= Max(1..(k + 1))
  <2> DEFINE T == 1..(k + 1)
  <2>1. T \subseteq Nat /\ \A y \in T : y <= k + 1 BY <1>1
  <2>0. T # {} BY <1>1
  <2> HIDE DEF T
  <2>2. Max(T) \in T /\ \A y \in T : y <= Max(T) BY <1>1, <2>0, <2>1, MaxNat
  <2> QED BY <2>2 DEF T
<1>3. Max(1..(k + 1)) = k + 1
  <2> DEFINE x == Max(1..(k + 1))
  <2>1. x \in 1..(k + 1) /\ k + 1 <= x BY <1>1, <1>2
  <2> HIDE DEF x
  <2>2. x = k + 1 BY <1>1, <2>1
  <2> QED BY <2>2 DEF x
<1>4. 1..(k + 1) \in SUBSET (1..n) BY <1>1
<1>5. 1..(k + 1) # {} BY <1>1
<1>6. (1..(k + 1)) \ {k + 1} = 1..k BY <1>1
<1> QED BY <1>3, <1>4, <1>5, <1>6

(* The recursion of a fold over n elements has a solution. *)
LEMMA FoldExists ==
  ASSUME NEW n \in Nat, NEW T, NEW base \in T, NEW G \in [T \X (1..n) -> T]
  PROVE  \E F \in [SUBSET (1..n) -> T] : FoldEq(F, n, base, G)
<1> DEFINE S == {m \in 0..n : \E F \in [SUBSET (1..m) -> T] : FoldEq(F, m, base, G)}
<1>1. 0 \in S
  <2> DEFINE F == [s \in SUBSET (1..0) |-> base]
  <2>1. 1..0 = {} /\ SUBSET (1..0) = {{}} OBVIOUS
  <2>2. F \in [SUBSET (1..0) -> T] OBVIOUS
  <2>3. FoldEq(F, 0, base, G)
    <3>1. F = [s \in SUBSET (1..0) |-> IF s = {} THEN base ELSE G[<<F[s \ {Max(s)}], Max(s)>>]] BY <2>1
    <3> QED BY <3>1 DEF FoldEq
  <2> QED BY <2>2, <2>3
<1>2. ASSUME NEW m \in 0..(n - 1), m \in S PROVE m + 1 \in S
  <2>1. PICK F \in [SUBSET (1..m) -> T] : FoldEq(F, m, base, G) BY <1>2
  <2> DEFINE H == [s \in SUBSET (1..(m + 1)) |->
                     IF m + 1 \in s THEN G[<<F[s \ {m + 1}], m + 1>>] ELSE F[s]]
  <2>a. m \in Nat /\ m + 1 \in 1..n /\ m + 1 \in Nat OBVIOUS
  <2>2. ASSUME NEW s \in SUBSET (1..(m + 1)), m + 1 \notin s PROVE s \in SUBSET (1..m) BY <2>2, <2>a
  <2>3. ASSUME NEW s \in SUBSET (1..(m + 1)) PROVE s \ {m + 1} \in SUBSET (1..m) BY <2>a
  <2>4. H \in [SUBSET (1..(m + 1)) -> T]
    <3>1. ASSUME NEW s \in SUBSET (1..(m + 1)) PROVE H[s] \in T
      <4>1. CASE m + 1 \in s
        <5>1. H[s] = G[<<F[s \ {m + 1}], m + 1>>] BY <4>1
        <5>2. F[s \ {m + 1}] \in T BY <2>1, <2>3
        <5>3. <<F[s \ {m + 1}], m + 1>> \in T \X (1..n) BY <5>2, <2>a
        <5> QED BY <5>1, <5>3
      <4>2. CASE m + 1 \notin s BY <4>2, <2>1, <2>2
      <4> QED BY <4>1, <4>2
    <3> QED BY <3>1
  <2>5. ASSUME NEW s \in SUBSET (1..(m + 1)), s # {}
        PROVE  /\ Max(s) \in s
               /\ m + 1 \in s => Max(s) = m + 1
               /\ m + 1 \notin s => s \ {Max(s)} \in SUBSET (1..m)
               /\ s \ {Max(s)} \in SUBSET (1..(m + 1))
               /\ m + 1 \notin s \ {Max(s)}
    <3>1. s \subseteq Nat /\ \A y \in s : y <= m + 1 BY <2>a
    <3>2. Max(s) \in s /\ \A y \in s : y <= Max(s) BY <2>5, <3>1, <2>a, MaxNat
    <3> DEFINE x == Max(s)
    <3> HIDE DEF x
    <3>3. x \in s /\ x \in 1..(m + 1) /\ \A y \in s : y <= x BY <3>2 DEF x
    <3>4. m + 1 \in s => x = m + 1 BY <3>3, <2>a
    <3>5. s \ {x} \in SUBSET (1..(m + 1)) /\ m + 1 \notin s \ {x} BY <3>4
    <3>6. m + 1 \notin s => s \ {x} \in SUBSET (1..m) BY <2>2
    <3> QED BY <3>3, <3>4, <3>5, <3>6 DEF x
  <2>6. ASSUME NEW s \in SUBSET (1..(m + 1))
        PROVE  H[s] = IF s = {} THEN base ELSE G[<<H[s \ {Max(s)}], Max(s)>>]
    <3>1. CASE s = {}
      <4>1. {} \in SUBSET (1..m) /\ m + 1 \notin s BY <3>1
      <4>2. F[{}] = base BY <2>1, <4>1 DEF FoldEq
      <4>3. H[s] = F[s] BY <4>1
      <4> QED BY <3>1, <4>2, <4>3
    <3>2. CASE s # {} /\ m + 1 \in s
      <4>1. Max(s) = m + 1 /\ s \ {m + 1} \in SUBSET (1..(m + 1)) /\ m + 1 \notin s \ {m + 1} BY <2>5, <3>2
      <4>2. H[s \ {m + 1}] = F[s \ {m + 1}] BY <4>1
      <4>3. H[s] = G[<<F[s \ {m + 1}], m + 1>>] BY <3>2
      <4> QED BY <3>2, <4>1, <4>2, <4>3
    <3>3. CASE s # {} /\ m + 1 \notin s
      <4>1. s \in SUBSET (1..m) /\ s \ {Max(s)} \in SUBSET (1..m)
            /\ s \ {Max(s)} \in SUBSET (1..(m + 1)) /\ m + 1 \notin s \ {Max(s)}
        BY <2>2, <2>5, <3>3
      <4>2. H[s \ {Max(s)}] = F[s \ {Max(s)}] /\ H[s] = F[s] BY <4>1, <3>3
      <4>3. F[s] = G[<<F[s \ {Max(s)}], Max(s)>>] BY <2>1, <3>3, <4>1 DEF FoldEq
      <4> QED BY <3>3, <4>2, <4>3
    <3> QED BY <3>1, <3>2, <3>3
  <2>7. FoldEq(H, m + 1, base, G)
    <3>1. H = [s \in SUBSET (1..(m + 1)) |-> H[s]] OBVIOUS
    <3> HIDE DEF H
    <3>2. H = [s \in SUBSET (1..(m + 1)) |->
                 IF s = {} THEN base ELSE G[<<H[s \ {Max(s)}], Max(s)>>]]
      BY <2>6, <3>1
    <3> QED BY <3>2 DEF FoldEq
  <2> HIDE DEF H
  <2> QED BY <2>4, <2>7, <2>a
<1>3. \A k \in 0..n : k \in S
  <2> HIDE DEF S
  <2> QED BY <1>1, <1>2, UpTo
<1>4. n \in 0..n OBVIOUS
<1> QED BY <1>3, <1>4

(* The last of some indices, and what is left without it. *)
LEMMA TopOf ==
  ASSUME NEW n \in Nat, NEW t \in SUBSET (1..n), t # {}
  PROVE  Max(t) \in 1..n /\ t \ {Max(t)} \in SUBSET (1..n)
<1>1. t \subseteq Nat /\ \A y \in t : y <= n OBVIOUS
<1>2. Max(t) \in t BY <1>1, MaxNat
<1> QED BY <1>2

(* The same, element by element. *)
LEMMA FoldSolves ==
  ASSUME NEW n \in Nat, NEW T, NEW base \in T, NEW G \in [T \X (1..n) -> T]
  PROVE  \E F : Solves(F, n, T, base, G)
<1>1. PICK F \in [SUBSET (1..n) -> T] : FoldEq(F, n, base, G) BY FoldExists
<1>2. F[{}] = base BY <1>1 DEF FoldEq
<1>3. \A t \in SUBSET (1..n) : t # {} => F[t] = G[<<F[t \ {Max(t)}], Max(t)>>] BY <1>1 DEF FoldEq
<1>4. Solves(F, n, T, base, G) BY <1>2, <1>3 DEF Solves
<1> QED BY <1>4

(* What a fold returns, by the values its accumulator takes. *)
LEMMA FoldTrace ==
  ASSUME NEW n \in Nat, NEW T, NEW base \in T, NEW G \in [T \X (1..n) -> T], NEW iter,
         Obeys(iter, n, T, base, G)
  PROVE  \E a : Traces(a, n, T, base, G, iter[1..n])
<1>1. 1..0 = {} /\ iter[{}] = base BY DEF Obeys
<1>2. ASSUME NEW k \in 0..(n - 1), iter[1..k] \in T
      PROVE  iter[1..(k + 1)] = G[<<iter[1..k], k + 1>>] /\ iter[1..(k + 1)] \in T
  <2>1. 1..(k + 1) \in SUBSET (1..n) /\ 1..(k + 1) # {} BY Prefix
  <2>2. Max(1..(k + 1)) = k + 1 /\ (1..(k + 1)) \ {k + 1} = 1..k BY Prefix
  <2>3. iter[1..(k + 1)] = G[<<iter[1..k], k + 1>>]
    <3> DEFINE t == 1..(k + 1)
    <3>1. t \in SUBSET (1..n) /\ t # {} /\ t \ {Max(t)} = 1..k /\ Max(t) = k + 1 BY <2>1, <2>2
    <3> HIDE DEF t
    <3>2. iter[t] = G[<<iter[t \ {Max(t)}], Max(t)>>] BY <1>2, <3>1 DEF Obeys
    <3>3. iter[t] = G[<<iter[1..k], k + 1>>] BY <3>1, <3>2
    <3> QED BY <3>3 DEF t
  <2>4. <<iter[1..k], k + 1>> \in T \X (1..n) BY <1>2
  <2> QED BY <2>3, <2>4
<1> DEFINE a == [k \in 0..n |-> iter[1..k]]
           S == {k \in 0..n : iter[1..k] \in T}
<1>3. \A k \in 0..n : k \in S
  <2>1. 0 \in S BY <1>1
  <2>2. ASSUME NEW k \in 0..(n - 1), k \in S PROVE k + 1 \in S
    <3>1. iter[1..k] \in T /\ k + 1 \in 0..n BY <2>2
    <3>2. iter[1..(k + 1)] \in T BY <1>2, <3>1
    <3> QED BY <3>1, <3>2
  <2> HIDE DEF S
  <2> QED BY <2>1, <2>2, UpTo
<1>4. a \in [0..n -> T] BY <1>3
<1>5. a[0] = base /\ a[n] = iter[1..n] BY <1>1
<1>6. ASSUME NEW k \in 0..(n - 1) PROVE a[k + 1] = G[<<a[k], k + 1>>]
  <2>1. k \in 0..n /\ k + 1 \in 0..n OBVIOUS
  <2> QED BY <1>2, <1>3, <2>1
<1> HIDE DEF a
<1>7. Traces(a, n, T, base, G, iter[1..n]) BY <1>4, <1>5, <1>6 DEF Traces
<1> QED BY <1>7

(* A sum from the left, by its partial sums. *)
LEMMA TotalIs ==
  ASSUME NEW n \in Nat, NEW s, DOMAIN s = 1..n, \A i \in 1..n : s[i] \in Int
  PROVE  \E a : PartialSums(a, n, s)
<1> DEFINE G == [p \in Int \X (1..n) |-> p[1] + s[p[2]]]
           E(F) == F = [t \in SUBSET (1..n) |->
                          IF t = {} THEN 0 ELSE F[t \ {Max(t)}] + s[Max(t)]]
           iter == CHOOSE F : E(F)
<1>1. G \in [Int \X (1..n) -> Int] /\ 0 \in Int OBVIOUS
<1>2. \A x \in Int, i \in 1..n : G[<<x, i>>] = x + s[i] OBVIOUS
<1>3. Total(s) = iter[1..n] BY DEF Total, FoldLeft, MapThenFoldSet
<1> HIDE DEF G
<1>4. \E F : E(F)
  <2>1. PICK F : Solves(F, n, Int, 0, G) BY <1>1, FoldSolves
  <2>2. ASSUME NEW t \in SUBSET (1..n)
        PROVE  F[t] = IF t = {} THEN 0 ELSE F[t \ {Max(t)}] + s[Max(t)]
    BY <1>2, <2>1, TopOf DEF Solves
  <2>3. F = [t \in SUBSET (1..n) |-> F[t]] BY <2>1 DEF Solves
  <2>4. E(F) BY <2>2, <2>3
  <2> QED BY <2>4
<1>5. E(iter)
  <2> HIDE DEF E
  <2> QED BY <1>4
<1> HIDE DEF iter
<1>6. Obeys(iter, n, Int, 0, G) BY <1>2, <1>5, TopOf DEF Obeys
<1> HIDE DEF E
<1>7. PICK a : Traces(a, n, Int, 0, G, iter[1..n]) BY <1>1, <1>6, FoldTrace
<1>8. a \in [0..n -> Int] /\ a[0] = 0 /\ a[n] = Total(s) BY <1>3, <1>7 DEF Traces
<1>9. ASSUME NEW k \in 0..(n - 1) PROVE a[k + 1] = a[k] + s[k + 1]
  <2>1. a[k + 1] = G[<<a[k], k + 1>>]
    <3>1. \A j \in 0..(n - 1) : a[j + 1] = G[<<a[j], j + 1>>] BY <1>7 DEF Traces
    <3> QED BY <3>1
  <2>2. a[k] \in Int /\ k + 1 \in 1..n BY <1>8
  <2> QED BY <1>2, <2>1, <2>2
<1> QED BY <1>8, <1>9 DEF PartialSums

-----------------------------------------------------------------------------
(* Exit codes. *)

(* Every way a command ends has an exit code that TypeOK allows. *)
LEMMA Ends == /\ \A r : Exits(Completed(r))
              /\ Exits(Refusal(1)) /\ Exits(Refusal(2))
BY DEF Exits, Completed, Refusal

(* The exit codes of this group of engines. *)
LEMMA LoadExits ==
  ASSUME NEW c \in LoadCommands, NEW g, NEW ok
  PROVE  Exits(load_report(c, g, ok))
<1>1. CASE c = "capacity-knee"
  <2>1. \A a : Exits(capacity_knee_run(a)) BY Ends, Zenon DEF capacity_knee_run
  <2> QED BY <1>1, <2>1, SMT DEF load_report
<1>2. CASE c = "size-rate-matrix"
  <2>1. \A a : Exits(size_rate_matrix_run(a)) BY Ends, Zenon DEF size_rate_matrix_run
  <2> QED BY <1>2, <2>1, SMT DEF load_report
<1>3. CASE c = "flow-dscp-matrix"
  <2>1. \A a : Exits(flow_dscp_matrix_run(a)) BY Ends, Zenon DEF flow_dscp_matrix_run
  <2> QED BY <1>3, <2>1, SMT DEF load_report
<1>4. CASE c = "iperf-analyze"
  <2>1. \A a : Exits(iperf_analyze_run(a)) BY Ends, Zenon DEF iperf_analyze_run, run_discovery
  <2> QED BY <1>4, <2>1, SMT DEF load_report
<1>5. CASE c = "iperf-summary" BY <1>5, Ends, SMT DEF load_report
<1>6. CASE c = "iperf-discover"
  <2>1. \A a : Exits(iperf_analyze_run(a)) BY Ends, Zenon DEF iperf_analyze_run, run_discovery
  <2> QED BY <1>6, <2>1, SMT DEF load_report
<1>7. CASE c = "throughput-tuner"
  <2>1. \A a : Exits(throughput_tuner_run(a)) BY Ends, Zenon DEF throughput_tuner_run
  <2> QED BY <1>7, <2>1, SMT DEF load_report
<1>8. CASE c = "upload-sweep" BY <1>8, Ends, SMT DEF load_report
<1>9. CASE c = "bufferbloat"
  <2>1. \A a : Exits(bufferbloat_run(a)) BY Ends, Zenon DEF bufferbloat_run
  <2> QED BY <1>9, <2>1, SMT DEF load_report
<1>10. CASE c = "probe-rate"
  <2>1. \A a : Exits(probe_rate_run(a)) BY Ends, Zenon DEF probe_rate_run
  <2> QED BY <1>10, <2>1, SMT DEF load_report
<1> QED BY <1>1, <1>2, <1>3, <1>4, <1>5, <1>6, <1>7, <1>8, <1>9, <1>10, Zenon DEF LoadCommands

(* The exit codes of this group of engines. *)
LEMMA StreamExits ==
  ASSUME NEW c \in StreamCommands, NEW g, NEW ok
  PROVE  Exits(stream_report(c, g, ok))
<1>1. CASE c = "burst-analysis" BY <1>1, Ends, Zenon DEF stream_report, burst_analysis_run
<1>2. CASE c = "media-quality" BY <1>2, Ends, Zenon DEF stream_report, media_quality_run
<1>3. CASE c = "packet-loss" BY <1>3, Ends, Zenon DEF stream_report
<1>4. CASE c = "rtt" BY <1>4, Ends, Zenon DEF stream_report
<1> QED BY <1>1, <1>2, <1>3, <1>4, Zenon DEF StreamCommands

(* The exit codes of this group of engines. *)
LEMMA ComparisonExits ==
  ASSUME NEW c \in ComparisonCommands, NEW g, NEW ok
  PROVE  Exits(comparison_report(c, g, ok))
<1>1. CASE c = "circuit-compare" BY <1>1, Ends, Zenon DEF comparison_report, circuit_compare_run
<1>2. CASE c = "resilience" BY <1>2, Ends, Zenon DEF comparison_report, resilience_run
<1>3. CASE c = "ap-identity" BY <1>3, Ends, Zenon DEF comparison_report, ap_identity_run
<1>4. CASE c = "roaming" BY <1>4, Ends, Zenon DEF comparison_report, roaming_run
<1>5. CASE c = "ap-compat-matrix" BY <1>5, Ends, Zenon DEF comparison_report, ap_compat_matrix_run
<1>6. CASE c = "first-hop" BY <1>6, Ends, Zenon DEF comparison_report, firsthop_run
<1>7. CASE c = "gateway-bracket" BY <1>7, Ends, Zenon DEF comparison_report, gateway_bracket_run
<1>8. CASE c = "site-ab" BY <1>8, Ends, Zenon DEF comparison_report, site_ab_run
<1>9. CASE c = "second-network" BY <1>9, Ends, Zenon DEF comparison_report, second_network_run
<1>10. CASE c = "vpn-matrix" BY <1>10, Ends, Zenon DEF comparison_report, vpn_matrix_run
<1>11. CASE c = "platform-matrix" BY <1>11, Ends, Zenon DEF comparison_report, platform_matrix_run
<1> QED BY <1>1, <1>2, <1>3, <1>4, <1>5, <1>6, <1>7, <1>8, <1>9, <1>10, <1>11, Zenon DEF ComparisonCommands

(* The exit codes of this group of engines. *)
LEMMA EvidenceExits ==
  ASSUME NEW c \in EvidenceCommands, NEW g, NEW ok
  PROVE  Exits(evidence_report(c, g, ok))
<1>1. CASE c = "clock-guard" BY <1>1, Ends, Zenon DEF evidence_report
<1>2. CASE c = "counter-liveness" BY <1>2, Ends, ZenonT(30) DEF evidence_report, counter_liveness_run
<1>3. CASE c = "counter-deltas" BY <1>3, Ends, Zenon DEF evidence_report, counter_deltas_run
<1>4. CASE c = "radio-diagnostic" BY <1>4, Ends, Zenon DEF evidence_report, radio_diagnostic_run
<1>5. CASE c = "coverage" BY <1>5, Ends, Zenon DEF evidence_report
<1>6. CASE c = "freshness" BY <1>6, Ends, Zenon DEF evidence_report
<1>7. CASE c = "corroborate" BY <1>7, Ends, Zenon DEF evidence_report
<1> QED BY <1>1, <1>2, <1>3, <1>4, <1>5, <1>6, <1>7, Zenon DEF EvidenceCommands

(* The exit codes of this group of engines. *)
LEMMA ControlExits ==
  ASSUME NEW c \in ControlCommands, NEW g, NEW ok
  PROVE  Exits(control_report(c, g, ok))
<1>1. CASE c = "multiclient-fairness" BY <1>1, Ends, Zenon DEF control_report, multiclient_fairness_run
<1>2. CASE c = "wired-control" BY <1>2, Ends, Zenon DEF control_report, wired_control_run
<1>3. CASE c = "tcp-vs-udp" BY <1>3, Ends, Zenon DEF control_report, tcp_vs_udp_run
<1>4. CASE c = "independent-rates" BY <1>4, Ends, Zenon DEF control_report, independent_rates_run
<1>5. CASE c = "process-model" BY <1>5, Ends, Zenon DEF control_report, process_model_run
<1>6. CASE c = "wired-edge" BY <1>6, Ends, Zenon DEF control_report, wired_edge_run
<1>7. CASE c = "rf-survey" BY <1>7, Ends, Zenon DEF control_report, rf_survey_run
<1>8. CASE c = "phy-normalized" BY <1>8, Ends, Zenon DEF control_report, phy_normalized_run
<1> QED BY <1>1, <1>2, <1>3, <1>4, <1>5, <1>6, <1>7, <1>8, Zenon DEF ControlCommands

(* The exit codes of this group of engines. *)
LEMMA PathExits ==
  ASSUME NEW c \in PathCommands, NEW g, NEW ok
  PROVE  Exits(path_report(c, g, ok))
<1>1. CASE c = "mss-evidence" BY <1>1, Ends, Zenon DEF path_report, mss_evidence_run
<1>2. CASE c = "pmtu" BY <1>2, Ends, Zenon DEF path_report
<1>3. CASE c = "mtu" BY <1>3, Ends, Zenon DEF path_report
<1>4. CASE c = "tunnel" BY <1>4, Ends, Zenon DEF path_report
<1>5. CASE c = "provider-path" BY <1>5, Ends, Zenon DEF path_report, provider_path_run
<1>6. CASE c = "path-analysis" BY <1>6, Ends, Zenon DEF path_report
<1>7. CASE c = "ecmp-nat" BY <1>7, Ends, Zenon DEF path_report, ecmp_nat_run
<1>8. CASE c = "dns-steering" BY <1>8, Ends, Zenon DEF path_report, dns_steering_run
<1> QED BY <1>1, <1>2, <1>3, <1>4, <1>5, <1>6, <1>7, <1>8, Zenon DEF PathCommands

(* The exit codes of this group of engines. *)
LEMMA PacketExits ==
  ASSUME NEW c \in PacketCommands, NEW g, NEW ok
  PROVE  Exits(packet_report(c, g, ok))
<1>1. CASE c = "stun-turn" BY <1>1, Ends, Zenon DEF packet_report, stun_run
<1>2. CASE c = "tcp-options" BY <1>2, Ends, Zenon DEF packet_report
<1>3. CASE c = "tcp-segmentation" BY <1>3, Ends, Zenon DEF packet_report
<1>4. CASE c = "ecn-aqm" BY <1>4, Ends, Zenon DEF packet_report, ecn_aqm_run
<1>5. CASE c = "ipv6-validate" BY <1>5, Ends, Zenon DEF packet_report, ipv6_validate_run
<1>6. CASE c = "protocol-compare" BY <1>6, Ends, Zenon DEF packet_report, protocol_compare_run
<1>7. CASE c = "pcap-report" BY <1>7, Ends, Zenon DEF packet_report, pcap_report_run, pcap_outcome
<1>8. CASE c = "capture" BY <1>8, Ends, Zenon DEF packet_report, capture_run
<1> QED BY <1>1, <1>2, <1>3, <1>4, <1>5, <1>6, <1>7, <1>8, Zenon DEF PacketCommands

(* The exit codes of this group of engines. *)
LEMMA DiagnosisExits ==
  ASSUME NEW c \in DiagnosisCommands, NEW g, NEW ok
  PROVE  Exits(diagnosis_report(c, g, ok))
<1>1. CASE c = "rules" BY <1>1, Ends, SMT DEF diagnosis_report
<1>2. CASE c = "https" BY <1>2, Ends, SMT DEF diagnosis_report
<1>3. CASE c = "report"
  <2>1. \A a : Exits(report_run(a)) BY Ends, Zenon DEF report_run
  <2> QED BY <1>3, <2>1, SMT DEF diagnosis_report
<1>4. CASE c = "diagnose"
  <2>1. \A a : Exits(diagnose_run(a)) BY Ends, Zenon DEF diagnose_run
  <2> QED BY <1>4, <2>1, SMT DEF diagnosis_report
<1>5. CASE c = "kitchen-sink"
  <2>1. \A a : Exits(kitchen_sink_run(a)) BY Ends, Zenon DEF kitchen_sink_run
  <2> QED BY <1>5, <2>1, SMT DEF diagnosis_report
<1>6. CASE c = "thresholds" BY <1>6, Ends, SMT DEF diagnosis_report
<1> QED BY <1>1, <1>2, <1>3, <1>4, <1>5, <1>6, Zenon DEF DiagnosisCommands

-----------------------------------------------------------------------------
(* Filtering. *)

(* A filter keeps what satisfies it, in its order. *)
LEMMA Kept ==
  ASSUME NEW n \in Nat, NEW s, DOMAIN s = 1..n, NEW I, I \subseteq 1..n,
         NEW T, \A i \in I : s[i] \in T,
         NEW o, o = InOrder(s, [i \in DOMAIN s |-> i], I)
  PROVE  Filters(o, s, n, I, T)
<1> DEFINE key == [i \in DOMAIN s |-> i]
           C == Cardinality(I)
<1>1. \A i \in I : key[i] = i /\ key[i] \in Int OBVIOUS
<1>2. o = InOrder(s, key, I) OBVIOUS
<1> HIDE DEF key
<1>3. C \in Nat /\ DOMAIN o = 1..C BY <1>1, <1>2, InOrderIs
<1>c. \A i \in I : i \in Int OBVIOUS
<1>b. \A i \in I : key[i] \in Int BY <1>1
<1>a. PICK f : PicksBy(f, s, key, I, InOrder(s, key, I)) BY <1>b, InOrderIs
<1>4. /\ f \in [1..C -> I]
      /\ \A k \in 1..C : o[k] = s[f[k]]
      /\ \A i \in I : \E k \in 1..C : f[k] = i
      /\ \A k, l \in 1..C : k < l <=> Precedes(key, f[k], f[l])
  BY <1>2, <1>a DEF PicksBy
<1>5. C <= n
  <2>1. IsFiniteSet(1..n) /\ Cardinality(1..n) = n BY FS_Interval
  <2>2. I \in SUBSET (1..n) OBVIOUS
  <2>3. Cardinality(I) <= Cardinality(1..n) BY <2>1, <2>2, FS_Subset
  <2> QED BY <2>1, <2>3
<1> HIDE DEF C
<1>6. o \in Seq(T) /\ Len(o) = C
  <2>1. o = [k \in 1..C |-> o[k]]
    <3>1. o = [k \in 1..C |-> s[CHOOSE i \in I : Rank(key, I, i) = k]] BY <1>2 DEF InOrder, C
    <3> QED BY <3>1
  <2>2. \A k \in 1..C : o[k] \in T BY <1>4
  <2> QED BY <1>3, <2>1, <2>2
<1>7. \A k, l \in 1..C : k < l <=> f[k] < f[l]
  <2> SUFFICES ASSUME NEW k \in 1..C, NEW l \in 1..C PROVE k < l <=> f[k] < f[l] OBVIOUS
  <2>0. f[k] \in I /\ f[l] \in I BY <1>4
  <2>1. f[k] \in Int /\ f[l] \in Int BY <1>c, <2>0, Zenon
  <2>2. key[f[k]] = f[k] /\ key[f[l]] = f[l] BY <1>1, <2>0
  <2>3. k < l <=> Precedes(key, f[k], f[l]) BY <1>4
  <2> QED BY <2>1, <2>2, <2>3 DEF Precedes
<1>8. Picks(f, s, o, I) BY <1>4, <1>6, <1>7 DEF Picks
<1> QED BY <1>5, <1>6, <1>8 DEF C, Filters

-----------------------------------------------------------------------------
(* TypeOK, one figure after the other. *)

(* The engine groups that Routes leaves out. *)
LEMMA Route ==
  ASSUME NEW c, NEW g, NEW ok
  PROVE  /\ c \in StreamCommands => dispatch(c, g, ok) = stream_report(c, g, ok)
         /\ c \in PacketCommands => dispatch(c, g, ok) = packet_report(c, g, ok)
         /\ c \in DiagnosisCommands => dispatch(c, g, ok) = diagnosis_report(c, g, ok)
BY Zenon DEF dispatch, LoadCommands, StreamCommands, ComparisonCommands, EvidenceCommands,
             ControlCommands, PathCommands, PacketCommands, DiagnosisCommands

(* Every command exits with 0, 1 or 2. *)
LEMMA DispatchExits ==
  ASSUME NEW c \in Commands, NEW g, NEW ok
  PROVE  Exits(dispatch(c, g, ok))
<1>1. CASE c \in LoadCommands       BY <1>1, Routes, LoadExits
<1>2. CASE c \in StreamCommands     BY <1>2, Route, StreamExits
<1>3. CASE c \in ComparisonCommands BY <1>3, Routes, ComparisonExits
<1>4. CASE c \in EvidenceCommands   BY <1>4, Routes, EvidenceExits
<1>5. CASE c \in ControlCommands    BY <1>5, Routes, ControlExits
<1>6. CASE c \in PathCommands       BY <1>6, Routes, PathExits
<1>7. CASE c \in PacketCommands     BY <1>7, Route, PacketExits
<1>8. CASE c \in DiagnosisCommands  BY <1>8, Route, DiagnosisExits
<1> QED BY <1>1, <1>2, <1>3, <1>4, <1>5, <1>6, <1>7, <1>8, CommandsAssumption

(* The total of two numbers. *)
LEMMA TwoTotal ==
  ASSUME NEW s, DOMAIN s = 1..2, s[1] \in Int, s[2] \in Int
  PROVE  Total(s) = s[1] + s[2]
<1>1. \A i \in 1..2 : s[i] \in Int
  <2> SUFFICES ASSUME NEW i \in 1..2 PROVE s[i] \in Int OBVIOUS
  <2>1. i = 1 \/ i = 2 OBVIOUS
  <2> QED BY <2>1
<1>2. PICK a : PartialSums(a, 2, s) BY <1>1, TotalIs
<1>3. /\ a \in [0..2 -> Int] /\ a[0] = 0 /\ a[2] = Total(s)
      /\ \A k \in 0..1 : a[k + 1] = a[k] + s[k + 1]
  BY <1>2 DEF PartialSums
<1>4. a[1] = a[0] + s[1] /\ a[2] = a[1] + s[2] BY <1>3
<1> QED BY <1>3, <1>4

(* calculate_safe_mss saturates. *)
LEMMA TunnelIsSafe ==
  ASSUME NEW g, Shaped("tunnel", g), NEW ok
  PROVE  dispatch("tunnel", g, ok).report.safe \in Nat
<1> DEFINE o == estimate_layered_overhead(SubSeq(g, 3, 4))
           t == tunnel_mss_test(ok, g[1])
<1>1. Shapes("tunnel") = <<Int, Nat, STRING, STRING>> BY Zenon DEF Shapes
<1>2. g \in Seq(Values) /\ Len(g) = 4 /\ g[2] \in Nat BY <1>1 DEF Shaped
<1>3. dispatch("tunnel", g, ok) = Completed([test |-> t, safe |-> calculate_safe_mss(g[2], o)])
  <2>1. dispatch("tunnel", g, ok) = path_report("tunnel", g, ok) BY Routes DEF PathCommands
  <2>2. path_report("tunnel", g, ok) = Completed([test |-> t, safe |-> calculate_safe_mss(g[2], o)])
    BY Zenon DEF path_report
  <2> QED BY <2>1, <2>2
<1>4. o \in Int
  <2> DEFINE l == SubSeq(g, 3, 4)
             s == [i \in DOMAIN l |-> LayerOverhead(l[i])]
  <2>1. DOMAIN l = 1..2 BY <1>2
  <2>2. \A x : LayerOverhead(x) \in Int BY DEF LayerOverhead
  <2> HIDE DEF l
  <2>3. DOMAIN s = 1..2 /\ s[1] \in Int /\ s[2] \in Int BY <2>1, <2>2
  <2>4. o = Total(s) BY DEF estimate_layered_overhead, l
  <2> HIDE DEF s, o
  <2> QED BY <2>3, <2>4, TwoTotal
<1> HIDE DEF o, t
<1>5. calculate_safe_mss(g[2], o) \in Nat BY <1>2, <1>4 DEF calculate_safe_mss, Larger
<1> QED BY <1>3, <1>5, ReportOf

(* What a guarded load lost is a percentage, or unknown. *)
LEMMA PhaseLoss ==
  ASSUME NEW kind, NEW sampler, NEW fallback, NEW guard \in [ok : BOOLEAN, bytes : Nat, target : Nat]
  PROVE  run_phase(kind, sampler, fallback, guard).loss \in {Missing} \cup 0..100
<1> DEFINE l == IF kind = "idle" \/ ~guard.ok \/ guard.target = 0 THEN Missing
                ELSE Larger(100 - (100 * guard.bytes) \div guard.target, 0)
<1>1. run_phase(kind, sampler, fallback, guard).loss = l BY DEF run_phase
<1>2. ASSUME NEW b \in Nat, NEW t \in Nat, t # 0
      PROVE  Larger(100 - (100 * b) \div t, 0) \in 0..100
  <2>1. (100 * b) \div t \in Nat BY <1>2
  <2> QED BY <2>1 DEF Larger
<1> QED BY <1>1, <1>2

(* The loss of a phase of a bracket is a percentage, or missing. *)
LEMMA BracketLoss ==
  ASSUME NEW g, Shaped("gateway-bracket", g), NEW ok, dispatch("gateway-bracket", g, ok).exit = 0
  PROVE  LET r == dispatch("gateway-bracket", g, ok).report
         IN  \A i \in DOMAIN r.phases : r.phases[i].loss \in {Missing} \cup 0..100
<1> DEFINE c == "gateway-bracket"
           Sampler == [wrote : BOOLEAN, replies : Seq(Int)]
           Guard == [ok : BOOLEAN, bytes : Nat, target : Nat]
           ps == <<[kind |-> "idle", sampler |-> g[1], fallback |-> "refused", guard |-> g[3]],
                   [kind |-> "load", sampler |-> g[2], fallback |-> "timeout", guard |-> g[3]]>>
           a == [gateway |-> IF ok THEN "gw" ELSE "none", synthetic |-> FALSE, phases |-> ps]
           ph == [i \in DOMAIN ps |-> run_phase(ps[i].kind, ps[i].sampler, ps[i].fallback, ps[i].guard)]
<1>1. Shapes(c) = <<Sampler, Sampler, Guard>> BY Zenon DEF Shapes
<1>2. g[3] \in Guard
  <2> HIDE DEF Sampler, Guard
  <2>1. Len(Shapes(c)) = 3 /\ Shapes(c)[3] = Guard BY <1>1
  <2>2. \A i \in 1..Len(Shapes(c)) : g[i] \in Shapes(c)[i] BY Zenon DEF Shaped
  <2>3. g[3] \in Shapes(c)[3] BY <2>1, <2>2
  <2> QED BY <2>1, <2>3
<1>3. dispatch(c, g, ok) = gateway_bracket_run(a)
  <2>1. dispatch(c, g, ok) = comparison_report(c, g, ok) BY Routes DEF ComparisonCommands
  <2>2. comparison_report(c, g, ok) = gateway_bracket_run(a) BY Zenon DEF comparison_report
  <2> QED BY <2>1, <2>2
<1>4. gateway_bracket_run(a) \in {Refusal(1), Completed([source |-> "live", phases |-> ph])}
  BY DEF gateway_bracket_run
<1>5. \A i \in DOMAIN ph : ph[i].loss \in {Missing} \cup 0..100
  <2> SUFFICES ASSUME NEW i \in DOMAIN ph PROVE ph[i].loss \in {Missing} \cup 0..100 OBVIOUS
  <2>1. i \in 1..2 /\ ps[i].guard = g[3] OBVIOUS
  <2>2. ph[i] = run_phase(ps[i].kind, ps[i].sampler, ps[i].fallback, ps[i].guard) OBVIOUS
  <2> HIDE DEF ps, ph
  <2> QED BY <1>2, <2>1, <2>2, PhaseLoss
<1> HIDE DEF ph, a
<1>6. dispatch(c, g, ok) = Completed([source |-> "live", phases |-> ph]) BY <1>3, <1>4 DEF Refusal
<1> QED BY <1>5, <1>6, ReportOf

(* Jain's index of two rates lies in 1/2 .. 1. *)
LEMMA JainOfTwo ==
  ASSUME NEW x \in Nat, NEW y \in Nat
  PROVE  LET j == jain_fairness_index(<<x, y>>)
         IN  j.den > 0 => j.num <= j.den /\ 2 * j.num >= j.den
<1> DEFINE s == <<x, y>>
           q == [i \in DOMAIN s |-> s[i] * s[i]]
<1>1. Total(s) = x + y BY TwoTotal
<1>2. Total(q) = x * x + y * y
  <2>1. DOMAIN q = 1..2 /\ q[1] = x * x /\ q[2] = y * y OBVIOUS
  <2>2. q[1] \in Int /\ q[2] \in Int BY <2>1
  <2> HIDE DEF q
  <2> QED BY <2>1, <2>2, TwoTotal
<1>3. jain_fairness_index(s) =
        IF x * x + y * y = 0 THEN [num |-> Missing, den |-> 0]
        ELSE [num |-> (x + y) * (x + y), den |-> 2 * (x * x + y * y)]
  BY <1>1, <1>2 DEF jain_fairness_index
<1>4. (x + y) * (x + y) <= 2 * (x * x + y * y) /\ (x + y) * (x + y) >= x * x + y * y
  <2>1. (x - y) * (x - y) >= 0 /\ x * y >= 0 OBVIOUS
  <2>2. (x - y) * (x - y) = x * x + y * y - 2 * (x * y) OBVIOUS
  <2>3. (x + y) * (x + y) = x * x + y * y + 2 * (x * y) OBVIOUS
  <2> QED BY <2>1, <2>2, <2>3
<1> QED BY <1>3, <1>4

(* Jain's index of two clients lies between one half and one. *)
LEMMA FairnessIsAnIndex ==
  ASSUME NEW g, NEW ok, Shaped("multiclient-fairness", g),
         dispatch("multiclient-fairness", g, ok).exit = 0
  PROVE  LET j == dispatch("multiclient-fairness", g, ok).report.fairness
         IN  j.den > 0 => j.num <= j.den /\ 2 * j.num >= j.den
<1> DEFINE c == "multiclient-fairness"
           Descriptor == [start : Int, marks : SUBSET Int, listeners : SUBSET STRING]
<1>1. g[3] \in Nat /\ g[4] \in Nat
  <2>1. Shapes(c) = <<Descriptor, Descriptor, Nat, Nat>> BY Zenon DEF Shapes
  <2> HIDE DEF Descriptor
  <2>2. Len(Shapes(c)) = 4 BY <2>1
  <2>3. \A i \in 1..4 : g[i] \in Shapes(c)[i] BY <2>2, ShapedAt
  <2>4. g[3] \in Shapes(c)[3] /\ g[4] \in Shapes(c)[4] BY <2>3
  <2> QED BY <2>1, <2>4
<1>2. dispatch(c, g, ok).report.fairness = fairnessOf(g)
  <2>1. dispatch(c, g, ok).report =
          [verdict |-> evaluate_cross_client(g[1], g[2]), fairness |-> fairnessOf(g)]
    BY FairnessReport, Zenon
  <2> HIDE DEF c
  <2> QED BY <2>1
<1>3. fairnessOf(g) \in {jain_fairness_index(<<g[3], g[4]>>), [num |-> Missing, den |-> 0]} BY DEF fairnessOf
<1>4. CASE fairnessOf(g) = [num |-> Missing, den |-> 0] BY <1>2, <1>4
<1>5. CASE fairnessOf(g) = jain_fairness_index(<<g[3], g[4]>>) BY <1>1, <1>2, <1>5, JainOfTwo
<1> QED BY <1>3, <1>4, <1>5

(* What is received of a pass: an arrival for each echo, with the sequence *)
(* number that it bears.                                                   *)
LEMMA PassArrivals ==
  ASSUME NEW echoes \in Seq(Int), NEW interval \in Int, NEW rtt \in Int
  PROVE  LET p == run_one_pass(echoes, interval, rtt)
         IN  /\ p.sent = Len(echoes) /\ p.arrivals \in Seq(Arrival)
             /\ Len(p.arrivals) <= Len(echoes)
             /\ \E f : PassOf(f, p.arrivals, echoes)
<1> DEFINE X == [i \in DOMAIN echoes |->
             [seq |-> echoes[i], sent_at |-> echoes[i] * interval,
              received_at |-> (i - 1) * interval + rtt]]
           I == {i \in DOMAIN X : Known(X[i].seq)}
           o == InOrder(X, [i \in DOMAIN X |-> i], I)
           p == run_one_pass(echoes, interval, rtt)
<1>1. p = [sent |-> Len(echoes), arrivals |-> o] BY DEF run_one_pass, Keep, Where
<1>2. DOMAIN X = 1..Len(echoes) /\ Len(echoes) \in Nat OBVIOUS
<1>3. \A i \in DOMAIN X : X[i] \in Arrival /\ X[i].seq = echoes[i] BY DEF Arrival
<1> HIDE DEF X
<1>4. /\ I \subseteq 1..Len(echoes) /\ \A i \in I : X[i] \in Arrival
      /\ \A i \in 1..Len(echoes) : Known(echoes[i]) <=> i \in I
  BY <1>2, <1>3
<1> HIDE DEF I
<1>e. o = InOrder(X, [i \in DOMAIN X |-> i], I) OBVIOUS
<1> HIDE DEF o, p
<1>5. Filters(o, X, Len(echoes), I, Arrival) BY <1>2, <1>4, <1>e, Kept, Zenon
<1>6. PICK f : Picks(f, X, o, I) BY <1>5 DEF Filters
<1>7. PassOf(f, o, echoes)
  <2>1. f \in [1..Len(o) -> 1..Len(echoes)] BY <1>4, <1>6 DEF Picks
  <2>2. \A k \in 1..Len(o) : f[k] \in I /\ o[k].seq = echoes[f[k]] BY <1>2, <1>3, <1>4, <1>6 DEF Picks
  <2>3. \A i \in 1..Len(echoes) : Known(echoes[i]) <=> \E k \in 1..Len(o) : f[k] = i BY <1>4, <1>6, <2>2 DEF Picks
  <2> QED BY <1>6, <2>1, <2>2, <2>3 DEF Picks, PassOf
<1> QED BY <1>1, <1>5, <1>7 DEF p, Filters

(* One more arrival keeps the distinct arrivals the first ones. *)
LEMMA FirstOfNext ==
  ASSUME NEW n \in Nat, NEW arrivals \in Seq(Arrival), Len(arrivals) = n, NEW k \in 0..(n - 1),
         NEW d, FirstOf(d, arrivals, k), NEW e,
         e = IF \E i \in DOMAIN d : d[i].seq = arrivals[k + 1].seq THEN d
             ELSE Append(d, arrivals[k + 1])
  PROVE  FirstOf(e, arrivals, k + 1)
<1> DEFINE a == arrivals[k + 1]
           L == Len(d)
<1>1. a \in Arrival /\ d \in Seq(Arrival) /\ L \in Nat /\ L <= k /\ DOMAIN d = 1..L /\ k \in Nat BY DEF FirstOf
<1>2. 1..(k + 1) = 1..k \cup {k + 1} BY <1>1
<1>3. /\ \A i, j \in 1..L : d[i].seq = d[j].seq => i = j
      /\ \A i \in 1..L : \E j \in 1..k : arrivals[j] = d[i]
      /\ \A j \in 1..k : \E i \in 1..L : d[i].seq = arrivals[j].seq
  BY DEF FirstOf
<1>h. PICK h : FirstAt(h, d, arrivals, k) BY DEF FirstOf
<1>f. /\ h \in [1..L -> 1..k]
      /\ \A i, j \in 1..L : i < j <=> h[i] < h[j]
      /\ \A i \in 1..L : /\ arrivals[h[i]] = d[i]
                         /\ \A j \in 1..k : arrivals[j].seq = d[i].seq => h[i] <= j
  BY <1>h DEF FirstAt
<1>4. CASE \E i \in DOMAIN d : d[i].seq = a.seq
  <2>1. e = d BY <1>4
  <2>2. \A i \in 1..L : \E j \in 1..(k + 1) : arrivals[j] = d[i] BY <1>2, <1>3
  <2>3. \A j \in 1..(k + 1) : \E i \in 1..L : d[i].seq = arrivals[j].seq BY <1>1, <1>2, <1>3, <1>4
  <2>4. L <= k + 1 BY <1>1
  <2>6. FirstAt(h, d, arrivals, k + 1)
    <3>1. ASSUME NEW i \in 1..L, NEW j \in 1..(k + 1), arrivals[j].seq = d[i].seq PROVE h[i] <= j
      <4>1. h[i] \in 1..k BY <1>f
      <4>2. CASE j \in 1..k BY <1>f, <3>1, <4>2
      <4>3. CASE j = k + 1 BY <1>1, <4>1, <4>3
      <4> QED BY <1>2, <4>2, <4>3
    <3>2. h \in [1..L -> 1..(k + 1)] BY <1>2, <1>f
    <3> QED BY <1>f, <3>1, <3>2, Zenon DEF FirstAt
  <2>5. FirstOf(d, arrivals, k + 1) BY <1>1, <1>3, <2>2, <2>3, <2>4, <2>6 DEF FirstOf
  <2> QED BY <2>1, <2>5
<1>5. CASE ~ \E i \in DOMAIN d : d[i].seq = a.seq
  <2>1. e = Append(d, a) BY <1>5
  <2> HIDE DEF a
  <2>2. e \in Seq(Arrival) /\ Len(e) = L + 1 /\ e[L + 1] = a /\ \A i \in 1..L : e[i] = d[i] BY <1>1, <2>1
  <2>3. 1..Len(e) = 1..L \cup {L + 1} BY <1>1, <2>2
  <2>4. \A i \in 1..L : d[i].seq # a.seq BY <1>1, <1>5
  <2>5. \A i, j \in 1..Len(e) : e[i].seq = e[j].seq => i = j
    <3> SUFFICES ASSUME NEW i \in 1..Len(e), NEW j \in 1..Len(e), e[i].seq = e[j].seq PROVE i = j OBVIOUS
    <3>1. CASE i \in 1..L /\ j \in 1..L   BY <1>3, <2>2, <3>1
    <3>2. CASE i = L + 1 /\ j \in 1..L    BY <2>2, <2>4, <3>2
    <3>3. CASE i \in 1..L /\ j = L + 1    BY <2>2, <2>4, <3>3
    <3> QED BY <2>3, <3>1, <3>2, <3>3
  <2>6. \A i \in 1..Len(e) : \E j \in 1..(k + 1) : arrivals[j] = e[i] BY <1>2, <1>3, <2>2, <2>3 DEF a
  <2>7. \A j \in 1..(k + 1) : \E i \in 1..Len(e) : e[i].seq = arrivals[j].seq BY <1>2, <1>3, <2>2, <2>3 DEF a
  <2>8. Len(e) <= k + 1 BY <1>1, <2>2
  <2> DEFINE g == [i \in 1..Len(e) |-> IF i \in 1..L THEN h[i] ELSE k + 1]
  <2>9. FirstAt(g, e, arrivals, k + 1)
    <3>1. /\ \A i \in 1..L : g[i] = h[i] /\ g[i] \in 1..k /\ i \in 1..Len(e)
          /\ g[L + 1] = k + 1 /\ L + 1 \in 1..Len(e) /\ L + 1 \notin 1..L
          /\ g = [i \in 1..Len(e) |-> g[i]]
      BY <1>1, <1>f, <2>2, <2>3
    <3> HIDE DEF g
    <3>2. \A i \in 1..Len(e) : g[i] \in 1..(k + 1) BY <1>2, <2>3, <3>1
    <3>3. g \in [1..Len(e) -> 1..(k + 1)] BY <3>1, <3>2
    <3>4. ASSUME NEW i \in 1..Len(e), NEW j \in 1..Len(e) PROVE i < j <=> g[i] < g[j]
      <4>1. CASE i \in 1..L /\ j \in 1..L    BY <1>f, <3>1, <4>1
      <4>0. \A w \in 1..L : g[w] \in 1..k BY <3>1
      <4>2. CASE i = L + 1 /\ j \in 1..L
        <5>1. g[j] \in 1..k /\ g[i] = k + 1 BY <3>1, <4>0, <4>2
        <5> QED BY <1>1, <4>2, <5>1
      <4>3. CASE i \in 1..L /\ j = L + 1
        <5>1. g[i] \in 1..k /\ g[j] = k + 1 BY <3>1, <4>0, <4>3
        <5> QED BY <1>1, <4>3, <5>1
      <4>4. CASE i = L + 1 /\ j = L + 1      BY <1>1, <3>1, <4>4
      <4> QED BY <2>3, <4>1, <4>2, <4>3, <4>4
    <3>5. ASSUME NEW i \in 1..Len(e)
          PROVE  /\ arrivals[g[i]] = e[i]
                 /\ \A j \in 1..(k + 1) : arrivals[j].seq = e[i].seq => g[i] <= j
      <4>1. CASE i \in 1..L
        <5>1. arrivals[g[i]] = e[i] /\ e[i] = d[i] /\ g[i] = h[i] /\ g[i] \in 1..k BY <1>f, <2>2, <3>1, <4>1
        <5>2. ASSUME NEW j \in 1..(k + 1), arrivals[j].seq = e[i].seq PROVE g[i] <= j
          <6>1. CASE j \in 1..k BY <1>f, <4>1, <5>1, <5>2, <6>1
          <6>2. CASE j = k + 1 BY <1>1, <5>1, <6>2
          <6> QED BY <1>2, <6>1, <6>2
        <5> QED BY <5>1, <5>2
      <4>2. CASE i = L + 1
        <5>1. e[i] = a /\ g[i] = k + 1 /\ arrivals[g[i]] = e[i] BY <2>2, <3>1, <4>2 DEF a
        <5>2. ASSUME NEW j \in 1..(k + 1), arrivals[j].seq = e[i].seq PROVE g[i] <= j
          <6>1. CASE j \in 1..k
            <7>1. PICK w \in 1..L : d[w].seq = arrivals[j].seq BY <1>3, <6>1
            <7> QED BY <2>4, <5>1, <5>2, <7>1
          <6>2. CASE j = k + 1 BY <1>1, <5>1, <6>2
          <6> QED BY <1>2, <6>1, <6>2
        <5> QED BY <5>1, <5>2
      <4> QED BY <2>3, <4>1, <4>2
    <3> QED BY <3>3, <3>4, <3>5, Zenon DEF FirstAt
  <2> HIDE DEF g
  <2> QED BY <2>2, <2>5, <2>6, <2>7, <2>8, <2>9 DEF FirstOf
<1> QED BY <1>4, <1>5

(* What split_duplicates leaves. *)
LEMMA SplitIs ==
  ASSUME NEW arrivals \in Seq(Arrival)
  PROVE  FirstOf(split_duplicates(arrivals).distinct, arrivals, Len(arrivals))
<1> DEFINE n == Len(arrivals)
           T == Seq(Arrival)
           g(acc, x) == IF \E i \in DOMAIN acc : acc[i].seq = x.seq THEN acc ELSE Append(acc, x)
           G == [p \in T \X (1..n) |-> g(p[1], arrivals[p[2]])]
           E(F) == F = [t \in SUBSET (1..n) |->
                          IF t = {} THEN <<>> ELSE g(F[t \ {Max(t)}], arrivals[Max(t)])]
           iter == CHOOSE F : E(F)
<1>0. n \in Nat /\ DOMAIN arrivals = 1..n /\ <<>> \in T OBVIOUS
<1>1. G \in [T \X (1..n) -> T] OBVIOUS
<1>2. \A x \in T, i \in 1..n : G[<<x, i>>] = g(x, arrivals[i]) OBVIOUS
<1>3. split_duplicates(arrivals).distinct = iter[1..n] BY <1>0 DEF split_duplicates, FoldLeft, MapThenFoldSet
<1> HIDE DEF G, T, n
<1>4. \E F : E(F)
  <2>1. PICK F : Solves(F, n, T, <<>>, G) BY <1>0, <1>1, FoldSolves
  <2> HIDE DEF g
  <2>2. ASSUME NEW t \in SUBSET (1..n)
        PROVE  F[t] = IF t = {} THEN <<>> ELSE g(F[t \ {Max(t)}], arrivals[Max(t)])
    BY <1>0, <1>2, <2>1, TopOf DEF Solves
  <2>3. F = [t \in SUBSET (1..n) |-> F[t]] BY <2>1 DEF Solves
  <2>4. E(F) BY <2>2, <2>3
  <2> QED BY <2>4
<1>5. E(iter)
  <2> HIDE DEF E
  <2> QED BY <1>4
<1> HIDE DEF iter, g
<1>6. Obeys(iter, n, T, <<>>, G) BY <1>0, <1>2, <1>5, TopOf DEF Obeys
<1> HIDE DEF E
<1>7. PICK a : Traces(a, n, T, <<>>, G, iter[1..n]) BY <1>0, <1>1, <1>6, FoldTrace
<1>8. a \in [0..n -> T] /\ a[0] = <<>> /\ a[n] = iter[1..n] BY <1>7 DEF Traces
<1>9. ASSUME NEW k \in 0..(n - 1) PROVE a[k + 1] = g(a[k], arrivals[k + 1])
  <2>1. a[k + 1] = G[<<a[k], k + 1>>] BY <1>7 DEF Traces
  <2>2. a[k] \in T /\ k + 1 \in 1..n BY <1>0, <1>8
  <2> QED BY <1>2, <2>1, <2>2
<1> DEFINE S == {k \in 0..n : FirstOf(a[k], arrivals, k)}
<1>10. 0 \in S
  <2>1. FirstOf(<<>>, arrivals, 0)
    <3>1. FirstAt([i \in 1..0 |-> 0], <<>>, arrivals, 0) BY DEF FirstAt
    <3> QED BY <3>1 DEF FirstOf
  <2> QED BY <1>0, <1>8, <2>1
<1>11. ASSUME NEW k \in 0..(n - 1), k \in S PROVE k + 1 \in S
  <2>1. FirstOf(a[k + 1], arrivals, k + 1)
    <3>1. FirstOf(a[k], arrivals, k) BY <1>11
    <3>2. Len(arrivals) = n BY DEF n
    <3>3. a[k + 1] = IF \E i \in DOMAIN a[k] : a[k][i].seq = arrivals[k + 1].seq THEN a[k]
                     ELSE Append(a[k], arrivals[k + 1])
      BY <1>9 DEF g
    <3> QED BY <1>0, <3>1, <3>2, <3>3, FirstOfNext
  <2>2. k + 1 \in 0..n BY <1>0
  <2> QED BY <2>1, <2>2
<1>12. \A k \in 0..n : k \in S
  <2> HIDE DEF S
  <2> QED BY <1>0, <1>10, <1>11, UpTo
<1>13. n \in 0..n BY <1>0
<1>14. FirstOf(a[n], arrivals, n) BY <1>12, <1>13
<1> QED BY <1>3, <1>8, <1>14 DEF n

(* A share of a whole, in per cent. *)
LEMMA Percent ==
  ASSUME NEW n \in Nat, n # 0, NEW m \in 0..n
  PROVE  (100 * m) \div n \in 0..100
<1> DEFINE q == (100 * m) \div n
<1>1. q \in Nat /\ n * q <= 100 * m OBVIOUS
<1> HIDE DEF q
<1>2. n * q <= 100 * n BY <1>1
<1>3. q <= 100
  <2> SUFFICES ASSUME q >= 101 PROVE FALSE BY <1>1
  <2>1. n * q >= n * 101 BY <1>1
  <2> QED BY <1>1, <1>2, <2>1
<1> QED BY <1>1, <1>3 DEF q

(* As many sequence numbers are present as there are first arrivals. *)
LEMMA PresentAre ==
  ASSUME NEW n \in Nat, NEW d, DOMAIN d = 1..n
  PROVE  LET P == {d[i].seq : i \in DOMAIN d}
         IN  IsFiniteSet(P) /\ Cardinality(P) \in 0..n
<1> DEFINE P == {d[i].seq : i \in DOMAIN d}
           f == [i \in 1..n |-> d[i].seq]
<1>1. f \in Surjection(1..n, P) BY DEF Surjection
<1>2. IsFiniteSet(1..n) /\ Cardinality(1..n) = n BY FS_Interval
<1> HIDE DEF f, P
<1>3. IsFiniteSet(P) /\ Cardinality(P) <= n BY <1>1, <1>2, FS_Surjection
<1>4. Cardinality(P) \in Nat BY <1>3, FS_CardinalityType
<1> QED BY <1>3, <1>4 DEF P

(* The mean change of delay is a number. *)
LEMMA JitterIs ==
  ASSUME NEW d \in Seq(Arrival)
  PROVE  JitterOK(compute_jitter(d))
<1> DEFINE n == Len(d)
           D(i) == Distance(one_way_delay_ms(d[i]), one_way_delay_ms(d[i - 1]))
           s == [i \in 1 .. n - 1 |-> D(i + 1)]
           m == Max({D(i) : i \in 2 .. n})
<1>1. n \in Nat /\ DOMAIN d = 1..n OBVIOUS
<1>2. \A i \in 1..n : one_way_delay_ms(d[i]) \in Int
  <2> SUFFICES ASSUME NEW i \in 1..n PROVE one_way_delay_ms(d[i]) \in Int OBVIOUS
  <2>1. d[i] \in Arrival BY <1>1
  <2> QED BY <2>1 DEF one_way_delay_ms, Arrival
<1>3. compute_jitter(d) = IF n < 2 THEN [total |-> Missing, count |-> 0, max |-> Missing]
                          ELSE [total |-> Total(s), count |-> n - 1, max |-> m]
  BY DEF compute_jitter
<1>4. ASSUME n >= 2 PROVE Total(s) \in Int
  <2>1. n - 1 \in Nat /\ DOMAIN s = 1..(n - 1) BY <1>1, <1>4
  <2>2. ASSUME NEW i \in 1..(n - 1) PROVE s[i] \in Int
    <3>1. i + 1 \in 1..n /\ i + 1 - 1 \in 1..n BY <1>1
    <3>2. \A x, y \in Int : Distance(x, y) \in Int BY DEF Distance
    <3>3. s[i] = D(i + 1) OBVIOUS
    <3> QED BY <1>2, <3>1, <3>2, <3>3
  <2> DEFINE k == n - 1
  <2>3. k \in Nat /\ DOMAIN s = 1..k /\ \A i \in 1..k : s[i] \in Int BY <2>1, <2>2
  <2> HIDE DEF s, k
  <2>4. PICK a : PartialSums(a, k, s) BY <2>3, TotalIs
  <2> QED BY <2>3, <2>4 DEF PartialSums
<1> HIDE DEF s, m
<1>5. CASE n < 2 BY <1>3, <1>5 DEF JitterOK
<1>6. CASE ~(n < 2) BY <1>1, <1>3, <1>4, <1>6 DEF JitterOK
<1> QED BY <1>5, <1>6

(* The figures of analyze. *)
LEMMA AnalyzeFigures ==
  ASSUME NEW sent \in Nat, NEW arrivals \in Seq(Arrival), Len(arrivals) <= sent
  PROVE  FiguresOK(analyze_burst(sent, arrivals))
<1> DEFINE r == analyze_burst(sent, arrivals)
           d == split_duplicates(arrivals).distinct
           P == {d[i].seq : i \in DOMAIN d}
           C == Cardinality(P)
<1>1. r.jitter = compute_jitter(d) BY DEF analyze_burst, burst_report
<1>2. r.loss = IF sent = 0 THEN 0 ELSE (100 * (sent - C)) \div sent BY DEF analyze_burst, burst_report
<1>3. FirstOf(d, arrivals, Len(arrivals)) BY SplitIs
<1> HIDE DEF d, r
<1>4. d \in Seq(Arrival) /\ Len(d) <= sent /\ Len(d) \in Nat /\ DOMAIN d = 1..Len(d) BY <1>3 DEF FirstOf
<1>5. C \in 0..Len(d) BY <1>4, PresentAre
<1> HIDE DEF C
<1>6. sent - C \in 0..sent BY <1>4, <1>5
<1>7. r.loss \in 0..100
  <2>1. CASE sent = 0 BY <1>2, <2>1
  <2>2. CASE sent # 0
    <3> DEFINE m == sent - C
    <3>1. m \in 0..sent /\ r.loss = (100 * m) \div sent BY <1>2, <1>6, <2>2
    <3> HIDE DEF m
    <3>2. (100 * m) \div sent \in 0..100 BY <2>2, <3>1, Percent
    <3> QED BY <3>1, <3>2
  <2> QED BY <2>1, <2>2
<1>8. JitterOK(r.jitter) BY <1>1, <1>4, JitterIs
<1> QED BY <1>7, <1>8 DEF r, FiguresOK

(* The opinion score stays in its range, whatever is subtracted. *)
LEMMA MosIs ==
  ASSUME NEW rep, FiguresOK(rep),
         NEW freeze \in Risks, NEW con
  PROVE  estimate_mos(rep, freeze, con) \in 100..450
<1> DEFINE t == rep.jitter.total
           k == rep.jitter.count
           j == IF k = 0 THEN 0 ELSE Smaller((2 * t) \div k, 100)
           f == CASE freeze = "Low" -> 0 [] freeze = "Elevated" -> 50 [] freeze = "High" -> 150
           x == IF con = "LikelyAudibleArtifact" THEN 30 ELSE 0
           s == 440 - 2 * rep.loss - j - f - x
<1>0. k \in Nat /\ (k # 0 => t \in Int) /\ rep.loss \in Int BY DEF FiguresOK, JitterOK
<1>1. j \in Int
  <2>1. CASE k = 0 BY <2>1
  <2>2. CASE k # 0
    <3>1. (2 * t) \div k \in Int BY <1>0, <2>2
    <3> QED BY <2>2, <3>1 DEF Smaller
  <2> QED BY <2>1, <2>2
<1>2. f \in {0, 50, 150} BY DEF Risks
<1>3. x \in {0, 30} OBVIOUS
<1>4. estimate_mos(rep, freeze, con) = Smaller(Larger(s, 100), 450) BY DEF estimate_mos
<1> HIDE DEF j, f, x
<1>5. s \in Int BY <1>0, <1>1, <1>2, <1>3
<1> HIDE DEF s
<1> QED BY <1>4, <1>5 DEF Smaller, Larger

(* burst-analysis reports its loss as a percentage. *)
LEMMA BurstLoss ==
  ASSUME NEW g \in Seq(Int), NEW ok, dispatch("burst-analysis", g, ok).exit = 0
  PROVE  dispatch("burst-analysis", g, ok).report.normal.loss \in 0..100
<1> DEFINE c == "burst-analysis"
           a == [live_event |-> ok, maintenance |-> FALSE, interval |-> 20,
                 normal |-> [ok |-> TRUE, echoes |-> g], ramp |-> TRUE,
                 ramped |-> [ok |-> g[1] = 0, echoes |-> g]]
           p == run_one_pass(g, 20, 4)
           r == analyze_burst(p.sent, p.arrivals)
           x == IF a.ramp /\ a.ramped.ok THEN {r} ELSE {}
<1>1. dispatch(c, g, ok) = burst_analysis_run(a)
  <2>1. dispatch(c, g, ok) = stream_report(c, g, ok) BY Route DEF StreamCommands
  <2>2. stream_report(c, g, ok) = burst_analysis_run(a) BY Zenon DEF stream_report
  <2> QED BY <2>1, <2>2
<1>2. burst_analysis_run(a) \in {Refusal(2), Refusal(1), Completed([normal |-> r, ramped |-> x])}
  BY DEF burst_analysis_run
<1>3. /\ p.sent = Len(g) /\ p.arrivals \in Seq(Arrival) /\ Len(p.arrivals) <= Len(g) BY PassArrivals
<1>4. FiguresOK(r)
  <2> HIDE DEF p
  <2>1. p.sent \in Nat /\ p.arrivals \in Seq(Arrival) /\ Len(p.arrivals) <= p.sent BY <1>3
  <2> QED BY <2>1, AnalyzeFigures
<1> HIDE DEF r, a, x
<1>5. dispatch(c, g, ok) = Completed([normal |-> r, ramped |-> x]) BY <1>1, <1>2 DEF Refusal
<1> QED BY <1>4, <1>5, ReportOf DEF FiguresOK

(* What media-quality reports, once it ran. *)
LEMMA MediaRun ==
  ASSUME NEW g \in Seq(Values), \A i \in 4..Len(g) : g[i] \in Int, Len(g) >= 3, NEW ok,
         dispatch("media-quality", g, ok).exit = 0
  PROVE  LET p == run_one_pass(mediaEchoes(g), mediaInterval(g), 8)
             r == analyze_burst(p.sent, p.arrivals)
         IN  /\ dispatch("media-quality", g, ok) = Completed(media_report(g[1], mediaSockets(g), r))
             /\ mediaEchoes(g) \in Seq(Int) /\ mediaInterval(g) \in Int
<1> DEFINE c == "media-quality"
           e == SubSeq(g, 4, Len(g))
           a == [live_event |-> ok, maintenance |-> FALSE, sequence_ok |-> TRUE,
                 profile |-> g[1], socket |-> g[2], relay |-> g[3], echoes |-> e]
           s == {probe_direct_udp(g[2])}
                    \cup (IF g[3] = "none" THEN {"Refused"} ELSE {probe_turn_tcp(g[3])})
           q == 1000 \div packets_per_sec(g[1])
           p == run_one_pass(e, q, 8)
           r == analyze_burst(p.sent, p.arrivals)
           m == media_report(g[1], s, r)
<1>1. dispatch(c, g, ok) = media_quality_run(a)
  <2>1. dispatch(c, g, ok) = stream_report(c, g, ok) BY Route DEF StreamCommands
  <2>2. stream_report(c, g, ok) = media_quality_run(a) BY Zenon DEF stream_report
  <2> QED BY <2>1, <2>2
<1>2. media_quality_run(a) \in {Refusal(2), Refusal(1), Completed(m)}
  BY DEF media_quality_run, build_media_report, run_media_sequence
<1>3. e \in Seq(Int) /\ q \in Int
  <2>1. e \in Seq(Int)
    <3>1. e = [i \in 1..(Len(g) - 3) |-> g[i + 3]] OBVIOUS
    <3>2. \A i \in 1..(Len(g) - 3) : i + 3 \in 4..Len(g) OBVIOUS
    <3> HIDE DEF e
    <3> QED BY <3>1, <3>2
  <2>2. q \in Int BY DEF packets_per_sec
  <2> QED BY <2>1, <2>2
<1> HIDE DEF a, m
<1>4. dispatch(c, g, ok) = Completed(m) BY <1>1, <1>2 DEF Refusal
<1> QED BY <1>3, <1>4, Zenon DEF m, mediaEchoes, mediaInterval, mediaSockets

(* media-quality reports a score between 1.00 and 4.50. *)
LEMMA MediaMos ==
  ASSUME NEW g \in Seq(Values), \A i \in 4..Len(g) : g[i] \in Int, Len(g) >= 3, NEW ok,
         dispatch("media-quality", g, ok).exit = 0
  PROVE  dispatch("media-quality", g, ok).report.mos \in 100..450
<1> DEFINE c == "media-quality"
           e == mediaEchoes(g)
           q == mediaInterval(g)
           p == run_one_pass(e, q, 8)
           r == analyze_burst(p.sent, p.arrivals)
           m == media_report(g[1], mediaSockets(g), r)
           fr == estimate_freeze_risk(r.bursts, g[1])
           con == estimate_concealment(r.bursts)
<1>1. dispatch(c, g, ok) = Completed(m) /\ e \in Seq(Int) /\ q \in Int BY MediaRun, Zenon
<1> HIDE DEF e, q
<1>4. /\ p.sent = Len(e) /\ p.arrivals \in Seq(Arrival) /\ Len(p.arrivals) <= Len(e) BY <1>1, PassArrivals
<1>5. FiguresOK(r)
  <2> HIDE DEF p
  <2>1. p.sent \in Nat /\ p.arrivals \in Seq(Arrival) /\ Len(p.arrivals) <= p.sent BY <1>1, <1>4
  <2> QED BY <2>1, AnalyzeFigures
<1>6. m.mos = estimate_mos(r, fr, con) BY DEF media_report
<1>7. fr \in Risks BY DEF estimate_freeze_risk, Risks
<1> HIDE DEF r, m, fr, con
<1>8. m.mos \in 100..450
  <2>1. estimate_mos(r, fr, con) \in 100..450 BY <1>5, <1>7, MosIs, ZenonT(30)
  <2> QED BY <1>6, <2>1
<1> QED BY <1>1, <1>8, ReportOf

(* The echoes of both probes are numbers. *)
LEMMA EchoesAreNumbers ==
  ASSUME MachineInv, outcome.exit = 0
  PROVE  /\ command = "burst-analysis" => evidence \in Seq(Int)
         /\ command = "media-quality" =>
              /\ evidence \in Seq(Values) /\ Len(evidence) >= 3
              /\ \A i \in 4..Len(evidence) : evidence[i] \in Int
<1>1. /\ command \in Commands /\ evidence \in Seq(Values)
      /\ Len(Measurements[command]) \in Nat
      /\ DOMAIN Measurements[command] = 1..Len(Measurements[command])
  BY InvestigationsAssumption DEF MachineInv, Gathered, Commands
<1> DEFINE N == Len(Measurements[command])
<1>2. ASSUME command = "burst-analysis" PROVE evidence \in Seq(Int)
  <2>1. Shaped(command, evidence) BY <1>2, VerdictOnShapedEvidence DEF ShapedCommands
  <2>2. Shapes(command) = [i \in DOMAIN Measurements[command] |-> Int] BY <1>2, Zenon DEF Shapes
  <2>3. N \in Nat /\ Shapes(command) = [i \in 1..N |-> Int] BY <1>1, <2>2
  <2> HIDE DEF N
  <2>4. Len(Shapes(command)) = N BY <2>3
  <2>5. Len(evidence) = N /\ \A i \in 1..N : evidence[i] \in Shapes(command)[i] BY <2>1, <2>4 DEF Shaped
  <2>6. \A i \in 1..N : evidence[i] \in Int BY <2>3, <2>5
  <2>7. evidence = [i \in 1..N |-> evidence[i]] BY <1>1, <2>5
  <2> QED BY <2>3, <2>6, <2>7
<1>3. ASSUME command = "media-quality"
      PROVE  /\ Len(evidence) >= 3
             /\ \A i \in 4..Len(evidence) : evidence[i] \in Int
  <2> DEFINE H == <<STRING, STRING, STRING>>
             R == [i \in 1..(N - 3) |-> Int]
             B == {STRING, Int}
  <2>1. Shaped(command, evidence) BY <1>3, VerdictOnShapedEvidence DEF ShapedCommands
  <2>2. Shapes(command) = H \o R BY <1>3, Zenon DEF Shapes
  <2>3. H \in Seq(B) /\ Len(H) = 3 OBVIOUS
  <2>4. N \in Int BY <1>1
  <2> HIDE DEF N
  <2>5. R \in Seq(B) /\ Len(R) \in Nat /\ \A i \in 1..Len(R) : R[i] = Int
    <3>1. CASE N - 3 \in Nat BY <2>4, <3>1
    <3>2. CASE N - 3 \notin Nat
      <4>1. 1..(N - 3) = {} BY <2>4, <3>2
      <4>2. R = << >> BY <4>1
      <4> HIDE DEF R
      <4> QED BY <4>2
    <3> QED BY <3>1, <3>2
  <2> HIDE DEF H, R, B
  <2>c. /\ Len(H \o R) = Len(H) + Len(R)
        /\ \A i \in 1 .. Len(H) + Len(R) : (H \o R)[i] = IF i <= Len(H) THEN H[i] ELSE R[i - Len(H)]
    <3>1. H \in Seq(B) /\ R \in Seq(B) BY <2>3, <2>5
    <3> QED BY <3>1, ConcatProperties
  <2>6. Len(Shapes(command)) = 3 + Len(R) BY <2>2, <2>3, <2>5, <2>c
  <2>7. ASSUME NEW i \in 4..(3 + Len(R)) PROVE Shapes(command)[i] = Int
    <3>1. (H \o R)[i] = R[i - 3] /\ i - 3 \in 1..Len(R) BY <2>3, <2>5, <2>c
    <3> QED BY <2>2, <2>5, <3>1
  <2>8. Len(evidence) = 3 + Len(R) /\ \A i \in 1..(3 + Len(R)) : evidence[i] \in Shapes(command)[i]
    BY <2>1, <2>6 DEF Shaped
  <2>9. \A i \in 4..(3 + Len(R)) : i \in 1..(3 + Len(R)) BY <2>5
  <2> QED BY <2>5, <2>7, <2>8, <2>9
<1> QED BY <1>1, <1>2, <1>3

(* The machine, its exit codes and the ranges of the reported figures:     *)
(* a loss is a percentage, a score lies in 1.00..4.50, a fairness index in *)
(* one half..one, and a tunnel payload is a natural number.                *)
THEOREM TypeCorrect == Spec => []TypeOK
<1>1. MachineInv => TypeOK
  <2> SUFFICES ASSUME MachineInv PROVE TypeOK OBVIOUS
  <2>1. /\ command \in Commands /\ ready \in BOOLEAN
        /\ Len(evidence) <= Len(Measurements[command])
    BY DEF MachineInv, Gathered
  <2>2. Concluded => Complete /\ outcome = dispatch(command, evidence, ready)
    BY DEF MachineInv, Reported, Concluded, Running
  <2>3. outcome.exit \in {Missing, 0, 1, 2}
    <3>1. CASE outcome = Running BY <3>1 DEF Running
    <3>2. CASE outcome = dispatch(command, evidence, ready) BY <2>1, <3>2, DispatchExits DEF Exits
    <3> QED BY <3>1, <3>2 DEF MachineInv, Reported
  <2>4. ASSUME NEW c, Reports(c)
        PROVE  command = c /\ dispatch(c, evidence, ready).exit = 0 /\ outcome.exit = 0
               /\ report = dispatch(c, evidence, ready).report
    BY <2>4, VerdictOnShapedEvidence DEF Reports, report
  <2>5. Reports("tunnel") => report.safe \in Nat
    <3> SUFFICES ASSUME Reports("tunnel") PROVE report.safe \in Nat OBVIOUS
    <3>1. Shaped("tunnel", evidence) BY <2>4, VerdictOnShapedEvidence DEF ShapedCommands
    <3> QED BY <2>4, <3>1, TunnelIsSafe
  <2>6. Reports("burst-analysis") => report.normal.loss \in 0..100 BY <2>4, EchoesAreNumbers, BurstLoss
  <2>7. Reports("media-quality") => report.mos \in 100..450 BY <2>4, EchoesAreNumbers, MediaMos, ZenonT(30)
  <2>8. Reports("gateway-bracket") =>
          \A i \in DOMAIN report.phases : report.phases[i].loss \in {Missing} \cup 0..100
    <3> SUFFICES ASSUME Reports("gateway-bracket")
                 PROVE \A i \in DOMAIN report.phases : report.phases[i].loss \in {Missing} \cup 0..100
      OBVIOUS
    <3>1. Shaped("gateway-bracket", evidence) BY <2>4, VerdictOnShapedEvidence DEF ShapedCommands
    <3> QED BY <2>4, <3>1, BracketLoss
  <2>9. Reports("multiclient-fairness") /\ report.fairness.den > 0 =>
          /\ report.fairness.num <= report.fairness.den
          /\ 2 * report.fairness.num >= report.fairness.den
    <3> SUFFICES ASSUME Reports("multiclient-fairness"), report.fairness.den > 0
                 PROVE  /\ report.fairness.num <= report.fairness.den
                        /\ 2 * report.fairness.num >= report.fairness.den
      OBVIOUS
    <3>1. Shaped("multiclient-fairness", evidence) BY <2>4, VerdictOnShapedEvidence DEF ShapedCommands
    <3> QED BY <2>4, <3>1, FairnessIsAnIndex
  <2> QED BY <2>1, <2>2, <2>3, <2>5, <2>6, <2>7, <2>8, <2>9 DEF TypeOK
<1> QED BY <1>1, MachineInvariant, PTL

-----------------------------------------------------------------------------
(* FiguresAreTheirOwn, the engines that fold, filter or sort. *)

(* A position with the largest key. *)
LEMMA Largest ==
  ASSUME NEW n \in Nat, NEW I, I \subseteq 1..n, I # {}, NEW key, \A i \in I : key[i] \in Int
  PROVE  \E i \in I : \A j \in I : key[j] <= key[i]
<1> DEFINE C == Cardinality(I)
<1>1. IsFiniteSet(I) /\ C \in Nat BY RankNumbers
<1>2. \A i \in I : Rank(key, I, i) \in 1..C BY RankNumbers
<1>3. \A i, j \in I : Rank(key, I, i) < Rank(key, I, j) <=> Precedes(key, i, j) BY RankNumbers
<1>4. \A k \in 1..C : Numbers(key, I, k) BY RankNumbers
<1>5. C # 0 BY <1>1, FS_EmptySet, Zenon
<1> HIDE DEF C
<1>6. PICK i \in I : Rank(key, I, i) = C BY <1>1, <1>4, <1>5 DEF Numbers
<1>7. ASSUME NEW j \in I PROVE key[j] <= key[i]
  <2>1. Rank(key, I, j) \in 1..C BY <1>2
  <2>2. ~(Rank(key, I, i) < Rank(key, I, j)) BY <1>1, <1>6, <2>1
  <2>3. ~Precedes(key, i, j) BY <1>3, <2>2
  <2>4. key[i] \in Int /\ key[j] \in Int OBVIOUS
  <2> QED BY <2>3, <2>4 DEF Precedes
<1> QED BY <1>7

(* A filter that leaves n of n positions has left them all. *)
LEMMA AllKept ==
  ASSUME NEW n \in Nat, NEW I, I \subseteq 1..n, Cardinality(I) >= n
  PROVE  I = 1..n
<1>1. IsFiniteSet(1..n) /\ Cardinality(1..n) = n BY FS_Interval
<1>2. I \in SUBSET (1..n) OBVIOUS
<1>3. IsFiniteSet(I) /\ Cardinality(I) <= n /\ (Cardinality(I) = n => I = 1..n) BY <1>1, <1>2, FS_Subset
<1>4. Cardinality(I) \in Nat BY <1>3, FS_CardinalityType
<1> QED BY <1>3, <1>4

(* InOrder lists the elements by their keys, each index once. *)
LEMMA Sorts ==
  ASSUME NEW n \in Nat, NEW s, NEW key, \A i \in 1..n : key[i] \in Int,
         NEW o, o = InOrder(s, key, 1..n)
  PROVE  DOMAIN o = 1..n /\ Len(o) = n /\ \E f : Sorting(f, s, o, n, key)
<1>1. Cardinality(1..n) = n BY FS_Interval
<1> DEFINE I == 1..n
<1>2. I \subseteq 1..n OBVIOUS
<1>3. \A i \in I : key[i] \in Int OBVIOUS
<1> HIDE DEF I
<1>4. DOMAIN InOrder(s, key, I) = 1..Cardinality(I) BY <1>2, <1>3, InOrderIs
<1>5. \E f : PicksBy(f, s, key, I, InOrder(s, key, I)) BY <1>2, <1>3, InOrderIs
<1>6. PICK f : PicksBy(f, s, key, I, InOrder(s, key, I)) BY <1>5
<1>7. Sorting(f, s, o, n, key) BY <1>1, <1>6 DEF PicksBy, Sorting, I
<1>8. DOMAIN o = 1..n BY <1>1, <1>4 DEF I
<1>9. Len(o) = n BY <1>8
<1> QED BY <1>7, <1>8, <1>9

(* The evidence of a command at four positions of one shape. *)
LEMMA FourShaped ==
  ASSUME NEW c, NEW S, NEW g, Shaped(c, g), Shapes(c) = [i \in 1..4 |-> S]
  PROVE  /\ g \in Seq(Values) /\ Len(g) = 4
         /\ g[1] \in S /\ g[2] \in S /\ g[3] \in S /\ g[4] \in S
<1>1. Len(Shapes(c)) = 4 OBVIOUS
<1>2. g \in Seq(Values) /\ Len(g) = 4 /\ \A i \in 1..4 : g[i] \in Shapes(c)[i] BY <1>1 DEF Shaped
<1>3. \A i \in 1..4 : g[i] \in S BY <1>2
<1> QED BY <1>2, <1>3

(* A sweep with endpoints has measured both of its sizes. *)
LEMMA SweepOfTwo ==
  ASSUME NEW m, DOMAIN m = 1..2, NEW mtu, endpoints(build_sweep(mtu, m)) # <<>>
  PROVE  Known(mtu) /\ \A i \in 1..2 : m[i].offered > 0
<1> DEFINE I == {i \in DOMAIN m : /\ Known(mtu) /\ m[i].size <= max_safe_payload(mtu, 20, 8)
                                  /\ Known(m[i].offered)}
           T == {m[i] : i \in 1..2}
           b == build_sweep(mtu, m)
           U == {i \in DOMAIN b : Known(loss_percent(b[i]))}
<1>1. b = InOrder(m, [i \in DOMAIN m |-> i], I) BY DEF build_sweep, Keep, Where
<1>2. I \subseteq 1..2 /\ \A i \in I : m[i] \in T OBVIOUS
<1>3. Cardinality(U) >= 2 \/ Cardinality(U) \notin Int
  <2> HIDE DEF b, U
  <2>1. ~(Cardinality(U) < 2) BY DEF endpoints, b, U
  <2> QED BY <2>1
<1> HIDE DEF T, b
<1>4. Filters(b, m, 2, I, T)
  <2> HIDE DEF I
  <2> QED BY <1>1, <1>2, Kept
<1>5. b \in Seq(T) /\ Len(b) = Cardinality(I) /\ Len(b) <= 2 /\ Len(b) \in Nat /\ DOMAIN b = 1..Len(b)
  BY <1>4 DEF Filters
<1>6. PICK f : Picks(f, m, b, I) BY <1>4 DEF Filters
<1>7. IsFiniteSet(U) /\ Cardinality(U) \in Nat /\ Cardinality(U) <= Len(b)
      /\ (Cardinality(U) = Len(b) => U = 1..Len(b))
  <2>1. IsFiniteSet(1..Len(b)) /\ Cardinality(1..Len(b)) = Len(b) BY <1>5, FS_Interval
  <2>2. U \in SUBSET (1..Len(b)) BY <1>5
  <2> HIDE DEF U
  <2>3. IsFiniteSet(U) /\ Cardinality(U) <= Len(b) /\ (Cardinality(U) = Len(b) => U = 1..Len(b))
    BY <2>1, <2>2, FS_Subset
  <2> QED BY <2>3, FS_CardinalityType
<1>8. Cardinality(I) >= 2 /\ U = 1..2 /\ Len(b) = 2
  <2> HIDE DEF U, I
  <2> QED BY <1>3, <1>5, <1>7
<1>9. I = 1..2
  <2> HIDE DEF I
  <2> QED BY <1>2, <1>8, AllKept
<1>10. Known(mtu)
  <2>1. 1 \in I BY <1>9
  <2> QED BY <2>1
<1>11. ASSUME NEW i \in 1..2 PROVE m[i].offered > 0
  <2>1. PICK k \in 1..2 : f[k] = i BY <1>6, <1>8, <1>9 DEF Picks
  <2>2. b[k] = m[i] BY <1>6, <1>8, <2>1 DEF Picks
  <2>3. k \in U BY <1>8
  <2>4. Known(loss_percent(m[i])) BY <2>2, <2>3
  <2> QED BY <2>4 DEF loss_percent, Known
<1> QED BY <1>10, <1>11

(* classify_pressure. *)
LEMMA PressureHasEndpoints ==
  ASSUME NEW x, NEW y, classify_pressure(x, y) # "Inconclusive"
  PROVE  endpoints(x) # <<>> /\ endpoints(y) # <<>>
BY DEF classify_pressure

(* size-rate-matrix blames pressure only with both sweeps measured. *)
LEMMA PressureWasMeasured ==
  ASSUME NEW g, Shaped("size-rate-matrix", g), NEW ok,
         dispatch("size-rate-matrix", g, ok).exit = 0,
         dispatch("size-rate-matrix", g, ok).report # "Inconclusive"
  PROVE  Known(g[1]) /\ \A i \in 2..5 : g[i].offered > 0
<1> DEFINE c == "size-rate-matrix"
           P == [size : Int, offered : Int, received : Int]
           x == build_sweep(g[1], SubSeq(g, 2, 3))
           y == build_sweep(g[1], SubSeq(g, 4, 5))
           a == [live_event |-> ok, maintenance |-> FALSE, mtu |-> g[1],
                 byteRate |-> SubSeq(g, 2, 3), packetRate |-> SubSeq(g, 4, 5)]
<1>1. g \in Seq(Values) /\ Len(g) = 5
  <2>1. Shapes(c) = <<Int>> \o [i \in 1..4 |-> P] BY Zenon DEF Shapes
  <2> HIDE DEF P
  <2>2. Len(Shapes(c)) = 5 BY <2>1
  <2> QED BY <2>2 DEF Shaped
<1>2. dispatch(c, g, ok) = size_rate_matrix_run(a)
  <2>1. dispatch(c, g, ok) = load_report(c, g, ok) BY Routes DEF LoadCommands
  <2>2. load_report(c, g, ok) = size_rate_matrix_run(a) BY SMT DEF load_report
  <2> QED BY <2>1, <2>2
<1>3. size_rate_matrix_run(a) \in {Refusal(2), Completed(classify_pressure(x, y))} BY DEF size_rate_matrix_run
<1>4. classify_pressure(x, y) # "Inconclusive"
  <2> HIDE DEF x, y, a
  <2>1. dispatch(c, g, ok) = Completed(classify_pressure(x, y)) BY <1>2, <1>3 DEF Refusal
  <2> QED BY <2>1, ReportOf
<1>5. endpoints(x) # <<>> /\ endpoints(y) # <<>>
  <2> HIDE DEF x, y
  <2> QED BY <1>4, PressureHasEndpoints
<1>6. /\ DOMAIN SubSeq(g, 2, 3) = 1..2 /\ SubSeq(g, 2, 3)[1] = g[2] /\ SubSeq(g, 2, 3)[2] = g[3]
      /\ DOMAIN SubSeq(g, 4, 5) = 1..2 /\ SubSeq(g, 4, 5)[1] = g[4] /\ SubSeq(g, 4, 5)[2] = g[5]
  BY <1>1
<1>7. Known(g[1]) /\ \A i \in 1..2 : SubSeq(g, 2, 3)[i].offered > 0 BY <1>5, <1>6, SweepOfTwo
<1>8. \A i \in 1..2 : SubSeq(g, 4, 5)[i].offered > 0 BY <1>5, <1>6, SweepOfTwo
<1>9. g[2].offered > 0 /\ g[3].offered > 0 /\ g[4].offered > 0 /\ g[5].offered > 0 BY <1>6, <1>7, <1>8
<1>10. \A i \in 2..5 : i = 2 \/ i = 3 \/ i = 4 \/ i = 5 OBVIOUS
<1> QED BY <1>7, <1>9, <1>10

(* The addresses of a resolver are those of its A records. *)
LEMMA AnsweredAre ==
  ASSUME NEW d, NEW h, NEW n, n.values = {}
  PROVE  answered_addresses(query_resolver(<<d, n, h, n>>)) \in {d.values, {}}
<1> DEFINE q == query_resolver(<<d, n, h, n>>)
           ok == {i \in DOMAIN q : q[i].ok}
<1>1. /\ DOMAIN q = 1..4
      /\ q[1] = run_dig("A", d) /\ q[2] = run_dig("AAAA", n)
      /\ q[3] = run_dig("HTTPS", h) /\ q[4] = run_dig("SVCB", n)
  BY DEF query_resolver, RecordTypes
<1>2. answered_addresses(q) = UNION {endpoint_addresses(q[i]) : i \in ok} BY DEF answered_addresses, Where
<1> HIDE DEF q
<1>3. /\ endpoint_addresses(q[1]) \in {d.values, {}} /\ endpoint_addresses(q[2]) = {}
      /\ endpoint_addresses(q[3]) = {} /\ endpoint_addresses(q[4]) = {}
  BY <1>1 DEF run_dig, endpoint_addresses
<1>4. \A i \in ok : i = 1 \/ endpoint_addresses(q[i]) = {} BY <1>1, <1>3
<1>5. CASE 1 \in ok
  <2>1. answered_addresses(q) = endpoint_addresses(q[1]) BY <1>2, <1>4, <1>5
  <2> QED BY <1>3, <2>1 DEF q
<1>6. CASE 1 \notin ok
  <2>1. \A i \in ok : endpoint_addresses(q[i]) = {} BY <1>4, <1>6
  <2>2. answered_addresses(q) = {} BY <1>2, <2>1
  <2> QED BY <2>2 DEF q
<1> QED BY <1>5, <1>6

(* Two answers diverge when there are two, and they differ. *)
LEMMA SteeringOfTwo ==
  ASSUME NEW r, DOMAIN r = 1..2, decide_steering(r) = "Diverges"
  PROVE  /\ answered_addresses(r[1]) # {} /\ answered_addresses(r[2]) # {}
         /\ answered_addresses(r[1]) # answered_addresses(r[2])
<1> DEFINE X == [i \in DOMAIN r |-> answered_addresses(r[i])]
           I == {i \in DOMAIN X : X[i] # {}}
           T == {X[i] : i \in 1..2}
           o == InOrder(X, [i \in DOMAIN X |-> i], I)
<1>1. DOMAIN X = 1..2 /\ X[1] = answered_addresses(r[1]) /\ X[2] = answered_addresses(r[2]) OBVIOUS
<1>2. decide_steering(r) = CASE Len(o) < 2 -> "Inconclusive"
                    [] Len(o) >= 2 /\ \A i \in DOMAIN o : o[i] = o[1] -> "Consistent"
                    [] OTHER -> "Diverges"
  BY DEF decide_steering, Keep, Where
<1> HIDE DEF X
<1>3. I \subseteq 1..2 /\ \A i \in I : X[i] \in T BY <1>1
<1>4. o = InOrder(X, [i \in DOMAIN X |-> i], I) OBVIOUS
<1> HIDE DEF T, o
<1>5. Filters(o, X, 2, I, T)
  <2> HIDE DEF I
  <2> QED BY <1>1, <1>3, <1>4, Kept
<1>6. Len(o) \in Nat /\ Len(o) = Cardinality(I) /\ DOMAIN o = 1..Len(o) BY <1>5 DEF Filters
<1>7. PICK f : Picks(f, X, o, I) BY <1>5 DEF Filters
<1>8. Len(o) >= 2 /\ ~(\A i \in DOMAIN o : o[i] = o[1])
  <2> DEFINE same == \A i \in DOMAIN o : o[i] = o[1]
             n == Len(o)
  <2>1. n \in Nat /\ "Diverges" = CASE n < 2 -> "Inconclusive"
                                     [] n >= 2 /\ same -> "Consistent"
                                     [] OTHER -> "Diverges"
    BY <1>2, <1>6, Zenon
  <2> HIDE DEF same, n
  <2>2. n >= 2 /\ ~same BY <2>1
  <2> QED BY <2>2 DEF same, n
<1>9. I = 1..2
  <2> HIDE DEF I
  <2> QED BY <1>3, <1>6, <1>8, AllKept
<1>10. X[1] # {} /\ X[2] # {} BY <1>9
<1>11. X[1] # X[2]
  <2> SUFFICES ASSUME X[1] = X[2] PROVE FALSE OBVIOUS
  <2>1. \A k \in 1..Len(o) : o[k] = X[1]
    <3> SUFFICES ASSUME NEW k \in 1..Len(o) PROVE o[k] = X[1] OBVIOUS
    <3>1. o[k] = X[f[k]] /\ f[k] \in 1..2 BY <1>7, <1>9 DEF Picks
    <3> QED BY <3>1
  <2>2. 1 \in 1..Len(o) BY <1>6, <1>8
  <2> QED BY <1>6, <1>8, <2>1, <2>2
<1> QED BY <1>1, <1>10, <1>11

(* dns-steering says Diverges only of two different answers. *)
LEMMA DivergenceIsOfTheirs ==
  ASSUME NEW g, NEW ok, dispatch("dns-steering", g, ok).report = "Diverges"
  PROVE  {} \notin {g[1].values, g[3].values} /\ g[1].values # g[3].values
<1> DEFINE c == "dns-steering"
           n == [ran |-> ok, success |-> TRUE, values |-> {}]
           d == <<<<g[1], n, g[2], n>>, <<g[3], n, g[4], n>>>>
           r == [i \in DOMAIN d |-> query_resolver(d[i])]
<1>1. dispatch(c, g, ok) = dns_steering_run([digs |-> d])
  <2>1. dispatch(c, g, ok) = path_report(c, g, ok) BY Routes DEF PathCommands
  <2>2. path_report(c, g, ok) = dns_steering_run([digs |-> d]) BY Zenon DEF path_report
  <2> QED BY <2>1, <2>2
<1>2. dns_steering_run([digs |-> d]) = Completed(decide_steering(r)) BY DEF dns_steering_run
<1>3. DOMAIN r = 1..2 /\ r[1] = query_resolver(<<g[1], n, g[2], n>>)
      /\ r[2] = query_resolver(<<g[3], n, g[4], n>>) /\ n.values = {}
  <2>1. n.values = {} OBVIOUS
  <2> HIDE DEF n
  <2> DEFINE u == <<g[1], n, g[2], n>>
             v == <<g[3], n, g[4], n>>
  <2>2. d = <<u, v>> OBVIOUS
  <2> HIDE DEF u, v, d
  <2>3. DOMAIN d = 1..2 /\ d[1] = u /\ d[2] = v BY <2>2
  <2>4. DOMAIN r = 1..2 /\ r[1] = query_resolver(u) /\ r[2] = query_resolver(v) BY <2>3
  <2> QED BY <2>1, <2>4 DEF u, v
<1> HIDE DEF r, n, d
<1>4. decide_steering(r) = "Diverges" BY <1>1, <1>2, ReportOf
<1>5. /\ answered_addresses(r[1]) # {} /\ answered_addresses(r[2]) # {}
      /\ answered_addresses(r[1]) # answered_addresses(r[2])
  BY <1>3, <1>4, SteeringOfTwo
<1>6. answered_addresses(r[1]) \in {g[1].values, {}} /\ answered_addresses(r[2]) \in {g[3].values, {}}
  BY <1>3, AnsweredAre
<1> QED BY <1>5, <1>6

(* A rate with a loss, and with one that is known. *)
LEMMA RatePoint ==
  ASSUME NEW t, NEW child \in IperfClient, NEW x,
         is_lossy(rate_point(t, child), x) \in {"yes", "no"}
  PROVE  Known(child.document.sum_received.lost) \/ Known(child.document.sum.lost)
<1> DEFINE p == run_with_hard_timeout(child)
           d == child.document
           s == IF p.received # Absent THEN p.received ELSE p.estimated
<1>0. d \in IperfDocument BY DEF IperfClient
<1>1. rate_point(t, child) = [target |-> t, usable |-> udp_result(p).usable, loss |-> udp_result(p).loss]
  BY DEF rate_point
<1>2. Known(udp_result(p).loss) BY <1>1 DEF is_lossy
<1>3. p.error = "none" /\ s # Absent /\ udp_result(p).loss = s.lost BY <1>2 DEF udp_result, Unusable, Known
<1>4. p = parse_iperf_json(d) BY <1>3 DEF run_with_hard_timeout
<1>5. p.received = Solid(parse_rate_sample(d.sum_received)) /\ p.estimated = parse_rate_sample(d.sum)
  BY <1>3, <1>4 DEF parse_iperf_json
<1> HIDE DEF p, d
<1>6. ASSUME NEW b \in IperfBlock
      PROVE  parse_rate_sample(b).lost \in {b.lost, Missing} /\ Solid(parse_rate_sample(b)).lost \in {b.lost, Missing}
  BY DEF parse_rate_sample, IperfBlock, Absent, Solid
<1>7. d.sum_received \in IperfBlock /\ d.sum \in IperfBlock BY <1>0 DEF IperfDocument
<1>8. s.lost \in {d.sum_received.lost, d.sum.lost, Missing} BY <1>5, <1>6, <1>7
<1> QED BY <1>2, <1>3, <1>8 DEF Known, d

(* A clean rate below a lossy one, of two: both are lossy or not. *)
LEMMA FoundOfTwo ==
  ASSUME NEW points, DOMAIN points = 1..2, \A i \in 1..2 : points[i].target \in Int, NEW x,
         first_lossy_rate(points, x).kind = "Found"
  PROVE  \A i \in 1..2 : is_lossy(points[i], x) \in {"yes", "no"}
<1> DEFINE I == {i \in DOMAIN points : points[i].usable}
           T == {points[i] : i \in 1..2}
           u == InOrder(points, [i \in DOMAIN points |-> i], I)
           key == [i \in DOMAIN u |-> u[i].target]
           v == InOrder(u, key, DOMAIN u)
           lossyAt == {i \in DOMAIN v : is_lossy(v[i], x) = "yes"}
           noAt == {i \in DOMAIN v : is_lossy(v[i], x) = "no"}
           clean == {i \in noAt : i < Min(lossyAt)}
<1>1. first_lossy_rate(points, x) = lossy_rate_of(v, x) BY DEF first_lossy_rate, SortedBy, Keep, Where
<1>2. I \subseteq 1..2 /\ \A i \in I : points[i] \in T OBVIOUS
<1>3. u = InOrder(points, [i \in DOMAIN points |-> i], I) OBVIOUS
<1> HIDE DEF T, u
<1>4. Filters(u, points, 2, I, T)
  <2> HIDE DEF I
  <2> QED BY <1>2, <1>3, Kept
<1> DEFINE n == Len(u)
<1>5. n \in Nat /\ n <= 2 /\ DOMAIN u = 1..n /\ n = Cardinality(I) BY <1>4 DEF Filters
<1>6. PICK f : Picks(f, points, u, I) BY <1>4 DEF Filters
<1>7. \A i \in 1..n : key[i] \in Int
  <2> SUFFICES ASSUME NEW i \in 1..n PROVE key[i] \in Int OBVIOUS
  <2>1. key[i] = points[f[i]].target /\ f[i] \in 1..2 BY <1>2, <1>5, <1>6 DEF Picks
  <2> QED BY <2>1
<1>8. v = InOrder(u, key, 1..n) BY <1>5
<1> HIDE DEF key, v, n
<1>9. DOMAIN v = 1..n /\ Len(v) = n BY <1>5, <1>7, <1>8, Sorts
<1>10. PICK h : Sorting(h, u, v, n, key) BY <1>5, <1>7, <1>8, Sorts
<1>11. n >= 2 /\ lossyAt # {} /\ clean # {}
  <2>0. lossy_rate_of(v, x) = CASE Len(v) < 2 -> [kind |-> "InsufficientData"]
        [] Len(v) >= 2 /\ lossyAt = {} -> [kind |-> "NoneObserved"]
        [] Len(v) >= 2 /\ lossyAt # {} /\ clean = {} -> [kind |-> "AllTestedRatesLossy"]
        [] OTHER -> [kind |-> "Found", clean |-> v[Max(clean)].target,
                     lossy |-> v[Min(lossyAt)].target]
    BY DEF lossy_rate_of, Where
  <2> HIDE DEF lossyAt, clean
  <2>1. ASSUME Len(v) < 2 PROVE FALSE
    <3>1. lossy_rate_of(v, x) = [kind |-> "InsufficientData"] BY <1>5, <1>9, <2>0, <2>1
    <3> QED BY <1>1, <3>1
  <2>2. ASSUME Len(v) >= 2, lossyAt = {} PROVE FALSE
    <3>1. lossy_rate_of(v, x) = [kind |-> "NoneObserved"] BY <1>5, <1>9, <2>0, <2>2
    <3> QED BY <1>1, <3>1
  <2>3. ASSUME Len(v) >= 2, lossyAt # {}, clean = {} PROVE FALSE
    <3>1. lossy_rate_of(v, x) = [kind |-> "AllTestedRatesLossy"] BY <1>5, <1>9, <2>0, <2>3
    <3> QED BY <1>1, <3>1
  <2> QED BY <1>5, <1>9, <2>1, <2>2, <2>3
<1>12. n = 2 /\ I = 1..2
  <2> HIDE DEF I, lossyAt, clean
  <2>1. n = 2 /\ Cardinality(I) >= 2 BY <1>5, <1>11
  <2>2. I = 1..2 BY <1>2, <2>1, AllKept
  <2> QED BY <2>1, <2>2
<1>13. PICK k \in lossyAt : TRUE BY <1>11
<1>14. PICK l \in clean : TRUE BY <1>11
<1>15. k \in 1..2 /\ l \in 1..2 /\ k # l
       /\ is_lossy(v[k], x) = "yes" /\ is_lossy(v[l], x) = "no"
  BY <1>9, <1>12, <1>13, <1>14
<1>16. \A j \in 1..2 : is_lossy(v[j], x) \in {"yes", "no"} BY <1>15
<1>17. ASSUME NEW i \in 1..2 PROVE is_lossy(points[i], x) \in {"yes", "no"}
  <2>1. PICK j \in 1..2 : f[j] = i BY <1>6, <1>12 DEF Picks, n
  <2>2. u[j] = points[i] BY <1>6, <1>12, <2>1 DEF Picks, n
  <2>3. PICK q \in 1..2 : h[q] = j BY <1>10, <1>12 DEF Sorting
  <2>4. v[q] = u[j] BY <1>10, <1>12, <2>3 DEF Sorting
  <2> QED BY <1>16, <2>2, <2>4
<1> QED BY <1>17

(* independent-rates finds a rate only from runs that reported loss. *)
LEMMA RatesReportedLoss ==
  ASSUME NEW g, Shaped("independent-rates", g), NEW ok, dispatch("independent-rates", g, ok).exit = 0,
         dispatch("independent-rates", g, ok).report.up.kind = "Found"
  PROVE  \A i \in 1..2 : \/ Known(g[i].document.sum_received.lost)
                         \/ Known(g[i].document.sum.lost)
<1> DEFINE c == "independent-rates"
           a == [interface |-> TRUE, server |-> ok, local_ip |-> TRUE,
                 rates |-> <<10, 20>>, uploads |-> SubSeq(g, 1, 2),
                 downloads |-> SubSeq(g, 3, 4), duration |-> 5, threshold |-> 1]
           r == <<10, 20>>
           e == SubSeq(g, 1, 2)
           pts == [i \in DOMAIN r |-> rate_point(r[i], e[i])]
           s == independent_rates_real(a)
<1>1. Shapes(c) = [i \in 1..4 |-> IperfClient] BY Zenon DEF Shapes
<1>2. g \in Seq(Values) /\ Len(g) = 4 /\ g[1] \in IperfClient /\ g[2] \in IperfClient BY <1>1, FourShaped
<1>3. dispatch(c, g, ok) = independent_rates_run(a)
  <2>1. dispatch(c, g, ok) = control_report(c, g, ok) BY Routes DEF ControlCommands
  <2>2. control_report(c, g, ok) = independent_rates_run(a) BY Zenon DEF control_report
  <2> QED BY <2>1, <2>2
<1>4. s.up = pts BY DEF independent_rates_real
<1>5. independent_rates_run(a) \in {Refusal(1), Completed(sweep_verdict(s, 1))} BY DEF independent_rates_run
<1>6. sweep_verdict(s, 1).up = first_lossy_rate(pts, 1)
  <2> HIDE DEF s, pts
  <2> QED BY <1>4 DEF sweep_verdict
<1>7. DOMAIN pts = 1..2 /\ pts[1] = rate_point(10, g[1]) /\ pts[2] = rate_point(20, g[2]) BY <1>2
<1> HIDE DEF pts, s, a
<1>8. dispatch(c, g, ok) = Completed(sweep_verdict(s, 1)) BY <1>3, <1>5 DEF Refusal
<1>9. first_lossy_rate(pts, 1).kind = "Found" BY <1>6, <1>8, ReportOf
<1>10. \A i \in 1..2 : pts[i].target \in Int BY <1>7 DEF rate_point
<1>11. \A i \in 1..2 : is_lossy(pts[i], 1) \in {"yes", "no"} BY <1>7, <1>9, <1>10, FoundOfTwo
<1>12. /\ is_lossy(rate_point(10, g[1]), 1) \in {"yes", "no"}
       /\ is_lossy(rate_point(20, g[2]), 1) \in {"yes", "no"}
  BY <1>7, <1>11
<1>13. Known(g[1].document.sum_received.lost) \/ Known(g[1].document.sum.lost) BY <1>2, <1>12, RatePoint
<1>14. Known(g[2].document.sum_received.lost) \/ Known(g[2].document.sum.lost) BY <1>2, <1>12, RatePoint
<1>15. \A i \in 1..2 : i = 1 \/ i = 2 OBVIOUS
<1> QED BY <1>13, <1>14, <1>15

(* The candidates do not depend on what is measured. *)
LEMMA TunerCandidates ==
  ASSUME NEW ok
  PROVE  tunerCandidates(ok) \in Seq({1, 2})
<1> DEFINE s == <<1, 2>>
           I == {i \in DOMAIN s : preflight_candidate(s[i],
                  [files |-> IF ok THEN 256 ELSE 18, cores |-> 1]) = "Ok"}
           T == {1, 2}
           o == InOrder(s, [i \in DOMAIN s |-> i], I)
<1>1. tunerCandidates(ok) = candidates_to_run(o, 2) BY DEF tunerCandidates, Keep, Where
<1>2. o = InOrder(s, [i \in DOMAIN s |-> i], I) OBVIOUS
<1>3. I \subseteq 1..2 /\ DOMAIN s = 1..2 /\ \A i \in I : s[i] \in T OBVIOUS
<1> HIDE DEF o, I
<1>4. Filters(o, s, 2, I, T)
  <2> HIDE DEF s, T
  <2> QED BY <1>2, <1>3, Kept
<1>5. o \in Seq(T) BY <1>4 DEF Filters
<1>6. candidates_to_run(o, 2) \in {o, Append(o, 2)} BY DEF candidates_to_run
<1> QED BY <1>1, <1>5, <1>6

(* What an accepted trial shows. *)
LEMMA AcceptedTrial ==
  ASSUME NEW k, NEW d \in IperfDocument
  PROVE  /\ evaluate_trial(k, 10, d).bps \in Int
         /\ evaluate_trial(k, 10, d).rejected = "none" =>
              /\ d.json /\ d.sum_received # Absent
              /\ evaluate_trial(k, 10, d).bps = d.sum_received.bps
              /\ d.sum_received.seconds \in 8..12
<1> DEFINE p == parse_iperf_json(d)
           b == d.sum_received
           t == judge_trial(k, 10, p)
<1>1. b \in IperfBlock BY DEF IperfDocument
<1>2. evaluate_trial(k, 10, d) = t BY DEF evaluate_trial
<1>3. CASE p.error # "none"
  <2>1. t = [candidate |-> k, reported |-> Missing, bps |-> Missing, rejected |-> p.error]
    <3> HIDE DEF p
    <3> QED BY <1>3 DEF judge_trial
  <2> QED BY <1>2, <1>3, <2>1 DEF Missing
<1>4. CASE p.error = "none"
  <2>1. d.json /\ p.received = Solid(parse_rate_sample(b)) BY <1>4 DEF parse_iperf_json
  <2> DEFINE r == p.received
  <2>2. CASE r = Absent
    <3>1. t = [candidate |-> k, reported |-> Missing, bps |-> Missing, rejected |-> "NoReceiverEvidence"]
      <4> HIDE DEF p
      <4> QED BY <1>4, <2>2 DEF judge_trial
    <3> QED BY <1>2, <3>1 DEF Missing
  <2>3. CASE r # Absent
    <3>0. \/ r = [b EXCEPT !.seconds = Larger(@, 0)]
          \/ r = Absent
      <4> HIDE DEF p, b, r
      <4> QED BY <2>1 DEF Solid, parse_rate_sample, r
    <3>1. r.bps = b.bps /\ r.seconds = Larger(b.seconds, 0) /\ b.bps \in Int /\ b.seconds \in Int
      BY <1>1, <2>3, <3>0 DEF IperfBlock
    <3>2. b # Absent
      <4>1. ASSUME b = Absent PROVE r = Absent
        <5> HIDE DEF p, b, r
        <5> QED BY <2>1, <4>1 DEF Solid, parse_rate_sample, r, Absent, Known
      <4> QED BY <2>3, <4>1
    <3>3. CASE ~duration_ok(10, r.seconds)
      <4>1. t = [candidate |-> k, reported |-> r.seconds, bps |-> Missing, rejected |-> "DurationInconsistent"]
        <5> HIDE DEF p
        <5> QED BY <1>4, <2>3, <3>3 DEF judge_trial
      <4> HIDE DEF t, p, r
      <4> QED BY <1>2, <4>1 DEF Missing
    <3>4. CASE duration_ok(10, r.seconds)
      <4>1. t = [candidate |-> k, reported |-> r.seconds, bps |-> r.bps, rejected |-> "none"]
        <5> HIDE DEF p
        <5> QED BY <1>4, <2>3, <3>4 DEF judge_trial
      <4> HIDE DEF t, p, r
      <4>2. b.seconds \in 8..12 BY <3>1, <3>4 DEF duration_ok, Distance, Larger
      <4> QED BY <1>2, <2>1, <3>1, <3>2, <4>1, <4>2
    <3> QED BY <3>3, <3>4
  <2> QED BY <2>2, <2>3
<1> QED BY <1>3, <1>4

(* The maximum is the rate of the fastest accepted trial. *)
LEMMA TunerMaximum ==
  ASSUME NEW n \in Nat, NEW trials, DOMAIN trials = 1..n, \A i \in 1..n : trials[i].bps \in Int,
         NEW rep, NEW drift
  PROVE  \/ /\ acceptedTrials(trials) = {}
            /\ build_tuner_verdict(trials, rep, drift).maximum = Missing
         \/ FastestTrial(trials, build_tuner_verdict(trials, rep, drift).maximum)
<1> DEFINE A == acceptedTrials(trials)
           key == [i \in 1..n |-> trials[i].bps]
           best == {i \in A : \A j \in A : trials[j].bps <= trials[i].bps}
<1>1. A = {i \in DOMAIN trials : trials[i].rejected = "none"} BY DEF acceptedTrials
<1>2. build_tuner_verdict(trials, rep, drift).maximum = IF A = {} THEN Missing ELSE trials[Min(best)].bps
  BY <1>1, Zenon DEF build_tuner_verdict
<1>3. A \subseteq 1..n BY <1>1
<1>4. \A i \in A : key[i] \in Int /\ key[i] = trials[i].bps BY <1>3
<1> HIDE DEF A, key
<1>5. CASE A # {}
  <2>1. \E i \in A : \A j \in A : key[j] <= key[i] BY <1>3, <1>4, <1>5, Largest
  <2>a. PICK i \in A : \A j \in A : key[j] <= key[i] BY <2>1
  <2>b. \A j \in A : trials[j].bps <= trials[i].bps BY <1>4, <2>a
  <2>c. i \in best BY <2>a, <2>b, Zenon
  <2>d. best \subseteq A BY Zenon
  <2>2. best # {} /\ best \subseteq Nat
    <3> HIDE DEF best
    <3> QED BY <1>3, <2>c, <2>d
  <2>3. Min(best) \in best
    <3> HIDE DEF best
    <3> QED BY <2>2, MinNat
  <2> QED BY <1>2, <1>5, <2>3 DEF A, FastestTrial
<1> QED BY <1>2, <1>5 DEF A

(* The verdict that throughput-tuner reports. *)
LEMMA TunerReport ==
  ASSUME NEW e, NEW ok, DOMAIN e = 1..4
  PROVE  /\ dispatch("throughput-tuner", e, ok).exit = 0
         /\ dispatch("throughput-tuner", e, ok).report.verdict =
              build_tuner_verdict(tunerTrials(e, ok), 2, tunerDrift(e))
<1> DEFINE c == "throughput-tuner"
           a == [candidates |-> <<1, 2>>, representative |-> 2, requested |-> 10,
                 limits |-> [files |-> IF ok THEN 256 ELSE 18, cores |-> 1],
                 answers |-> SubSeq(e, 1, 2), repeats |-> 2, baseline |-> SubSeq(e, 3, 4)]
           fits == Keep(a.candidates, LAMBDA x : preflight_candidate(x, a.limits) = "Ok")
           drift == IF a.repeats >= 2 THEN Keep(a.baseline, Known) ELSE <<>>
           cand == candidates_to_run(fits, a.representative)
           trials == run_trials(a, cand)
           r == [verdict |-> build_tuner_verdict(trials, a.representative, drift),
                 skipped |-> Range(a.candidates) \ Range(fits)]
<1>1. dispatch(c, e, ok) = load_report(c, e, ok) BY Routes DEF LoadCommands
<1>2. load_report(c, e, ok) = throughput_tuner_run(a) BY SMT DEF load_report
<1>3. throughput_tuner_run(a) = Completed(r) BY DEF throughput_tuner_run
<1>4. cand = tunerCandidates(ok) BY DEF tunerCandidates
<1>5. a.representative = 2 /\ a.requested = 10 /\ a.answers = SubSeq(e, 1, 2) OBVIOUS
<1>6. trials = tunerTrials(e, ok)
  <2>1. tunerCandidates(ok) \in Seq({1, 2}) BY TunerCandidates
  <2>2. SubSeq(e, 1, 2)[1] = e[1] /\ SubSeq(e, 1, 2)[2] = e[2] OBVIOUS
  <2> HIDE DEF a, cand
  <2>3. trials = [i \in DOMAIN tunerCandidates(ok) |->
                    evaluate_trial(tunerCandidates(ok)[i], 10, SubSeq(e, 1, 2)[tunerCandidates(ok)[i]])]
    BY <1>4, <1>5 DEF run_trials
  <2>4. \A i \in DOMAIN tunerCandidates(ok) : SubSeq(e, 1, 2)[tunerCandidates(ok)[i]] = e[tunerCandidates(ok)[i]]
    BY <2>1, <2>2
  <2> HIDE DEF trials
  <2> QED BY <2>3, <2>4, Zenon DEF tunerTrials
<1>7. r.verdict = build_tuner_verdict(trials, 2, drift) BY <1>5
<1>8. drift = tunerDrift(e)
  <2>1. a.repeats >= 2 /\ a.baseline = SubSeq(e, 3, 4) OBVIOUS
  <2> HIDE DEF a
  <2> QED BY <2>1, Zenon DEF tunerDrift
<1> HIDE DEF r, a, trials, drift
<1>9. dispatch(c, e, ok).exit = 0 /\ dispatch(c, e, ok).report = r BY <1>1, <1>2, <1>3, ReportOf
<1> QED BY <1>6, <1>7, <1>8, <1>9

(* The documents among the evidence of throughput-tuner. *)
LEMMA TunerShape ==
  ASSUME NEW g, Shaped("throughput-tuner", g)
  PROVE  /\ DOMAIN g = 1..4 /\ g[1] \in IperfDocument /\ g[2] \in IperfDocument
         /\ g[3] \in Int /\ g[4] \in Int
<1> DEFINE c == "throughput-tuner"
<1>1. Shapes(c) = <<IperfDocument, IperfDocument, Int, Int>> BY Zenon DEF Shapes
<1>2. Len(Shapes(c)) = 4 BY <1>1
<1>3. DOMAIN g = 1..4 /\ \A i \in 1..4 : g[i] \in Shapes(c)[i] BY <1>2, ShapedAt
<1>4. g[1] \in Shapes(c)[1] /\ g[2] \in Shapes(c)[2] /\ g[3] \in Shapes(c)[3] /\ g[4] \in Shapes(c)[4] BY <1>3
<1> QED BY <1>1, <1>3, <1>4

(* The trials, for documents of the shape. *)
LEMMA TunerTrials ==
  ASSUME NEW g, NEW ok, g[1] \in IperfDocument, g[2] \in IperfDocument
  PROVE  /\ Len(tunerCandidates(ok)) \in Nat
         /\ DOMAIN tunerTrials(g, ok) = 1..Len(tunerCandidates(ok))
         /\ \A i \in 1..Len(tunerCandidates(ok)) :
              /\ tunerCandidates(ok)[i] \in {1, 2}
              /\ tunerTrials(g, ok)[i] = evaluate_trial(tunerCandidates(ok)[i], 10, g[tunerCandidates(ok)[i]])
              /\ g[tunerCandidates(ok)[i]] \in IperfDocument
              /\ tunerTrials(g, ok)[i].bps \in Int
<1> DEFINE s == tunerCandidates(ok)
<1>1. s \in Seq({1, 2}) BY TunerCandidates
<1> HIDE DEF s
<1>2. Len(s) \in Nat /\ DOMAIN s = 1..Len(s) /\ \A i \in 1..Len(s) : s[i] \in {1, 2} BY <1>1
<1>3. \A i \in 1..Len(s) : g[s[i]] \in IperfDocument BY <1>2
<1>4. tunerTrials(g, ok) = [i \in DOMAIN s |-> evaluate_trial(s[i], 10, g[s[i]])] BY Zenon DEF tunerTrials, s
<1>5. \A i \in 1..Len(s) : tunerTrials(g, ok)[i] = evaluate_trial(s[i], 10, g[s[i]]) BY <1>2, <1>4
<1>6. \A i \in 1..Len(s) : tunerTrials(g, ok)[i].bps \in Int BY <1>3, <1>5, AcceptedTrial
<1> QED BY <1>2, <1>3, <1>4, <1>5, <1>6 DEF s

(* The maximum of the tuner was received, over the duration asked for. *)
LEMMA MaximumWasReceived ==
  ASSUME NEW g, Shaped("throughput-tuner", g), NEW ok,
         Known(dispatch("throughput-tuner", g, ok).report.verdict.maximum)
  PROVE  \E i \in 1..2 : /\ g[i].sum_received.bps = dispatch("throughput-tuner", g, ok).report.verdict.maximum
                         /\ g[i].sum_received.seconds \in 8..12
<1> DEFINE c == "throughput-tuner"
           s == tunerCandidates(ok)
           t == tunerTrials(g, ok)
           x == dispatch(c, g, ok).report.verdict.maximum
<1>1. DOMAIN g = 1..4 /\ g[1] \in IperfDocument /\ g[2] \in IperfDocument BY TunerShape
<1>2. PICK drift : drift = tunerDrift(g) /\ dispatch(c, g, ok).report.verdict = build_tuner_verdict(t, 2, drift)
  BY <1>1, TunerReport
<1>3. /\ Len(s) \in Nat /\ DOMAIN t = 1..Len(s)
      /\ \A i \in 1..Len(s) : /\ s[i] \in {1, 2} /\ t[i] = evaluate_trial(s[i], 10, g[s[i]])
                              /\ g[s[i]] \in IperfDocument /\ t[i].bps \in Int
  BY <1>1, TunerTrials
<1>4. Known(x) /\ x = build_tuner_verdict(t, 2, drift).maximum BY <1>2
<1> HIDE DEF s, t, x
<1>a. FastestTrial(t, x) BY <1>3, <1>4, TunerMaximum DEF Known
<1>5. PICK i \in acceptedTrials(t) : x = t[i].bps BY <1>a DEF FastestTrial
<1>6. i \in 1..Len(s) /\ t[i].rejected = "none" BY <1>3, <1>5 DEF acceptedTrials
<1>7. s[i] \in 1..2 /\ t[i] = evaluate_trial(s[i], 10, g[s[i]]) /\ g[s[i]] \in IperfDocument BY <1>3, <1>6
<1>8. g[s[i]].sum_received.bps = x /\ g[s[i]].sum_received.seconds \in 8..12 BY <1>5, <1>6, <1>7, AcceptedTrial
<1> QED BY <1>7, <1>8 DEF x

(* A lost answer rejects its trials: the maximum is of fewer. *)
LEMMA TunerWithholds ==
  ASSUME NEW g, NEW ok, Shaped("throughput-tuner", g)
  PROVE  Withholds("throughput-tuner", g, ok)
<1> DEFINE c == "throughput-tuner"
<1>1. DOMAIN g = 1..4 /\ g[1] \in IperfDocument /\ g[2] \in IperfDocument BY TunerShape
<1>2. ASSUME NEW i \in DOMAIN g, NEW m \in LostForms(c, i, g[i]),
             dispatch(c, [g EXCEPT ![i] = m], ok).exit = 0
      PROVE  claims(c, dispatch(c, [g EXCEPT ![i] = m], ok).report) \subseteq claims(c, dispatch(c, g, ok).report)
  <2> DEFINE h == [g EXCEPT ![i] = m]
             s == tunerCandidates(ok)
             t == tunerTrials(g, ok)
             u == tunerTrials(h, ok)
             r == dispatch(c, g, ok).report
             q == dispatch(c, h, ok).report
             x == r.verdict.maximum
             y == q.verdict.maximum
  <2>1. LostForms(c, i, g[i]) = IF i <= 2 THEN {[g[i] EXCEPT !.json = FALSE], [g[i] EXCEPT !.sum_received = Absent]}
                                 ELSE {}
    BY Zenon DEF LostForms
  <2>2. i \in 1..2 /\ DOMAIN h = 1..4 /\ h[i] = m /\ \A j \in 1..4 : j # i => h[j] = g[j] BY <1>1, <2>1
  <2>3. g[i] \in IperfDocument BY <1>1, <2>2
  <2>4. m \in IperfDocument /\ (~m.json \/ m.sum_received = Absent)
    <3>1. Absent \in IperfBlock BY DEF Absent, IperfBlock, Missing
    <3>2. m = [g[i] EXCEPT !.json = FALSE] \/ m = [g[i] EXCEPT !.sum_received = Absent] BY <2>1, <2>2
    <3>3. CASE m = [g[i] EXCEPT !.json = FALSE] BY <2>3, <3>3 DEF IperfDocument
    <3>4. CASE m = [g[i] EXCEPT !.sum_received = Absent] BY <2>3, <3>1, <3>4 DEF IperfDocument
    <3> QED BY <3>2, <3>3, <3>4
  <2> HIDE DEF h
  <2>5. h[1] \in IperfDocument /\ h[2] \in IperfDocument BY <1>1, <2>2, <2>4
  <2>6. PICK d : d = tunerDrift(g) /\ r.verdict = build_tuner_verdict(t, 2, d) BY <1>1, TunerReport
  <2>7. q.verdict = build_tuner_verdict(u, 2, d)
    <3>1. tunerDrift(g) = tunerDrift(h)
      <4>1. SubSeq(g, 3, 4) = SubSeq(h, 3, 4) BY <1>1, <2>2
      <4> QED BY <4>1, Zenon DEF tunerDrift
    <3> QED BY <2>2, <2>6, <3>1, TunerReport
  <2>8. /\ Len(s) \in Nat /\ DOMAIN t = 1..Len(s)
        /\ \A k \in 1..Len(s) : /\ s[k] \in {1, 2} /\ t[k] = evaluate_trial(s[k], 10, g[s[k]])
                                /\ t[k].bps \in Int
    BY <1>1, TunerTrials
  <2>9. /\ DOMAIN u = 1..Len(s)
        /\ \A k \in 1..Len(s) : /\ s[k] \in {1, 2} /\ u[k] = evaluate_trial(s[k], 10, h[s[k]])
                                /\ u[k].bps \in Int
    BY <2>5, TunerTrials
  <2> HIDE DEF s, t, u
  <2>10. ASSUME NEW k \in acceptedTrials(u) PROVE k \in acceptedTrials(t) /\ u[k] = t[k] /\ t[k].bps \in Int
    <3>1. k \in 1..Len(s) /\ u[k].rejected = "none" BY <2>9 DEF acceptedTrials
    <3>2. s[k] \in 1..2 /\ u[k] = evaluate_trial(s[k], 10, h[s[k]]) /\ t[k] = evaluate_trial(s[k], 10, g[s[k]])
          /\ t[k].bps \in Int
      BY <2>8, <2>9, <3>1
    <3>3. s[k] # i
      <4> SUFFICES ASSUME s[k] = i PROVE FALSE OBVIOUS
      <4>1. u[k] = evaluate_trial(s[k], 10, m) BY <2>2, <3>2
      <4> QED BY <2>4, <3>1, <4>1, AcceptedTrial
    <3>4. u[k] = t[k] BY <2>2, <3>2, <3>3
    <3> QED BY <2>8, <3>1, <3>2, <3>4 DEF acceptedTrials
  <2>11. /\ x = build_tuner_verdict(t, 2, d).maximum
         /\ y = build_tuner_verdict(u, 2, d).maximum
         /\ r.verdict.provisional = q.verdict.provisional
    <3>1. \A k, z : build_tuner_verdict(k, 2, z).provisional = (z # <<>> /\ is_severe(z))
      BY Zenon DEF build_tuner_verdict
    <3> QED BY <2>6, <2>7, <3>1, Zenon
  <2> HIDE DEF r, q, x, y
  <2>12. 1..y \subseteq 1..x
    <3>1. CASE acceptedTrials(u) = {}
      <4>a. y = Missing \/ FastestTrial(u, y) BY <2>8, <2>9, <2>11, TunerMaximum
      <4>1. y = Missing BY <3>1, <4>a DEF FastestTrial
      <4>2. 1..y = {} BY <4>1 DEF Missing
      <4> QED BY <4>2
    <3>2. CASE acceptedTrials(u) # {}
      <4>a. FastestTrial(u, y) BY <2>8, <2>9, <2>11, <3>2, TunerMaximum
      <4>1. PICK k \in acceptedTrials(u) : y = u[k].bps BY <4>a DEF FastestTrial
      <4>2. k \in acceptedTrials(t) /\ y = t[k].bps /\ t[k].bps \in Int BY <2>10, <4>1
      <4>3. PICK l \in acceptedTrials(t) : x = t[l].bps /\ \A j \in acceptedTrials(t) : t[j].bps <= t[l].bps
        <5>1. FastestTrial(t, x) BY <2>8, <2>11, <4>2, TunerMaximum
        <5> QED BY <5>1 DEF FastestTrial
      <4>4. l \in 1..Len(s) BY <2>8, <4>3 DEF acceptedTrials
      <4>5. x \in Int /\ y \in Int /\ y <= x BY <2>8, <4>2, <4>3, <4>4
      <4> QED BY <4>5
    <3> QED BY <3>1, <3>2
  <2>13. /\ claims(c, r) = 1..x \cup {k \in {0} : ~r.verdict.provisional}
         /\ claims(c, q) = 1..y \cup {k \in {0} : ~q.verdict.provisional}
    BY Zenon DEF claims, x, y
  <2>14. claims(c, q) \subseteq claims(c, r) BY <2>11, <2>12, <2>13, Zenon
  <2> QED BY <2>14 DEF r, q, h
<1> QED BY <1>2 DEF Withholds

(* Baseline samples that agree are no severe drift. *)
LEMMA SteadyBaseline ==
  ASSUME NEW e, DOMAIN e = 1..4, NEW v \in Int, \A i \in 3..4 : Known(e[i]) => e[i] = v
  PROVE  ~(tunerDrift(e) # <<>> /\ is_severe(tunerDrift(e)))
<1> DEFINE b == SubSeq(e, 3, 4)
           I == {i \in DOMAIN b : Known(b[i])}
           T == {v}
           o == InOrder(b, [i \in DOMAIN b |-> i], I)
<1>1. tunerDrift(e) = o BY DEF tunerDrift, Keep, Where
<1>2. DOMAIN b = 1..2 /\ b[1] = e[3] /\ b[2] = e[4] OBVIOUS
<1>3. o = InOrder(b, [i \in DOMAIN b |-> i], I) OBVIOUS
<1>4. I \subseteq 1..2 /\ \A i \in I : b[i] \in T
  <2> HIDE DEF b
  <2> QED BY <1>2
<1> HIDE DEF b, I, o, T
<1>5. Filters(o, b, 2, I, T) BY <1>2, <1>3, <1>4, Kept
<1>6. o \in Seq({v}) BY <1>5 DEF Filters, T
<1>7. CASE o # <<>>
  <2>1. Range(o) = {v}
    <3>1. Len(o) >= 1 /\ \A k \in DOMAIN o : o[k] = v BY <1>6, <1>7
    <3>2. 1 \in DOMAIN o BY <1>6, <3>1
    <3> QED BY <3>1, <3>2 DEF Range
  <2>2. Max({v}) = v /\ Min({v}) = v
    <3>1. v >= v /\ v <= v OBVIOUS
    <3> QED BY <3>1, Zenon DEF Max, Min
  <2>3. ~(Max(Range(o)) > 0 /\ 4 * (Max(Range(o)) - Min(Range(o))) > Max(Range(o))) BY <2>1, <2>2
  <2> QED BY <1>1, <2>3, Zenon DEF is_severe
<1> QED BY <1>1, <1>7

(* Without one of its baseline samples, the tuner has what it has when     *)
(* both are the other one.                                                 *)
LEMMA TunerReadsAs ==
  ASSUME NEW g, NEW ok, Shaped("throughput-tuner", g)
  PROVE  ReadsAs("throughput-tuner", g, ok)
<1> DEFINE c == "throughput-tuner"
<1>1. /\ DOMAIN g = 1..4 /\ g[1] \in IperfDocument /\ g[2] \in IperfDocument
      /\ g[3] \in Int /\ g[4] \in Int
  BY TunerShape
<1>2. ASSUME NEW i \in DOMAIN g, NEW p \in Unnoticed(c, i, g)
      PROVE  ClaimsOn(c, [g EXCEPT ![i] = p[1]], ok) = ClaimsOn(c, [g EXCEPT ![i] = p[2]], ok)
  <2> DEFINE e == [g EXCEPT ![i] = p[1]]
             f == [g EXCEPT ![i] = p[2]]
             s == tunerCandidates(ok)
             q == dispatch(c, e, ok).report
             r == dispatch(c, f, ok).report
  <2>1. Unnoticed(c, i, g) = IF i >= 3 THEN {<<Missing, g[7 - i]>>} ELSE {} BY Zenon DEF Unnoticed
  <2>2. i \in 3..4 /\ p[1] = Missing /\ p[2] = g[7 - i] /\ 7 - i \in 3..4 /\ 7 - i # i BY <1>1, <2>1
  <2>3. /\ DOMAIN e = 1..4 /\ e[i] = Missing /\ \A j \in 1..4 : j # i => e[j] = g[j]
        /\ DOMAIN f = 1..4 /\ f[i] = g[7 - i] /\ \A j \in 1..4 : j # i => f[j] = g[j]
    BY <1>1, <2>2
  <2> HIDE DEF e, f
  <2>4. PICK v \in Int : v = g[7 - i] BY <1>1, <2>2
  <2>5. \A j \in 3..4 : j = i \/ j = 7 - i BY <2>2
  <2>6. ~Known(Missing) BY DEF Known
  <2>7. ~(tunerDrift(e) # <<>> /\ is_severe(tunerDrift(e)))
    <3>1. \A j \in 3..4 : Known(e[j]) => e[j] = v BY <2>2, <2>3, <2>4, <2>5, <2>6
    <3> QED BY <2>3, <3>1, SteadyBaseline
  <2>8. ~(tunerDrift(f) # <<>> /\ is_severe(tunerDrift(f)))
    <3>1. \A j \in 3..4 : Known(f[j]) => f[j] = v BY <2>2, <2>3, <2>4, <2>5
    <3> QED BY <2>3, <3>1, SteadyBaseline
  <2>9. tunerTrials(e, ok) = tunerTrials(f, ok)
    <3>1. s \in Seq({1, 2}) BY TunerCandidates
    <3>2. e[1] = f[1] /\ e[2] = f[2] BY <2>2, <2>3
    <3> HIDE DEF s
    <3>3. \A j \in DOMAIN s : e[s[j]] = f[s[j]] BY <3>1, <3>2
    <3> QED BY <3>3, Zenon DEF tunerTrials, s
  <2>10. /\ dispatch(c, e, ok).exit = 0 /\ q.verdict = build_tuner_verdict(tunerTrials(e, ok), 2, tunerDrift(e))
         /\ dispatch(c, f, ok).exit = 0 /\ r.verdict = build_tuner_verdict(tunerTrials(f, ok), 2, tunerDrift(f))
    BY <2>3, TunerReport
  <2>11. \A k, d : build_tuner_verdict(k, 2, d).provisional <=> (d # <<>> /\ is_severe(d)) BY DEF build_tuner_verdict
  <2>12. \A k, d, l : build_tuner_verdict(k, 2, d).maximum = build_tuner_verdict(k, 2, l).maximum
    BY Zenon DEF build_tuner_verdict
  <2>13. ~q.verdict.provisional /\ ~r.verdict.provisional /\ q.verdict.maximum = r.verdict.maximum
    <3> HIDE DEF q, r
    <3>1. ~q.verdict.provisional BY <2>7, <2>10, <2>11, Zenon
    <3>2. ~r.verdict.provisional BY <2>8, <2>10, <2>11, Zenon
    <3>3. q.verdict.maximum = r.verdict.maximum BY <2>9, <2>10, <2>12, Zenon
    <3> QED BY <3>1, <3>2, <3>3
  <2>14. \A z : claims(c, z) = 1..z.verdict.maximum \cup {k \in {0} : ~z.verdict.provisional} BY Zenon DEF claims
  <2> HIDE DEF q, r
  <2>15. {k \in {0} : ~q.verdict.provisional} = {k \in {0} : ~r.verdict.provisional} BY <2>13
  <2>16. claims(c, q) = claims(c, r) BY <2>13, <2>14, <2>15, Zenon
  <2>17. ClaimsOn(c, e, ok) = ClaimsOn(c, f, ok) BY <2>10, <2>16, Zenon DEF ClaimsOf, ClaimsOn, q, r
  <2> QED BY <2>17 DEF e, f
<1> QED BY <1>2 DEF ReadsAs

(* An attempt that ended without an answer owes nothing. *)
LEMMA Unmapped ==
  ASSUME NEW b, NEW D, NEW i, b.queue \in Seq(D), b.outcome = "Unreachable", b.addr \in Nat,
         b.txn \in Nat
  PROVE  BindingSound(b, D, i)
<1>1. b.outcome \in StunOutcomes /\ b.outcome # "Mapped" BY DEF StunOutcomes
<1> QED BY <1>1, Zenon DEF BindingSound

(* A request takes the oldest datagram of the queue, and takes its address *)
(* only when the datagram is the answer to this very request.              *)
LEMMA BindingOnce ==
  ASSUME NEW K, NEW D, D \subseteq StunDatagram(K), NEW q \in Seq(D), NEW fate, NEW i \in Nat,
         AnswersIn(D, i, fate)
  PROVE  BindingSound(binding_request_once(q, fate, i), D, i)
<1> DEFINE answer == [kind |-> fate.kind, txn |-> i, addr |-> fate.addr]
           arrives == fate.kind \notin {"send_fails", "lost", "late"}
           late == IF fate.kind = "late" THEN <<[answer EXCEPT !.kind = "mapped"]>> ELSE <<>>
           new == IF arrives THEN <<answer>> ELSE <<>>
           inbox == q \o new
           result == parse_binding_response(Head(inbox), i)
           b == binding_request_once(q, fate, i)
<1>1. answer \in D /\ [answer EXCEPT !.kind = "mapped"] \in D
  <2>1. [answer EXCEPT !.kind = "mapped"] = [kind |-> "mapped", txn |-> i, addr |-> fate.addr] OBVIOUS
  <2>2. [kind |-> "mapped", txn |-> i, addr |-> fate.addr] \in D /\ answer \in D BY Zenon DEF AnswersIn
  <2> QED BY <2>1, <2>2
<1>2. late \in Seq(D) /\ new \in Seq(D)
  <2> HIDE DEF answer
  <2> QED BY <1>1
<1>3. b = CASE fate.kind = "send_fails" ->
                 [queue |-> q, outcome |-> "Unreachable", addr |-> 0, txn |-> 0]
            [] fate.kind # "send_fails" /\ inbox = <<>> ->
                 [queue |-> late, outcome |-> "Unreachable", addr |-> 0, txn |-> 0]
            [] OTHER ->
                 [queue |-> Tail(inbox) \o late,
                  outcome |-> IF result = "Mapped" THEN "Mapped" ELSE "Invalid",
                  addr |-> Head(inbox).addr, txn |-> Head(inbox).txn]
  BY DEF binding_request_once
<1> HIDE DEF late, new, answer, b
<1>4. inbox \in Seq(D) BY <1>2
<1> HIDE DEF inbox
<1>5. ASSUME fate.kind = "send_fails" PROVE BindingSound(b, D, i)
  <2>1. b = [queue |-> q, outcome |-> "Unreachable", addr |-> 0, txn |-> 0] BY <1>3, <1>5
  <2>2. b.queue = q /\ b.outcome = "Unreachable" /\ b.addr \in Nat /\ b.txn \in Nat BY <2>1
  <2> QED BY <2>2, Unmapped
<1>6. ASSUME fate.kind # "send_fails" /\ inbox = <<>> PROVE BindingSound(b, D, i)
  <2>1. b = [queue |-> late, outcome |-> "Unreachable", addr |-> 0, txn |-> 0] BY <1>3, <1>6
  <2>2. b.queue = late /\ b.outcome = "Unreachable" /\ b.addr \in Nat /\ b.txn \in Nat BY <2>1
  <2> QED BY <1>2, <2>2, Unmapped
<1>7. ASSUME fate.kind # "send_fails" /\ inbox # <<>> PROVE BindingSound(b, D, i)
  <2> DEFINE h == Head(inbox)
             t == Tail(inbox)
  <2>1. h \in D /\ t \in Seq(D) BY <1>4, <1>7
  <2>2. b = [queue |-> t \o late, outcome |-> IF result = "Mapped" THEN "Mapped" ELSE "Invalid",
             addr |-> h.addr, txn |-> h.txn]
    BY <1>3, <1>7
  <2> HIDE DEF h, t
  <2>3. t \o late \in Seq(D) BY <1>2, <2>1
  <2>4. h.txn \in Nat /\ h.addr \in Nat BY <2>1 DEF StunDatagram
  <2>5. result = "Mapped" => h.txn = i BY DEF parse_binding_response, h
  <2> HIDE DEF result
  <2> DEFINE w == t \o late
  <2> HIDE DEF w
  <2>6. b.queue = w /\ b.outcome \in {"Mapped", "Invalid"} /\ b.addr = h.addr /\ b.txn = h.txn BY <2>2 DEF w
  <2>7. b.outcome = "Mapped" => h.txn = i BY <2>2, <2>5
  <2>8. w \in Seq(D) BY <2>3 DEF w
  <2>9. b.queue \in Seq(D) /\ b.outcome \in StunOutcomes /\ b.addr \in Nat /\ b.txn \in Nat
    BY <2>4, <2>6, <2>8 DEF StunOutcomes
  <2>10. b.outcome = "Mapped" => \E d \in D : b.txn = d.txn /\ b.addr = d.addr /\ d.txn = i BY <2>1, <2>6, <2>7, Zenon
  <2> QED BY <2>9, <2>10 DEF BindingSound
<1>8. BindingSound(b, D, i) BY <1>5, <1>6, <1>7
<1> QED BY <1>8 DEF b

(* One binding attempt keeps the type of the socket and the attempts. *)
LEMMA BindingStepTyped ==
  ASSUME NEW n \in Nat, NEW K, NEW fates, StunFates(K, fates, n),
         NEW st \in [queue : Seq(StunDatagram(K)), done : Seq(StunAttempt)], NEW i \in 1..n
  PROVE  bindingStep(fates, st, i) \in [queue : Seq(StunDatagram(K)), done : Seq(StunAttempt)]
<1> DEFINE b == binding_request_once(st.queue, fates[i], i)
           D == StunDatagram(K)
           f == fates[i]
           q == st.queue
           m == [outcome |-> b.outcome, addr |-> b.addr, txn |-> b.txn]
<1>1. /\ q \in Seq(D) /\ i \in Nat /\ D \subseteq StunDatagram(K)
      /\ "mapped" \in K /\ f.kind \in K /\ f.addr \in Nat
  BY DEF StunFates
<1>2. AnswersIn(D, i, f) BY <1>1 DEF StunDatagram, AnswersIn
<1> HIDE DEF D, f, q
<1>3. BindingSound(b, D, i) BY <1>1, <1>2, BindingOnce DEF f, q
<1> HIDE DEF b
<1>4. b.queue \in Seq(D) /\ b.outcome \in StunOutcomes /\ b.addr \in Nat /\ b.txn \in Nat BY <1>3 DEF BindingSound
<1>5. m \in StunAttempt BY <1>4 DEF StunAttempt
<1> HIDE DEF m
<1>6. st.done \in Seq(StunAttempt) OBVIOUS
<1>7. Append(st.done, m) \in Seq(StunAttempt) BY <1>5, <1>6
<1>8. bindingStep(fates, st, i) = [queue |-> b.queue, done |-> Append(st.done, m)] BY DEF bindingStep, b, m
<1> QED BY <1>4, <1>7, <1>8 DEF D

(* One more attempt keeps every mapped address its own. *)
LEMMA BindingStepOwn ==
  ASSUME NEW n \in Nat, NEW K, NEW fates, StunFates(K, fates, n), NEW k \in 0..(n - 1),
         NEW st, OwnAttempts(K, fates, st, k)
  PROVE  OwnAttempts(K, fates, bindingStep(fates, st, k + 1), k + 1)
<1> DEFINE i == k + 1
           b == binding_request_once(st.queue, fates[i], i)
           D == OwnDatagrams(K, fates, i)
           f == fates[i]
           q == st.queue
           m == [outcome |-> b.outcome, addr |-> b.addr, txn |-> b.txn]
           s == bindingStep(fates, st, i)
<1>1. /\ k \in Nat /\ i \in 1..n /\ i \in Nat /\ 1..i = 1..k \cup {i}
      /\ "mapped" \in K /\ f.kind \in K /\ f.addr \in Nat
  BY DEF StunFates
<1>2. OwnDatagrams(K, fates, k) \subseteq D /\ D \subseteq StunDatagram(K) BY <1>1 DEF OwnDatagrams
<1>3. q \in Seq(OwnDatagrams(K, fates, k)) BY DEF OwnAttempts
<1>4. q \in Seq(D)
  <2> HIDE DEF D, q
  <2> QED BY <1>2, <1>3
<1>5. AnswersIn(D, i, f) BY <1>1 DEF OwnDatagrams, StunDatagram, AnswersIn
<1>6. \A d \in D : d.txn = i => d.addr = fates[i].addr BY DEF OwnDatagrams
<1> HIDE DEF D, f, q, i
<1>a. BindingSound(b, D, i) BY <1>1, <1>2, <1>4, <1>5, BindingOnce DEF f, q
<1> HIDE DEF b
<1>7. b.queue \in Seq(D) /\ b.outcome \in StunOutcomes /\ b.addr \in Nat /\ b.txn \in Nat BY <1>a DEF BindingSound
<1>9. b.outcome = "Mapped" => \E d \in D : b.txn = d.txn /\ b.addr = d.addr /\ d.txn = i BY <1>a DEF BindingSound
<1>10. m \in StunAttempt /\ (m.outcome = "Mapped" => m.txn = i /\ m.addr = fates[i].addr)
  BY <1>6, <1>7, <1>9 DEF StunAttempt
<1> HIDE DEF m
<1>11. s = [queue |-> b.queue, done |-> Append(st.done, m)] BY DEF bindingStep, b, m
<1>12. /\ st.done \in Seq(StunAttempt) /\ Len(st.done) = k
       /\ \A j \in 1..k : st.done[j].outcome = "Mapped" =>
            st.done[j].txn = j /\ st.done[j].addr = fates[j].addr
  BY DEF OwnAttempts
<1> DEFINE d == st.done
           e == Append(d, m)
<1>13. s.queue = b.queue /\ s.done = e BY <1>11
<1>14. d \in Seq(StunAttempt) /\ Len(d) = k BY <1>12
<1> HIDE DEF s, d
<1>15. e \in Seq(StunAttempt) /\ Len(e) = i /\ e[i] = m /\ \A j \in 1..k : e[j] = d[j] BY <1>1, <1>10, <1>14 DEF i
<1> HIDE DEF e
<1>16. ASSUME NEW j \in 1..i, e[j].outcome = "Mapped" PROVE e[j].txn = j /\ e[j].addr = fates[j].addr
  <2>1. CASE j \in 1..k BY <1>12, <1>15, <1>16, <2>1 DEF d
  <2>2. CASE j = i BY <1>10, <1>15, <1>16, <2>2
  <2> QED BY <1>1, <2>1, <2>2
<1>17. OwnAttempts(K, fates, s, i) BY <1>7, <1>13, <1>15, <1>16 DEF OwnAttempts, D
<1> QED BY <1>17 DEF s, i

(* However late the answers to earlier requests arrive on the socket. *)
LEMMA BindingsAreOwn ==
  ASSUME NEW n \in Nat, NEW K, NEW fates, DOMAIN fates = 1..n, StunFates(K, fates, n)
  PROVE  \E st : st.done = run_binding_attempts(fates) /\ OwnAttempts(K, fates, st, n)
<1> DEFINE T == [queue : Seq(StunDatagram(K)), done : Seq(StunAttempt)]
           base == [queue |-> <<>>, done |-> <<>>]
           x == [i \in DOMAIN fates |-> i]
           step(st, i) == bindingStep(fates, st, i)
           G == [p \in T \X (1..n) |-> bindingStep(fates, p[1], p[2])]
           E(F) == F = [t \in SUBSET (1..n) |->
                          IF t = {} THEN base ELSE bindingStep(fates, F[t \ {Max(t)}], x[Max(t)])]
           iter == CHOOSE F : E(F)
<1>0. base \in T /\ DOMAIN x = 1..n /\ Len(x) = n /\ \A i \in 1..n : x[i] = i OBVIOUS
<1>1. \A st \in T, i \in 1..n : bindingStep(fates, st, i) \in T BY BindingStepTyped
<1>a. G \in [T \X (1..n) -> T]
  <2> HIDE DEF T
  <2> QED BY <1>1
<1>2. \A st \in T, i \in 1..n : G[<<st, i>>] = bindingStep(fates, st, i) OBVIOUS
<1>3. run_binding_attempts(fates) = iter[1..n].done
  <2>1. run_binding_attempts(fates)
          = FoldLeft(LAMBDA st, i : bindingStep(fates, st, i), base, x).done
    BY Zenon DEF run_binding_attempts, bindingStep
  <2> HIDE DEF x, base
  <2>2. FoldLeft(LAMBDA st, i : bindingStep(fates, st, i), base, x) = iter[1..n]
    BY <1>0, Zenon DEF FoldLeft, MapThenFoldSet
  <2> QED BY <2>1, <2>2, Zenon
<1> HIDE DEF G, T, base, x
<1>4. \E F : E(F)
  <2>1. PICK F : Solves(F, n, T, base, G) BY <1>0, <1>a, FoldSolves
  <2>2. ASSUME NEW t \in SUBSET (1..n)
        PROVE  F[t] = IF t = {} THEN base ELSE bindingStep(fates, F[t \ {Max(t)}], x[Max(t)])
    <3>1. CASE t = {} BY <2>1, <3>1 DEF Solves
    <3>2. CASE t # {}
      <4>1. Max(t) \in 1..n /\ t \ {Max(t)} \in SUBSET (1..n) BY <3>2, TopOf
      <4>2. F[t \ {Max(t)}] \in T /\ F[t] = G[<<F[t \ {Max(t)}], Max(t)>>] BY <2>1, <3>2, <4>1 DEF Solves
      <4>3. F[t] = bindingStep(fates, F[t \ {Max(t)}], Max(t)) /\ x[Max(t)] = Max(t) BY <1>0, <1>2, <4>1, <4>2
      <4> QED BY <3>2, <4>3
    <3> QED BY <3>1, <3>2
  <2>3. F = [t \in SUBSET (1..n) |-> F[t]] BY <2>1 DEF Solves
  <2>4. E(F) BY <2>2, <2>3
  <2> QED BY <2>4
<1>5. E(iter)
  <2> HIDE DEF E
  <2> QED BY <1>4
<1> HIDE DEF iter
<1>6. Obeys(iter, n, T, base, G)
  <2>1. iter[{}] = base BY <1>5
  <2>2. ASSUME NEW t \in SUBSET (1..n), t # {}, iter[t \ {Max(t)}] \in T
        PROVE  iter[t] = G[<<iter[t \ {Max(t)}], Max(t)>>]
    <3>1. Max(t) \in 1..n BY <2>2, TopOf
    <3>2. iter[t] = bindingStep(fates, iter[t \ {Max(t)}], x[Max(t)]) BY <1>5, <2>2
    <3>3. x[Max(t)] = Max(t) BY <1>0, <3>1
    <3> QED BY <1>2, <2>2, <3>1, <3>2, <3>3
  <2> QED BY <2>1, <2>2 DEF Obeys
<1> HIDE DEF E
<1>7. PICK a : Traces(a, n, T, base, G, iter[1..n]) BY <1>0, <1>a, <1>6, FoldTrace
<1>8. a \in [0..n -> T] /\ a[0] = base /\ a[n] = iter[1..n] BY <1>7 DEF Traces
<1>9. ASSUME NEW k \in 0..(n - 1) PROVE a[k + 1] = bindingStep(fates, a[k], k + 1)
  <2>1. a[k + 1] = G[<<a[k], k + 1>>] BY <1>7 DEF Traces
  <2>2. a[k] \in T /\ k + 1 \in 1..n BY <1>0, <1>8
  <2> QED BY <1>2, <2>1, <2>2
<1> DEFINE S == {k \in 0..n : OwnAttempts(K, fates, a[k], k)}
<1>10. 0 \in S
  <2>1. OwnAttempts(K, fates, base, 0) BY DEF OwnAttempts, base
  <2> QED BY <1>0, <1>8, <2>1
<1>11. ASSUME NEW k \in 0..(n - 1), k \in S PROVE k + 1 \in S
  <2>1. OwnAttempts(K, fates, a[k], k) BY <1>11
  <2>2. OwnAttempts(K, fates, bindingStep(fates, a[k], k + 1), k + 1) BY <2>1, BindingStepOwn
  <2>3. k + 1 \in 0..n OBVIOUS
  <2> QED BY <1>9, <2>2, <2>3
<1>12. \A k \in 0..n : k \in S
  <2> HIDE DEF S
  <2> QED BY <1>10, <1>11, UpTo
<1>13. n \in 0..n OBVIOUS
<1>14. OwnAttempts(K, fates, a[n], n) BY <1>12, <1>13
<1>15. a[n].done = run_binding_attempts(fates) BY <1>3, <1>8
<1> QED BY <1>14, <1>15

(* stun-turn reports only addresses that answer their own requests. *)
LEMMA MappedByTheirAnswers ==
  ASSUME NEW g, Shaped("stun-turn", g), NEW ok, dispatch("stun-turn", g, ok).exit = 0,
         NEW i \in DOMAIN dispatch("stun-turn", g, ok).report.bindings,
         dispatch("stun-turn", g, ok).report.bindings[i].outcome = "Mapped"
  PROVE  /\ dispatch("stun-turn", g, ok).report.bindings[i].txn = i
         /\ dispatch("stun-turn", g, ok).report.bindings[i].addr = g[i].addr
<1> DEFINE c == "stun-turn"
           Relay == [asked : BOOLEAN, resolves : BOOLEAN, transport : STRING, socket : BOOLEAN,
                     credentials : BOOLEAN, first : TurnAnswer, second : TurnAnswer]
           f == SubSeq(g, 1, 3)
           K == {"mapped"} \cup {f[j].kind : j \in 1..3}
           b == run_binding_attempts(f)
           a == [resolves |-> ok, bound |-> TRUE, fates |-> f, turn |-> g[4]]
           r == [bindings |-> b, change |-> mapping_change_verdict(b), turn |-> run_turn(a.turn)]
<1>1. Shapes(c) = [j \in 1..3 |-> StunFate] \o <<Relay>> BY Zenon DEF Shapes
<1> HIDE DEF Relay
<1>2. Len(Shapes(c)) = 4 /\ \A j \in 1..3 : Shapes(c)[j] = StunFate BY <1>1
<1>3. DOMAIN g = 1..4 /\ \A j \in 1..4 : g[j] \in Shapes(c)[j] BY <1>2, ShapedAt
<1>4. \A j \in 1..3 : g[j] \in StunFate BY <1>2, <1>3
<1>5. DOMAIN f = 1..3 /\ \A j \in 1..3 : f[j] = g[j] BY <1>3
<1>6. dispatch(c, g, ok) = packet_report(c, g, ok)
  BY Zenon DEF dispatch, LoadCommands, StreamCommands, ComparisonCommands, EvidenceCommands,
             ControlCommands, PathCommands, PacketCommands, DiagnosisCommands
<1>7. packet_report(c, g, ok) = stun_run(a) BY Zenon DEF packet_report
<1> HIDE DEF f, b
<1>8. stun_run(a) \in {Refusal(1), Completed(r)} BY DEF stun_run, b
<1> HIDE DEF a, r
<1>9. dispatch(c, g, ok).report = r BY <1>6, <1>7, <1>8, ReportOf DEF Refusal
<1>10. r.bindings = b BY DEF r
<1>11. PICK st : st.done = b /\ OwnAttempts(K, f, st, 3)
  <2>1. StunFates(K, f, 3) BY <1>4, <1>5 DEF StunFates, StunFate
  <2> QED BY <1>5, <2>1, BindingsAreOwn DEF b
<1>12. DOMAIN b = 1..3 /\ \A j \in 1..3 : b[j].outcome = "Mapped" => b[j].txn = j /\ b[j].addr = f[j].addr
  BY <1>11 DEF OwnAttempts
<1>13. i \in 1..3 /\ b[i].outcome = "Mapped" BY <1>9, <1>10, <1>12
<1> QED BY <1>5, <1>9, <1>10, <1>12, <1>13

(* One line of the listing keeps the type of the reader. *)
LEMMA AirportLineTyped ==
  ASSUME NEW acc \in RadioState, NEW l \in AirportLine
  PROVE  airport_line(acc, l) \in RadioState
<1> DEFINE s == acc.snap
           Snap == [associated : BOOLEAN, phy_mode : STRING \cup {"none"}, band : STRING \cup {"none"},
                    channel : Int, width : Int, rssi : Int, noise : Int]
           next == section_after(acc.current, l.key)
           t == CASE l.key = "Status" -> [s EXCEPT !.associated = l.associated]
                [] l.key = "PHY" /\ acc.current -> [s EXCEPT !.phy_mode = l.phy]
                [] l.key = "Channel" /\ acc.current ->
                     [s EXCEPT !.channel = l.channel,
                               !.band  = IF l.band = "none" THEN @ ELSE l.band,
                               !.width = IF Known(l.width) THEN l.width ELSE @]
                [] l.key = "Signal" /\ acc.current ->
                     [s EXCEPT !.rssi = l.rssi, !.noise = l.noise]
                [] OTHER -> s
<1>1. airport_line(acc, l) = [snap |-> t, current |-> next] BY DEF airport_line
<1>2. s \in Snap /\ acc.current \in BOOLEAN BY DEF RadioState
<1>3. next \in BOOLEAN BY DEF section_after
<1> HIDE DEF s
<1>4. /\ l.key = "Status" => l.associated \in BOOLEAN
      /\ l.key = "PHY" => l.phy \in STRING
      /\ l.key = "Channel" => l.channel \in Int /\ l.band \in STRING /\ l.width \in Int
      /\ l.key = "Signal" => l.rssi \in Int /\ l.noise \in Int
  BY DEF AirportLine
<1>5. CASE l.key = "Status"
  <2>1. t = [s EXCEPT !.associated = l.associated] BY <1>5
  <2>2. t \in Snap
    <3> HIDE DEF t
    <3> QED BY <1>2, <1>4, <1>5, <2>1
  <2> QED BY <1>1, <1>3, <2>2 DEF RadioState
<1>6. CASE l.key = "PHY" /\ acc.current
  <2>1. t = [s EXCEPT !.phy_mode = l.phy] BY <1>6
  <2>2. t \in Snap
    <3> HIDE DEF t
    <3> QED BY <1>2, <1>4, <1>6, <2>1
  <2> QED BY <1>1, <1>3, <2>2 DEF RadioState
<1>7. CASE l.key = "Channel" /\ acc.current
  <2> DEFINE x == IF l.band = "none" THEN s.band ELSE l.band
             y == IF Known(l.width) THEN l.width ELSE s.width
  <2>1. t = [s EXCEPT !.channel = l.channel, !.band = x, !.width = y] BY <1>7
  <2>2. x \in STRING \cup {"none"} /\ y \in Int BY <1>2, <1>4, <1>7
  <2>3. t \in Snap
    <3> HIDE DEF t, x, y
    <3> QED BY <1>2, <1>4, <1>7, <2>1, <2>2
  <2> QED BY <1>1, <1>3, <2>3 DEF RadioState
<1>8. CASE l.key = "Signal" /\ acc.current
  <2>1. t = [s EXCEPT !.rssi = l.rssi, !.noise = l.noise] BY <1>8
  <2>2. t \in Snap
    <3> HIDE DEF t
    <3> QED BY <1>2, <1>4, <1>8, <2>1
  <2> QED BY <1>1, <1>3, <2>2 DEF RadioState
<1>9. CASE ~(l.key = "Status") /\ ~(l.key \in {"PHY", "Channel", "Signal"} /\ acc.current)
  <2>1. t = s BY <1>9
  <2>2. t \in Snap
    <3> HIDE DEF t
    <3> QED BY <1>2, <2>1
  <2> QED BY <1>1, <1>3, <2>2 DEF RadioState
<1> QED BY <1>5, <1>6, <1>7, <1>8, <1>9

(* A line changes the signal only in the section of the current network. *)
LEMMA AirportLineRssi ==
  ASSUME NEW acc \in RadioState, NEW l \in AirportLine
  PROVE  /\ airport_line(acc, l).current <=> l.key = "Current" \/ (acc.current /\ l.key # "Other")
         /\ ~(l.key = "Signal" /\ acc.current) => airport_line(acc, l).snap.rssi = acc.snap.rssi
<1>1. airport_line(acc, l).current = section_after(acc.current, l.key) BY DEF airport_line
<1>2. ASSUME ~(l.key = "Signal" /\ acc.current) PROVE airport_line(acc, l).snap.rssi = acc.snap.rssi
  <2> DEFINE s == acc.snap
  <2>1. s = [associated |-> s.associated, phy_mode |-> s.phy_mode, band |-> s.band,
             channel |-> s.channel, width |-> s.width, rssi |-> s.rssi, noise |-> s.noise]
    BY DEF RadioState
  <2> DEFINE u == [s EXCEPT !.associated = l.associated]
             v == [s EXCEPT !.phy_mode = l.phy]
             w == [s EXCEPT !.channel = l.channel,
                            !.band  = IF l.band = "none" THEN @ ELSE l.band,
                            !.width = IF Known(l.width) THEN l.width ELSE @]
  <2>2. airport_line(acc, l).snap \in {u, v, w, s} BY <1>2 DEF airport_line
  <2>3. u.rssi = s.rssi /\ v.rssi = s.rssi /\ w.rssi = s.rssi BY <2>1
  <2> HIDE DEF u, v, w
  <2> QED BY <2>2, <2>3
<1> QED BY <1>1, <1>2 DEF section_after

(* One more line keeps the signal that of the current network. *)
LEMMA RadioNext ==
  ASSUME NEW n \in Nat, NEW lines, \A i \in 1..n : lines[i] \in AirportLine, NEW k \in 0..(n - 1),
         NEW acc \in RadioState, RadioShows(acc, lines, k)
  PROVE  RadioShows(airport_line(acc, lines[k + 1]), lines, k + 1)
<1> DEFINE l == lines[k + 1]
           b == airport_line(acc, l)
<1>1. k \in Nat /\ k + 1 \in 1..n /\ l \in AirportLine OBVIOUS
<1>2. /\ b.current <=> l.key = "Current" \/ (acc.current /\ l.key # "Other")
      /\ ~(l.key = "Signal" /\ acc.current) => b.snap.rssi = acc.snap.rssi
  BY <1>1, AirportLineRssi
<1>3. acc.current => \E i \in 1..k : CurrentSince(lines, i, k) BY DEF RadioShows
<1>4. Known(acc.snap.rssi) => SignalListed(lines, k) BY DEF RadioShows
<1> HIDE DEF b
<1>a. ASSUME NEW i \in 1..k, CurrentSince(lines, i, k), l.key # "Other"
      PROVE  CurrentSince(lines, i, k + 1)
  <2>1. i..(k + 1) = i..k \cup {k + 1} BY <1>1
  <2> QED BY <1>a, <2>1 DEF CurrentSince
<1>5. ASSUME b.current PROVE \E i \in 1..(k + 1) : CurrentSince(lines, i, k + 1)
  <2>1. CASE l.key = "Current"
    <3>1. (k + 1)..(k + 1) = {k + 1} /\ k + 1 \in 1..(k + 1) BY <1>1
    <3>2. CurrentSince(lines, k + 1, k + 1) BY <2>1, <3>1 DEF CurrentSince
    <3> QED BY <3>1, <3>2
  <2>2. CASE acc.current /\ l.key # "Other"
    <3>1. PICK i \in 1..k : CurrentSince(lines, i, k) BY <1>3, <2>2
    <3>2. i \in 1..(k + 1) /\ CurrentSince(lines, i, k + 1) BY <1>1, <1>a, <2>2, <3>1
    <3> QED BY <3>2
  <2> QED BY <1>2, <1>5, <2>1, <2>2
<1>6. ASSUME Known(b.snap.rssi) PROVE SignalListed(lines, k + 1)
  <2>1. CASE l.key = "Signal" /\ acc.current
    <3>1. PICK i \in 1..k : CurrentSince(lines, i, k) BY <1>3, <2>1
    <3>2. i \in 1..(k + 1) /\ k + 1 \in 1..(k + 1) /\ i < k + 1 BY <1>1
    <3>3. CurrentSince(lines, i, k + 1) BY <1>a, <2>1, <3>1
    <3> QED BY <2>1, <3>2, <3>3 DEF SignalListed
  <2>2. CASE ~(l.key = "Signal" /\ acc.current)
    <3>1. SignalListed(lines, k) BY <1>2, <1>4, <1>6, <2>2
    <3>2. \A i \in 1..k : i \in 1..(k + 1) BY <1>1
    <3> QED BY <3>1, <3>2 DEF SignalListed
  <2> QED BY <2>1, <2>2
<1>7. RadioShows(b, lines, k + 1) BY <1>5, <1>6 DEF RadioShows
<1> QED BY <1>7 DEF b

(* A signal that parse_airport_text found was listed for the current       *)
(* network.                                                                *)
LEMMA AirportSignal ==
  ASSUME NEW n \in Nat, NEW lines, DOMAIN lines = 1..n, \A i \in 1..n : lines[i] \in AirportLine
  PROVE  Known(parse_airport_text(lines).rssi) => SignalListed(lines, n)
<1> DEFINE T == RadioState
           base == [snap |-> Unavailable, current |-> FALSE]
           G == [p \in T \X (1..n) |-> airport_line(p[1], lines[p[2]])]
           E(F) == F = [t \in SUBSET (1..n) |->
                          IF t = {} THEN base ELSE airport_line(F[t \ {Max(t)}], lines[Max(t)])]
           iter == CHOOSE F : E(F)
           r == iter[1..n]
<1>0. base \in T /\ Len(lines) = n BY DEF RadioState, Unavailable, Missing
<1>1. \A x \in T, i \in 1..n : airport_line(x, lines[i]) \in T BY AirportLineTyped
<1>a. G \in [T \X (1..n) -> T]
  <2> HIDE DEF T
  <2> QED BY <1>1
<1>2. \A x \in T, i \in 1..n : G[<<x, i>>] = airport_line(x, lines[i]) OBVIOUS
<1>3. parse_airport_text(lines) =
        [r.snap EXCEPT !.associated = @ \/ r.snap.phy_mode # "none" \/ Known(r.snap.channel)]
  BY <1>0 DEF parse_airport_text, FoldLeft, MapThenFoldSet
<1> HIDE DEF G, T, base
<1>4. \E F : E(F)
  <2>1. PICK F : Solves(F, n, T, base, G) BY <1>0, <1>a, FoldSolves
  <2>2. ASSUME NEW t \in SUBSET (1..n)
        PROVE  F[t] = IF t = {} THEN base ELSE airport_line(F[t \ {Max(t)}], lines[Max(t)])
    BY <1>0, <1>2, <2>1, TopOf DEF Solves
  <2>3. F = [t \in SUBSET (1..n) |-> F[t]] BY <2>1 DEF Solves
  <2>4. E(F) BY <2>2, <2>3
  <2> QED BY <2>4
<1>5. E(iter)
  <2> HIDE DEF E
  <2> QED BY <1>4
<1> HIDE DEF iter
<1>6. Obeys(iter, n, T, base, G) BY <1>0, <1>2, <1>5, TopOf DEF Obeys
<1> HIDE DEF E
<1>7. PICK a : Traces(a, n, T, base, G, iter[1..n]) BY <1>0, <1>a, <1>6, FoldTrace
<1>8. a \in [0..n -> T] /\ a[0] = base /\ a[n] = r BY <1>7 DEF Traces
<1>9. ASSUME NEW k \in 0..(n - 1) PROVE a[k + 1] = airport_line(a[k], lines[k + 1])
  <2>1. a[k + 1] = G[<<a[k], k + 1>>] BY <1>7 DEF Traces
  <2>2. a[k] \in T /\ k + 1 \in 1..n BY <1>0, <1>8
  <2> QED BY <1>2, <2>1, <2>2
<1> DEFINE S == {k \in 0..n : RadioShows(a[k], lines, k)}
<1>10. 0 \in S
  <2>1. RadioShows(base, lines, 0)
    <3>1. base.current = FALSE /\ ~Known(base.snap.rssi) BY DEF base, Unavailable, Known
    <3> QED BY <3>1 DEF RadioShows
  <2> QED BY <1>0, <1>8, <2>1
<1>11. ASSUME NEW k \in 0..(n - 1), k \in S PROVE k + 1 \in S
  <2>1. RadioShows(a[k], lines, k) /\ a[k] \in RadioState BY <1>8, <1>11 DEF T
  <2>2. RadioShows(airport_line(a[k], lines[k + 1]), lines, k + 1) BY <2>1, RadioNext
  <2>3. k + 1 \in 0..n OBVIOUS
  <2> QED BY <1>9, <2>2, <2>3
<1>12. \A k \in 0..n : k \in S
  <2> HIDE DEF S
  <2> QED BY <1>10, <1>11, UpTo
<1>13. n \in 0..n OBVIOUS
<1>14. RadioShows(r, lines, n) /\ r \in RadioState BY <1>8, <1>12, <1>13 DEF T
<1> HIDE DEF r
<1>15. parse_airport_text(lines).rssi = r.snap.rssi
  <2> DEFINE s == r.snap
             x == s.associated \/ s.phy_mode # "none" \/ Known(s.channel)
  <2>1. s = [associated |-> s.associated, phy_mode |-> s.phy_mode, band |-> s.band,
             channel |-> s.channel, width |-> s.width, rssi |-> s.rssi, noise |-> s.noise]
    BY <1>14 DEF RadioState
  <2>2. parse_airport_text(lines) = [s EXCEPT !.associated = x] BY <1>3
  <2> HIDE DEF s, x
  <2>3. [s EXCEPT !.associated = x].rssi = s.rssi BY <2>1
  <2> QED BY <2>2, <2>3 DEF s
<1> QED BY <1>14, <1>15 DEF RadioShows

(* radio-diagnostic reports the signal of the current network. *)
LEMMA SignalIsTheCurrentOne ==
  ASSUME NEW g, Shaped("radio-diagnostic", g), NEW ok,
         Known(dispatch("radio-diagnostic", g, ok).report.rssi),
         dispatch("radio-diagnostic", g, ok).report.note # "none"
  PROVE  \E i, k \in 1..4 :
           /\ i < k /\ g[i].key = "Current" /\ g[k].key = "Signal"
           /\ \A j \in i..k : g[j].key # "Other"
<1> DEFINE c == "radio-diagnostic"
           l == SubSeq(g, 1, 4)
           a == [tool |-> ok, lines |-> l, wdutil |-> g[5]]
           base == snapshot_live(ok, l)
           w == wdutil_snapshot(g[5])
           r == dispatch(c, g, ok).report
<1>1. Shapes(c) = [i \in 1..4 |-> AirportLine] \o <<WdutilAnswer>> BY Zenon DEF Shapes
<1>2. Len(Shapes(c)) = 5 /\ \A i \in 1..4 : Shapes(c)[i] = AirportLine BY <1>1
<1>3. DOMAIN g = 1..5 /\ \A i \in 1..5 : g[i] \in Shapes(c)[i] BY <1>2, ShapedAt
<1>4. DOMAIN l = 1..4 /\ \A i \in 1..4 : l[i] = g[i] /\ l[i] \in AirportLine BY <1>2, <1>3
<1>5. dispatch(c, g, ok) = evidence_report(c, g, ok) BY Routes DEF EvidenceCommands
<1>6. evidence_report(c, g, ok) = radio_diagnostic_run(a) BY Zenon DEF evidence_report
<1>7. radio_diagnostic_run(a) = Completed(build_diagnostic(base, w)) BY DEF radio_diagnostic_run
<1> HIDE DEF a, l
<1>8. r = build_diagnostic(base, w) BY <1>5, <1>6, <1>7, ReportOf
<1> HIDE DEF base, w, r
<1>9. r.note = w.error /\ r.rssi = IF w.error = "none" /\ Known(w.fields["rssi"]) THEN w.fields["rssi"] ELSE base["rssi"]
  BY <1>8 DEF build_diagnostic
<1>10. r.rssi = base.rssi /\ Known(base.rssi)
  <2>1. Known(r.rssi) /\ r.note # "none" BY DEF r
  <2> QED BY <1>9, <2>1
<1>11. base = parse_airport_text(l)
  <2>1. base \in {parse_airport_text(l), Unavailable} BY DEF base, snapshot_live
  <2>2. ~Known(Unavailable.rssi) BY DEF Unavailable, Known
  <2> QED BY <1>10, <2>1, <2>2
<1>12. SignalListed(l, 4)
  <2>1. Known(parse_airport_text(l).rssi) BY <1>10, <1>11
  <2> QED BY <1>4, <2>1, AirportSignal
<1>13. PICK i \in 1..4, k \in 1..4 : i < k /\ l[k].key = "Signal" /\ CurrentSince(l, i, k) BY <1>12 DEF SignalListed
<1>14. \A j \in i..k : j \in 1..4 OBVIOUS
<1>15. g[i].key = "Current" /\ g[k].key = "Signal" /\ \A j \in i..k : g[j].key # "Other"
  BY <1>4, <1>13, <1>14 DEF CurrentSince
<1> QED BY <1>13, <1>15

(* Every figure is its measurement's own: a mapped address answers its own *)
(* request, a clock that permits one-way claims is within the skew, a      *)
(* signal is that of the current network, "no drops" is said of a counter  *)
(* that moved; a confirmed size, a knee and a maximum rate were measured.  *)
THEOREM FiguresAreOfTheirMeasurements == Spec => []FiguresAreTheirOwn
<1>1. MachineInv => FiguresAreTheirOwn
  <2> SUFFICES ASSUME MachineInv PROVE FiguresAreTheirOwn OBVIOUS
  <2>0. ASSUME NEW c \in ShapedCommands, Reports(c)
        PROVE  /\ Shaped(c, evidence) /\ dispatch(c, evidence, ready).exit = 0
               /\ report = dispatch(c, evidence, ready).report
    BY <2>0, VerdictOnShapedEvidence DEF Reports, report
  <2>1. /\ Reports("clock-guard") => PermittedClocksAreClose
        /\ Reports("counter-liveness") => ZeroDropsAreCorroborated
        /\ Reports("counter-deltas") => DeltasAreOfThisTest
        /\ Reports("pmtu") => ConfirmedSizesWereAnswered
    BY ClocksAreClose, DropsAreCorroborated, DeltasAreClean, SizesWereAnswered DEF Reports
  <2>2. /\ Reports("first-hop") /\ report.state = "Suppressed" => evidence[3] # "timeout"
        /\ Reports("iperf-summary") /\ evidence[1].sum_received.packets > 0
             /\ Known(report.receiver) => report.receiver = evidence[1].sum_received.bps
        /\ Reports("capacity-knee") /\ Known(report.native.knee) =>
             \E i \in 3..5 : evidence[i].rejected = "none" /\ evidence[i].offered = report.native.knee
    BY SuppressedAnswered, ReceiverIsTheReceivers, KneeWasMeasured DEF Reports
  <2>3. ASSUME Reports("stun-turn") PROVE BindingsAreTheirOwn
    <3>1. /\ Shaped("stun-turn", evidence) /\ dispatch("stun-turn", evidence, ready).exit = 0
          /\ report = dispatch("stun-turn", evidence, ready).report
      BY <2>0, <2>3 DEF ShapedCommands
    <3> QED BY <3>1, MappedByTheirAnswers DEF BindingsAreTheirOwn
  <2>4. ASSUME Reports("radio-diagnostic") PROVE SignalIsOfTheCurrentNetwork
    <3>1. /\ Shaped("radio-diagnostic", evidence)
          /\ report = dispatch("radio-diagnostic", evidence, ready).report
      BY <2>0, <2>4 DEF ShapedCommands
    <3> QED BY <3>1, SignalIsTheCurrentOne DEF SignalIsOfTheCurrentNetwork
  <2>5. ASSUME Reports("dns-steering") PROVE DivergenceIsOfAddresses
    <3>1. /\ Shaped("dns-steering", evidence) /\ dispatch("dns-steering", evidence, ready).exit = 0
          /\ report = dispatch("dns-steering", evidence, ready).report
      BY <2>0, <2>5 DEF ShapedCommands
    <3> QED BY <3>1, DivergenceIsOfTheirs DEF DivergenceIsOfAddresses
  <2>6. ASSUME Reports("throughput-tuner") PROVE MaximumWasReceivedInTime
    <3>1. /\ Shaped("throughput-tuner", evidence)
          /\ report = dispatch("throughput-tuner", evidence, ready).report
      BY <2>0, <2>6 DEF ShapedCommands
    <3> QED BY <3>1, MaximumWasReceived DEF MaximumWasReceivedInTime
  <2>7. ASSUME Reports("independent-rates") PROVE LossyRatesReportedTheirLoss
    <3>1. /\ Shaped("independent-rates", evidence) /\ dispatch("independent-rates", evidence, ready).exit = 0
          /\ report = dispatch("independent-rates", evidence, ready).report
      BY <2>0, <2>7 DEF ShapedCommands
    <3> QED BY <3>1, RatesReportedLoss DEF LossyRatesReportedTheirLoss
  <2>8. ASSUME Reports("size-rate-matrix") PROVE PressureNeedsBothSweeps
    <3>1. /\ Shaped("size-rate-matrix", evidence) /\ dispatch("size-rate-matrix", evidence, ready).exit = 0
          /\ report = dispatch("size-rate-matrix", evidence, ready).report
      BY <2>0, <2>8 DEF ShapedCommands
    <3> QED BY <3>1, PressureWasMeasured DEF PressureNeedsBothSweeps
  <2> QED BY <2>1, <2>2, <2>3, <2>4, <2>5, <2>6, <2>7, <2>8, Zenon DEF FiguresAreTheirOwn
<1> QED BY <1>1, MachineInvariant, PTL

-----------------------------------------------------------------------------
(* LosingEvidenceOnlyWithholds, the commands that fold, filter or sort. *)

(* The median of the clean samples is one of them. *)
LEMMA MedianClean ==
  ASSUME NEW reports, DOMAIN reports = 1..2, reports[1] \in SiteReport, reports[2] \in SiteReport
  PROVE  /\ cleanSamples(reports) = {} => median_clean(reports) = Missing
         /\ cleanSamples(reports) # {} => median_clean(reports) \in Nat \ {0}
<1> DEFINE I == {i \in DOMAIN reports : reports[i].clean /\ Known(reports[i].mbps)}
           T == {r \in SiteReport : r.mbps \in Nat \ {0}}
           o == InOrder(reports, [i \in DOMAIN reports |-> i], I)
           n == Len(o)
           rates == [i \in DOMAIN o |-> o[i].mbps]
           key == [i \in DOMAIN rates |-> rates[i]]
           v == InOrder(rates, key, DOMAIN rates)
           mid == n \div 2 + 1
<1>1. median_clean(reports) = IF o = <<>> THEN Missing ELSE v[Len(v) \div 2 + 1]
  BY DEF median_clean, Keep, Where, SortedBy
<1>2. o = InOrder(reports, [i \in DOMAIN reports |-> i], I) OBVIOUS
<1>3. I = cleanSamples(reports) /\ I \subseteq 1..2 BY DEF cleanSamples
<1>4. \A i \in I : reports[i] \in T
  <2> SUFFICES ASSUME NEW i \in I PROVE reports[i] \in T OBVIOUS
  <2>1. reports[i] \in SiteReport /\ Known(reports[i].mbps) BY <1>3
  <2>2. reports[i].mbps \in {Missing} \cup (Nat \ {0}) BY <2>1 DEF SiteReport
  <2> QED BY <2>1, <2>2 DEF Known
<1> HIDE DEF I, T, o
<1>5. Filters(o, reports, 2, I, T) BY <1>2, <1>3, <1>4, Kept
<1>6. o \in Seq(T) /\ n = Cardinality(I) /\ n \in Nat /\ DOMAIN o = 1..n BY <1>5 DEF Filters
<1>7. \A i \in 1..n : rates[i] \in Nat \ {0} /\ key[i] \in Int
  <2>1. \A i \in 1..n : o[i].mbps \in Nat \ {0} BY <1>6 DEF T
  <2> QED BY <1>6, <2>1
<1>8. v = InOrder(rates, key, 1..n) BY <1>6
<1> HIDE DEF rates, key, v
<1>9. Len(v) = n BY <1>6, <1>7, <1>8, Sorts
<1>10. PICK f : Sorting(f, rates, v, n, key) BY <1>6, <1>7, <1>8, Sorts
<1>11. IsFiniteSet(I)
  <2>0. 1 \in Int /\ 2 \in Int OBVIOUS
  <2>1. IsFiniteSet(1..2) BY <2>0, FS_Interval, Zenon
  <2>2. I \in SUBSET (1..2) BY <1>3
  <2> QED BY <2>1, <2>2, FS_Subset
<1>12. (n = 0) <=> (I = {}) BY <1>6, <1>11, FS_EmptySet, Zenon
<1>13. (o = <<>>) <=> (n = 0) BY <1>6
<1> HIDE DEF n
<1>14. CASE I = {} BY <1>1, <1>3, <1>12, <1>13, <1>14
<1>15. CASE I # {}
  <2>1. mid \in 1..n BY <1>6, <1>12, <1>15
  <2>2. v[mid] = rates[f[mid]] /\ f[mid] \in 1..n BY <1>10, <2>1 DEF Sorting
  <2>3. median_clean(reports) = v[mid] BY <1>1, <1>9, <1>12, <1>13, <1>15
  <2> QED BY <1>3, <1>7, <1>15, <2>2, <2>3
<1> QED BY <1>14, <1>15

(* Two sites are compared when neither redirected and both had a clean     *)
(* sample.                                                                 *)
LEMMA SitesCompared ==
  ASSUME NEW a, DOMAIN a = 1..2, a[1] \in SiteReport, a[2] \in SiteReport,
         NEW b, DOMAIN b = 1..2, b[1] \in SiteReport, b[2] \in SiteReport
  PROVE  compare_sites(a, b) = "Compared" <=>
           /\ \A i \in 1..2 : ~a[i].redirected /\ ~b[i].redirected
           /\ cleanSamples(a) # {} /\ cleanSamples(b) # {}
<1> DEFINE red == \E r \in Range(a) \cup Range(b) : r.redirected
           x == median_clean(a)
           y == median_clean(b)
<1>1. compare_sites(a, b) = CASE red -> "RedirectedRatherThanCompared"
                              [] ~red /\ Known(x) /\ y > 0 -> "Compared"
                              [] OTHER -> "Withheld"
  BY DEF compare_sites
<1>2. red <=> \E i \in 1..2 : a[i].redirected \/ b[i].redirected
  <2>1. Range(a) = {a[i] : i \in 1..2} /\ Range(b) = {b[i] : i \in 1..2} BY DEF Range
  <2> QED BY <2>1
<1>3. Known(x) <=> cleanSamples(a) # {} BY MedianClean DEF Known, Missing
<1>4. y > 0 <=> cleanSamples(b) # {} BY MedianClean DEF Missing
<1> HIDE DEF red, x, y
<1>5. compare_sites(a, b) = "Compared" <=> ~red /\ Known(x) /\ y > 0 BY <1>1
<1> QED BY <1>2, <1>3, <1>4, <1>5

(* What site-ab reports for each protocol. *)
LEMMA SiteReportOf ==
  ASSUME NEW e, NEW ok, dispatch("site-ab", e, ok).exit = 0
  PROVE  dispatch("site-ab", e, ok).report =
           [p \in {"http1", "http2", "http3"} |-> compare_sites(SubSeq(e, 1, 2), SubSeq(e, 3, 4))]
<1> DEFINE c == "site-ab"
           a == [protocols |-> IF ok THEN {} ELSE {"ftp"}, affected |-> SubSeq(e, 1, 2),
                 control |-> SubSeq(e, 3, 4)]
           r == [p \in {"http1", "http2", "http3"} |-> compare_sites(SubSeq(e, 1, 2), SubSeq(e, 3, 4))]
<1>1. dispatch(c, e, ok) = comparison_report(c, e, ok) BY Routes DEF ComparisonCommands
<1>2. comparison_report(c, e, ok) = site_ab_run(a) BY Zenon DEF comparison_report
<1>3. CASE ok
  <2>1. site_ab_run(a) = Completed(r) BY <1>3 DEF site_ab_run
  <2> HIDE DEF a, r
  <2>2. dispatch(c, e, ok).report = r BY <1>1, <1>2, <2>1, ReportOf
  <2> QED BY <2>2 DEF r
<1>4. CASE ~ok
  <2>1. site_ab_run(a) = Refusal(1) BY <1>4 DEF site_ab_run
  <2> QED BY <1>1, <1>2, <2>1 DEF Refusal
<1> QED BY <1>3, <1>4

(* A sample without a figure is not clean: fewer sites are compared. *)
LEMMA SiteAbWithholds ==
  ASSUME NEW g, NEW ok, Shaped("site-ab", g)
  PROVE  Withholds("site-ab", g, ok)
<1> DEFINE c == "site-ab"
<1>1. Shapes(c) = [i \in 1..4 |-> SiteReport] BY Zenon DEF Shapes, SiteReport
<1>2. g \in Seq(Values) /\ Len(g) = 4 /\ g[1] \in SiteReport /\ g[2] \in SiteReport
      /\ g[3] \in SiteReport /\ g[4] \in SiteReport
  BY <1>1, FourShaped
<1>3. ASSUME NEW e, DOMAIN e = 1..4, \A i \in 1..4 : e[i] \in SiteReport
      PROVE  LET a == SubSeq(e, 1, 2)
                 b == SubSeq(e, 3, 4)
             IN  /\ DOMAIN a = 1..2 /\ a[1] = e[1] /\ a[2] = e[2]
                 /\ DOMAIN b = 1..2 /\ b[1] = e[3] /\ b[2] = e[4]
  BY <1>3
<1>4. ASSUME NEW i \in DOMAIN g, NEW m \in LostForms(c, i, g[i]),
             dispatch(c, g, ok).exit = 0,
             dispatch(c, [g EXCEPT ![i] = m], ok).exit = 0
      PROVE  claims(c, dispatch(c, [g EXCEPT ![i] = m], ok).report) \subseteq claims(c, dispatch(c, g, ok).report)
  <2> DEFINE h == [g EXCEPT ![i] = m]
             r == dispatch(c, g, ok).report
             q == dispatch(c, h, ok).report
             a == SubSeq(g, 1, 2)
             b == SubSeq(g, 3, 4)
             s == SubSeq(h, 1, 2)
             t == SubSeq(h, 3, 4)
             P == {"http1", "http2", "http3"}
  <2>1. LostForms(c, i, g[i]) = {[g[i] EXCEPT !.mbps = Missing]} BY Zenon DEF LostForms
  <2>2. DOMAIN g = 1..4 /\ DOMAIN h = 1..4 /\ i \in 1..4 /\ h[i] = m /\ \A j \in 1..4 : j # i => h[j] = g[j] BY <1>2
  <2>3. \A j \in 1..4 : g[j] \in SiteReport BY <1>2
  <2>4. m \in SiteReport /\ m.mbps = Missing /\ m.redirected = g[i].redirected /\ m.clean = g[i].clean
    <3>1. m = [g[i] EXCEPT !.mbps = Missing] /\ g[i] \in SiteReport BY <2>1, <2>2, <2>3
    <3> QED BY <3>1 DEF SiteReport
  <2> HIDE DEF h
  <2>5. \A j \in 1..4 : /\ h[j] \in SiteReport /\ h[j].redirected = g[j].redirected
                        /\ h[j].clean /\ Known(h[j].mbps) => g[j].clean /\ Known(g[j].mbps)
    BY <2>2, <2>3, <2>4 DEF Known
  <2>6. /\ DOMAIN a = 1..2 /\ a[1] = g[1] /\ a[2] = g[2] /\ DOMAIN b = 1..2 /\ b[1] = g[3] /\ b[2] = g[4]
    BY <1>3, <2>2, <2>3
  <2>7. /\ DOMAIN s = 1..2 /\ s[1] = h[1] /\ s[2] = h[2] /\ DOMAIN t = 1..2 /\ t[1] = h[3] /\ t[2] = h[4]
    BY <1>3, <2>2, <2>5
  <2>8. r = [p \in P |-> compare_sites(a, b)] /\ q = [p \in P |-> compare_sites(s, t)] BY <1>4, SiteReportOf DEF h
  <2> HIDE DEF a, b, s, t, r, q
  <2>9. cleanSamples(s) \subseteq cleanSamples(a) /\ cleanSamples(t) \subseteq cleanSamples(b)
    BY <2>5, <2>6, <2>7 DEF cleanSamples
  <2>10. \A j \in 1..2 : /\ a[j].redirected = s[j].redirected /\ b[j].redirected = t[j].redirected BY <2>5, <2>6, <2>7
  <2>11. compare_sites(s, t) = "Compared" => compare_sites(a, b) = "Compared"
    <3>1. s[1] \in SiteReport /\ s[2] \in SiteReport /\ t[1] \in SiteReport /\ t[2] \in SiteReport BY <2>5, <2>7
    <3>2. a[1] \in SiteReport /\ a[2] \in SiteReport /\ b[1] \in SiteReport /\ b[2] \in SiteReport BY <2>3, <2>6
    <3>3. compare_sites(s, t) = "Compared" <=>
            /\ \A j \in 1..2 : ~s[j].redirected /\ ~t[j].redirected
            /\ cleanSamples(s) # {} /\ cleanSamples(t) # {}
      BY <2>7, <3>1, SitesCompared
    <3>4. compare_sites(a, b) = "Compared" <=>
            /\ \A j \in 1..2 : ~a[j].redirected /\ ~b[j].redirected
            /\ cleanSamples(a) # {} /\ cleanSamples(b) # {}
      BY <2>6, <3>2, SitesCompared
    <3> QED BY <2>9, <2>10, <3>3, <3>4
  <2>12. claims(c, r) = {p \in DOMAIN r : r[p] = "Compared"} /\ claims(c, q) = {p \in DOMAIN q : q[p] = "Compared"}
    BY Zenon DEF claims
  <2>13. claims(c, q) \subseteq claims(c, r) BY <2>8, <2>11, <2>12
  <2> QED BY <2>13 DEF r, q, h
<1> QED BY <1>4 DEF Withholds

(* What record_point adds to the counters of the coverage. *)
LEMMA RecordPoint ==
  ASSUME NEW cov \in Coverage, NEW p \in CoveragePoints
  PROVE  /\ record_point(cov, p) \in Coverage
         /\ record_point(cov, p).attempted = cov.attempted + 1
         /\ record_point(cov, p).measured = IF p = "measured" THEN cov.measured + 1 ELSE cov.measured
<1> DEFINE x == cov.attempted + 1
           y == cov[p] + 1
           r == record_point(cov, p)
<1>b. x \in Nat /\ y \in Nat BY DEF Coverage, CoveragePoints
<1>1. ASSUME p = "measured"
      PROVE  /\ r \in Coverage /\ r.attempted = x
             /\ r.measured = y
  <2>1. r = [cov EXCEPT !.attempted = x, !.measured = y] BY <1>1 DEF record_point
  <2> HIDE DEF r, x, y
  <2> QED BY <1>b, <2>1 DEF Coverage
<1>2. ASSUME p = "no_answer"
      PROVE  /\ r \in Coverage /\ r.attempted = x
             /\ r.measured = cov.measured
  <2>1. r = [cov EXCEPT !.attempted = x, !.no_answer = y] BY <1>2 DEF record_point
  <2> HIDE DEF r, x, y
  <2> QED BY <1>b, <2>1 DEF Coverage
<1>3. ASSUME p = "not_attempted"
      PROVE  /\ r \in Coverage /\ r.attempted = x
             /\ r.measured = cov.measured
  <2>1. r = [cov EXCEPT !.attempted = x, !.not_attempted = y] BY <1>3 DEF record_point
  <2> HIDE DEF r, x, y
  <2> QED BY <1>b, <2>1 DEF Coverage
<1> QED BY <1>1, <1>2, <1>3 DEF CoveragePoints

(* One more point keeps the counters those of the points. *)
LEMMA CoverageNext ==
  ASSUME NEW n \in Nat, NEW points, \A i \in 1..n : points[i] \in CoveragePoints,
         NEW k \in 0..(n - 1), NEW cov \in Coverage, Covers(cov, points, k)
  PROVE  Covers(record_point(cov, points[k + 1]), points, k + 1)
<1> DEFINE p == points[k + 1]
           M == measuredOf(points, k)
           N == measuredOf(points, k + 1)
<1>1. k \in Nat /\ p \in CoveragePoints /\ 1..(k + 1) = 1..k \cup {k + 1} /\ k + 1 \notin 1..k OBVIOUS
<1>2. IsFiniteSet(M) /\ k + 1 \notin M
  <2>1. IsFiniteSet(1..k) BY <1>1, FS_Interval
  <2>2. M \in SUBSET (1..k) BY DEF measuredOf
  <2> QED BY <1>1, <2>1, <2>2, FS_Subset
<1>3. N = IF p = "measured" THEN M \cup {k + 1} ELSE M BY <1>1 DEF measuredOf
<1>4. cov.attempted = k /\ cov.measured = Cardinality(M) BY DEF Covers
<1>5. /\ record_point(cov, p).attempted = k + 1
      /\ record_point(cov, p).measured = IF p = "measured" THEN cov.measured + 1 ELSE cov.measured
  BY <1>1, <1>4, RecordPoint
<1>6. Cardinality(M \cup {k + 1}) = Cardinality(M) + 1
  <2> HIDE DEF M
  <2> QED BY <1>2, FS_AddElement
<1> HIDE DEF M, N, p
<1>7. record_point(cov, p).measured = Cardinality(N) BY <1>3, <1>4, <1>5, <1>6
<1> QED BY <1>5, <1>7 DEF Covers, p, N

(* The counters of a sweep are what they say. *)
LEMMA CoverageIs ==
  ASSUME NEW n \in Nat, NEW points, DOMAIN points = 1..n, \A i \in 1..n : points[i] \in CoveragePoints
  PROVE  Covers(coverage_of(points), points, n)
<1> DEFINE T == Coverage
           base == [attempted |-> 0, measured |-> 0, no_answer |-> 0, not_attempted |-> 0]
           G == [p \in T \X (1..n) |-> record_point(p[1], points[p[2]])]
           E(F) == F = [t \in SUBSET (1..n) |->
                          IF t = {} THEN base ELSE record_point(F[t \ {Max(t)}], points[Max(t)])]
           iter == CHOOSE F : E(F)
<1>0. base \in T /\ Len(points) = n BY DEF Coverage
<1>1. \A x \in T, i \in 1..n : record_point(x, points[i]) \in T BY RecordPoint
<1>a. G \in [T \X (1..n) -> T]
  <2> HIDE DEF T
  <2> QED BY <1>1
<1>2. \A x \in T, i \in 1..n : G[<<x, i>>] = record_point(x, points[i]) OBVIOUS
<1>3. coverage_of(points) = iter[1..n] BY <1>0 DEF coverage_of, FoldLeft, MapThenFoldSet
<1> HIDE DEF G, T, base
<1>4. \E F : E(F)
  <2>1. PICK F : Solves(F, n, T, base, G) BY <1>0, <1>a, FoldSolves
  <2>2. ASSUME NEW t \in SUBSET (1..n)
        PROVE  F[t] = IF t = {} THEN base ELSE record_point(F[t \ {Max(t)}], points[Max(t)])
    BY <1>0, <1>2, <2>1, TopOf DEF Solves
  <2>3. F = [t \in SUBSET (1..n) |-> F[t]] BY <2>1 DEF Solves
  <2>4. E(F) BY <2>2, <2>3
  <2> QED BY <2>4
<1>5. E(iter)
  <2> HIDE DEF E
  <2> QED BY <1>4
<1> HIDE DEF iter
<1>6. Obeys(iter, n, T, base, G) BY <1>0, <1>2, <1>5, TopOf DEF Obeys
<1> HIDE DEF E
<1>7. PICK a : Traces(a, n, T, base, G, iter[1..n]) BY <1>0, <1>a, <1>6, FoldTrace
<1>8. a \in [0..n -> T] /\ a[0] = base /\ a[n] = iter[1..n] BY <1>7 DEF Traces
<1>9. ASSUME NEW k \in 0..(n - 1) PROVE a[k + 1] = record_point(a[k], points[k + 1])
  <2>1. a[k + 1] = G[<<a[k], k + 1>>] BY <1>7 DEF Traces
  <2>2. a[k] \in T /\ k + 1 \in 1..n BY <1>0, <1>8
  <2> QED BY <1>2, <2>1, <2>2
<1> DEFINE S == {k \in 0..n : Covers(a[k], points, k)}
<1>10. 0 \in S
  <2>1. Covers(base, points, 0)
    <3>1. measuredOf(points, 0) = {} BY DEF measuredOf
    <3>2. Cardinality(measuredOf(points, 0)) = 0 BY <3>1, FS_EmptySet
    <3> QED BY <3>2 DEF Covers, base
  <2> QED BY <1>0, <1>8, <2>1
<1>11. ASSUME NEW k \in 0..(n - 1), k \in S PROVE k + 1 \in S
  <2>1. Covers(a[k], points, k) /\ a[k] \in Coverage BY <1>8, <1>11 DEF T
  <2>2. Covers(record_point(a[k], points[k + 1]), points, k + 1) BY <2>1, CoverageNext
  <2>3. k + 1 \in 0..n OBVIOUS
  <2> QED BY <1>9, <2>2, <2>3
<1>12. \A k \in 0..n : k \in S
  <2> HIDE DEF S
  <2> QED BY <1>10, <1>11, UpTo
<1>13. n \in 0..n OBVIOUS
<1>14. Covers(a[n], points, n) BY <1>12, <1>13
<1> QED BY <1>3, <1>8, <1>14

(* The verdict that coverage reports. *)
LEMMA CoverageReport ==
  ASSUME NEW e, NEW ok
  PROVE  /\ dispatch("coverage", e, ok).exit = 0
         /\ dispatch("coverage", e, ok).report = classify_coverage(coverage_of(e), 70)
<1> DEFINE c == "coverage"
<1>1. dispatch(c, e, ok) = evidence_report(c, e, ok) BY Routes DEF EvidenceCommands
<1>2. evidence_report(c, e, ok) = Completed(classify_coverage(coverage_of(e), DEFAULT_REQUIRED_COVERAGE))
  BY Zenon DEF evidence_report
<1> QED BY <1>1, <1>2, ReportOf DEF DEFAULT_REQUIRED_COVERAGE

(* A point that was not measured counts against the coverage. *)
LEMMA CoverageWithholds ==
  ASSUME NEW g, NEW ok, Shaped("coverage", g)
  PROVE  Withholds("coverage", g, ok)
<1> DEFINE c == "coverage"
           n == Len(g)
<1>1. n \in Nat /\ DOMAIN g = 1..n /\ \A i \in 1..n : g[i] \in CoveragePoints
  <2>1. Shapes(c) = [i \in DOMAIN Measurements[c] |-> CoveragePoints] BY Zenon DEF Shapes, CoveragePoints
  <2>2. g \in Seq(Values) /\ n = Len(Shapes(c)) BY DEF Shaped
  <2>3. \A i \in 1..Len(Shapes(c)) : g[i] \in Shapes(c)[i] BY Zenon DEF Shaped
  <2>4. n \in Nat /\ DOMAIN g = 1..n BY <2>2
  <2> HIDE DEF n
  <2>6. ASSUME NEW i \in 1..n PROVE g[i] \in CoveragePoints
    <3>1. g[i] \in Shapes(c)[i] BY <2>2, <2>3
    <3> QED BY <2>1, <2>2, <2>4, <3>1 DEF Shapes
  <2> QED BY <2>4, <2>6
<1>2. ASSUME NEW i \in DOMAIN g, NEW m \in LostForms(c, i, g[i])
      PROVE  claims(c, dispatch(c, [g EXCEPT ![i] = m], ok).report) \subseteq claims(c, dispatch(c, g, ok).report)
  <2> DEFINE h == [g EXCEPT ![i] = m]
             r == dispatch(c, g, ok).report
             q == dispatch(c, h, ok).report
             x == coverage_of(g)
             y == coverage_of(h)
             M == measuredOf(g, n)
             N == measuredOf(h, n)
  <2>1. LostForms(c, i, g[i]) = {"no_answer", "not_attempted"} BY Zenon DEF LostForms
  <2>2. m \in CoveragePoints /\ m # "measured" BY <2>1 DEF CoveragePoints
  <2> HIDE DEF n
  <2>3. DOMAIN h = 1..n /\ h[i] = m /\ \A j \in 1..n : j # i => h[j] = g[j] BY <1>1
  <2> HIDE DEF h
  <2>4. \A j \in 1..n : h[j] \in CoveragePoints BY <1>1, <2>2, <2>3
  <2>5. N \subseteq M BY <1>1, <2>2, <2>3 DEF measuredOf
  <2>6. Cardinality(M) \in Nat /\ Cardinality(N) \in Nat /\ Cardinality(N) <= Cardinality(M)
    <3>1. IsFiniteSet(1..n) BY <1>1, FS_Interval
    <3>2. M \in SUBSET (1..n) BY DEF measuredOf
    <3> HIDE DEF M, N
    <3>3. IsFiniteSet(M) BY <3>1, <3>2, FS_Subset
    <3>4. N \in SUBSET M BY <2>5
    <3>5. IsFiniteSet(N) /\ Cardinality(N) <= Cardinality(M) BY <3>3, <3>4, FS_Subset
    <3> QED BY <3>3, <3>5, FS_CardinalityType
  <2>7. x.attempted = n /\ x.measured = Cardinality(M)
    <3>1. Covers(x, g, n) BY <1>1, CoverageIs
    <3> QED BY <3>1 DEF Covers
  <2>8. y.attempted = n /\ y.measured = Cardinality(N)
    <3>1. Covers(y, h, n) BY <1>1, <2>3, <2>4, CoverageIs
    <3> QED BY <3>1 DEF Covers
  <2>9. r = classify_coverage(x, 70) /\ q = classify_coverage(y, 70) BY CoverageReport
  <2> HIDE DEF x, y, M, N
  <2>10. q = "Sufficient" => r = "Sufficient"
    <3>1. q = "Sufficient" => y.measured > 0 /\ 100 * y.measured >= 70 * y.attempted
      BY <2>6, <2>8, <2>9 DEF classify_coverage
    <3>2. q = "Sufficient" => x.measured > 0 /\ 100 * x.measured >= 70 * x.attempted BY <1>1, <2>6, <2>7, <2>8, <3>1
    <3> QED BY <2>6, <2>7, <2>9, <3>2 DEF classify_coverage
  <2> HIDE DEF r, q
  <2>11. claims(c, r) = {r} \cap {"Sufficient"} /\ claims(c, q) = {q} \cap {"Sufficient"} BY Zenon DEF claims
  <2>12. claims(c, q) \subseteq claims(c, r) BY <2>10, <2>11
  <2> QED BY <2>12 DEF r, q, h
<1> QED BY <1>2 DEF Withholds

(* Every line of a trace is a hop of it. *)
LEMMA ParsedTrace ==
  ASSUME NEW lines, DOMAIN lines = 1..2, lines[1] \in TraceLine, lines[2] \in TraceLine
  PROVE  /\ DOMAIN parse_traceroute(lines) = 1..2
         /\ \A i \in 1..2 : parse_traceroute(lines)[i] = hopOf(lines[i])
<1> DEFINE I == {i \in DOMAIN lines : Known(lines[i].hop)}
           o == InOrder(lines, [i \in DOMAIN lines |-> i], I)
           T == TraceLine
<1>1. parse_traceroute(lines) = [i \in DOMAIN o |-> hopOf(o[i])] BY DEF parse_traceroute, Keep, Where, hopOf
<1>2. o = InOrder(lines, [i \in DOMAIN lines |-> i], I) OBVIOUS
<1>3. I = 1..2 BY DEF TraceLine, Known, Missing
<1>4. \A i \in I : lines[i] \in T BY <1>3
<1> HIDE DEF o, I, T
<1>5. Filters(o, lines, 2, I, T) BY <1>2, <1>3, <1>4, Kept
<1>6. PICK f : Picks(f, lines, o, I) BY <1>5 DEF Filters
<1>7. Len(o) = 2
  <2>1. Cardinality(1..2) = 2
    <3>1. \A n \in Nat : Cardinality(1..n) = n BY FS_Interval
    <3> QED BY <3>1
  <2> QED BY <1>3, <1>5, <2>1 DEF Filters
<1>8. f \in [1..2 -> 1..2] /\ o[1] = lines[f[1]] /\ o[2] = lines[f[2]] /\ f[1] < f[2] BY <1>3, <1>6, <1>7 DEF Picks
<1>9. f[1] = 1 /\ f[2] = 2
  <2>1. f[1] \in 1..2 /\ f[2] \in 1..2 BY <1>8
  <2> QED BY <1>8, <2>1
<1>10. DOMAIN o = 1..2 BY <1>5, <1>7 DEF Filters
<1> QED BY <1>1, <1>8, <1>9, <1>10

(* The samples of a hop: those of the first trace, then of the second. *)
LEMMA HopsAtTyped ==
  ASSUME NEW hops, DOMAIN hops = 1..2, hops[1] \in TraceHop, hops[2] \in TraceHop, NEW n
  PROVE  Filters(hopsAt(hops, n), hops, 2, {i \in 1..2 : hops[i].hop = n}, TraceHop)
<1> DEFINE I == {i \in DOMAIN hops : hops[i].hop = n}
           o == InOrder(hops, [i \in DOMAIN hops |-> i], I)
           T == TraceHop
<1>1. hopsAt(hops, n) = o BY DEF hopsAt, Keep, Where
<1>2. o = InOrder(hops, [i \in DOMAIN hops |-> i], I) OBVIOUS
<1>3. I \subseteq 1..2 /\ I = {i \in 1..2 : hops[i].hop = n} /\ \A i \in I : hops[i] \in T OBVIOUS
<1> HIDE DEF I, o, T
<1>4. Filters(o, hops, 2, I, T) BY <1>2, <1>3, Kept
<1> QED BY <1>1, <1>3, <1>4 DEF T

(* The samples of one hop over two traces. *)
LEMMA HopSamples ==
  ASSUME NEW runs, DOMAIN runs = 1..2,
         \A i \in 1..2 : DOMAIN runs[i].hops = 1..2 /\ \A j \in 1..2 : runs[i].hops[j] \in TraceHop,
         NEW n
  PROVE  hop_samples(runs, n) = hopsAt(runs[1].hops, n) \o hopsAt(runs[2].hops, n)
<1> DEFINE T == Seq(TraceHop)
           N == 2
           g(acc, r) == acc \o Keep(r.hops, LAMBDA h : h.hop = n)
           k(i) == hopsAt(runs[i].hops, n)
           G == [p \in T \X (1..N) |-> p[1] \o k(p[2])]
           E(F) == F = [t \in SUBSET (1..N) |->
                          IF t = {} THEN <<>> ELSE g(F[t \ {Max(t)}], runs[Max(t)])]
           iter == CHOOSE F : E(F)
<1>0. N \in Nat /\ <<>> \in T /\ Len(runs) = N OBVIOUS
<1>b. \A i \in 1..N : k(i) \in T
  <2> SUFFICES ASSUME NEW i \in 1..2 PROVE k(i) \in T OBVIOUS
  <2> DEFINE h == runs[i].hops
  <2>1. DOMAIN h = 1..2 /\ h[1] \in TraceHop /\ h[2] \in TraceHop OBVIOUS
  <2> HIDE DEF h
  <2>2. Filters(hopsAt(h, n), h, 2, {j \in 1..2 : h[j].hop = n}, TraceHop) BY <2>1, HopsAtTyped
  <2> QED BY <2>2 DEF Filters, h
<1>c. ASSUME NEW x, NEW i PROVE g(x, runs[i]) = x \o k(i) BY DEF hopsAt
<1>3. hop_samples(runs, n) = iter[1..N] BY <1>0 DEF hop_samples, FoldLeft, MapThenFoldSet
<1> HIDE DEF k, g
<1>a. G \in [T \X (1..N) -> T]
  <2> DEFINE W == TraceHop
  <2> HIDE DEF W
  <2>1. ASSUME NEW x \in Seq(W), NEW y \in Seq(W) PROVE x \o y \in Seq(W) OBVIOUS
  <2>2. ASSUME NEW x \in T, NEW i \in 1..N PROVE x \o k(i) \in T BY <1>b, <2>1 DEF W
  <2> HIDE DEF T
  <2> QED BY <2>2
<1>2. \A x \in T, i \in 1..N : G[<<x, i>>] = g(x, runs[i])
  <2>1. \A x \in T, i \in 1..N : G[<<x, i>>] = x \o k(i)
    <3> HIDE DEF T
    <3> QED  OBVIOUS
  <2> QED BY <1>c, <2>1
<1> HIDE DEF G, T, N
<1>4. \E F : E(F)
  <2>1. PICK F : Solves(F, N, T, <<>>, G) BY <1>0, <1>a, FoldSolves
  <2>2. ASSUME NEW t \in SUBSET (1..N)
        PROVE  F[t] = IF t = {} THEN <<>> ELSE g(F[t \ {Max(t)}], runs[Max(t)])
    BY <1>0, <1>2, <2>1, TopOf DEF Solves
  <2>3. F = [t \in SUBSET (1..N) |-> F[t]] BY <2>1 DEF Solves
  <2>4. E(F) BY <2>2, <2>3
  <2> QED BY <2>4
<1>5. E(iter)
  <2> HIDE DEF E
  <2> QED BY <1>4
<1> HIDE DEF iter
<1>6. Obeys(iter, N, T, <<>>, G) BY <1>0, <1>2, <1>5, TopOf DEF Obeys
<1> HIDE DEF E
<1>7. PICK a : Traces(a, N, T, <<>>, G, iter[1..N]) BY <1>0, <1>a, <1>6, FoldTrace
<1>8. a \in [0..N -> T] /\ a[0] = <<>> /\ a[N] = iter[1..N] BY <1>7 DEF Traces
<1>9. ASSUME NEW j \in 0..(N - 1) PROVE a[j + 1] = a[j] \o k(j + 1)
  <2>1. a[j + 1] = G[<<a[j], j + 1>>] BY <1>7 DEF Traces
  <2>2. a[j] \in T /\ j + 1 \in 1..N BY <1>0, <1>8
  <2> QED BY <1>2, <1>c, <2>1, <2>2
<1>10. a[1] = a[0] \o k(1) /\ a[2] = a[1] \o k(2)
  <2>1. 0 \in 0..(N - 1) /\ 1 \in 0..(N - 1) BY DEF N
  <2>2. a[0 + 1] = a[0] \o k(0 + 1) /\ a[1 + 1] = a[1] \o k(1 + 1) BY <1>9, <2>1
  <2> QED BY <2>2
<1>11. a[0] \o k(1) = k(1)
  <2>1. k(1) \in Seq(TraceHop) BY <1>b DEF N, T
  <2> DEFINE W == TraceHop
  <2> HIDE DEF W
  <2>2. k(1) \in Seq(W) BY <2>1 DEF W
  <2>3. <<>> \o k(1) = k(1) BY <2>2
  <2> QED BY <1>8, <2>3
<1>12. iter[1..N] = k(1) \o k(2) BY <1>8, <1>10, <1>11 DEF N
<1> QED BY <1>3, <1>12 DEF k

(* Traces that agree on hop n have the same samples of it. *)
LEMMA SameHops ==
  ASSUME NEW s, DOMAIN s = 1..2, NEW t, DOMAIN t = 1..2,
         \A i \in 1..2 : s[i].hop = t[i].hop, NEW n, \A i \in 1..2 : s[i].hop = n => s[i] = t[i]
  PROVE  hopsAt(s, n) = hopsAt(t, n)
<1> DEFINE I == {i \in 1..2 : s[i].hop = n}
           key == [i \in 1..2 |-> i]
           C == Cardinality(I)
           f(j) == CHOOSE i \in I : Rank(key, I, i) = j
<1>1. hopsAt(s, n) = [j \in 1..C |-> s[f(j)]] /\ hopsAt(t, n) = [j \in 1..C |-> t[f(j)]]
  <2>1. I = {i \in DOMAIN s : s[i].hop = n} /\ I = {i \in DOMAIN t : t[i].hop = n} OBVIOUS
  <2>2. hopsAt(s, n) = InOrder(s, [i \in DOMAIN s |-> i], {i \in DOMAIN s : s[i].hop = n}) BY DEF hopsAt, Keep, Where
  <2>3. hopsAt(t, n) = InOrder(t, [i \in DOMAIN t |-> i], {i \in DOMAIN t : t[i].hop = n}) BY DEF hopsAt, Keep, Where
  <2> HIDE DEF I
  <2>4. hopsAt(s, n) = InOrder(s, key, I) /\ hopsAt(t, n) = InOrder(t, key, I) BY <2>1, <2>2, <2>3
  <2> HIDE DEF key
  <2> QED BY <2>4 DEF InOrder
<1>2. I \subseteq 1..2 /\ \A i \in I : key[i] \in Int OBVIOUS
<1>3. \A i \in I : s[i] = t[i] OBVIOUS
<1> HIDE DEF I, key
<1>4. \A j \in 1..C : Numbers(key, I, j) BY <1>2, RankNumbers
<1>5. \A j \in 1..C : f(j) \in I BY <1>4 DEF Numbers
<1> HIDE DEF f, C
<1>6. \A j \in 1..C : s[f(j)] = t[f(j)] BY <1>3, <1>5
<1> QED BY <1>1, <1>6

(* A hop that did not respond gives no sample. *)
LEMMA LostHop ==
  ASSUME NEW hops, DOMAIN hops = 1..2, hops[1] \in TraceHop, hops[2] \in TraceHop,
         NEW i \in 1..2, ~responded(hops[i])
  PROVE  Silent(hopsAt(hops, hops[i].hop))
<1> DEFINE n == hops[i].hop
           o == hopsAt(hops, n)
           I == {j \in 1..2 : hops[j].hop = n}
<1>1. Filters(o, hops, 2, I, TraceHop) BY HopsAtTyped
<1>2. i \in I OBVIOUS
<1> HIDE DEF o, I, n
<1>3. PICK f : Picks(f, hops, o, I) BY <1>1 DEF Filters
<1>4. PICK k \in 1..Len(o) : f[k] = i BY <1>2, <1>3 DEF Picks
<1>5. o[k] = hops[i] BY <1>3, <1>4 DEF Picks
<1>6. Silent(o) BY <1>4, <1>5 DEF Silent
<1> QED BY <1>6 DEF o, n

(* With a silent sample a hop is neither stable nor changed. *)
LEMMA SilentIsUnstable ==
  ASSUME NEW runs, NEW n, hop_samples(runs, n) \in Seq(TraceHop), Silent(hop_samples(runs, n))
  PROVE  hop_verdict(runs, n) \notin {"Stable", "Changed"}
<1> DEFINE s == hop_samples(runs, n)
           N == Len(s)
           I == {i \in DOMAIN s : responded(s[i])}
           T == TraceHop
           o == InOrder(s, [i \in DOMAIN s |-> i], I)
           A == {o[i].addr : i \in DOMAIN o} \ {"none"}
<1>1. hop_verdict(runs, n) =
        CASE o = <<>> -> "ConsistentlyNonResponsive"
          [] o # <<>> /\ Len(o) < N -> "IntermittentResponse"
          [] OTHER -> IF Cardinality(A) <= 1 THEN "Stable" ELSE "Changed"
  BY DEF hop_verdict, hop_total, Keep, Where
<1>2. o = InOrder(s, [i \in DOMAIN s |-> i], I) OBVIOUS
<1> HIDE DEF s, o
<1>3. s \in Seq(T) /\ N \in Nat /\ DOMAIN s = 1..N BY DEF s
<1>4. I \subseteq 1..N /\ \A i \in I : s[i] \in T BY <1>3
<1>5. PICK k \in 1..N : ~responded(s[k]) BY DEF s, Silent
<1>6. k \notin I BY <1>5
<1> HIDE DEF I, N, T
<1>7. Filters(o, s, N, I, T) BY <1>2, <1>3, <1>4, Kept
<1>8. Len(o) = Cardinality(I) /\ Len(o) \in Nat BY <1>7 DEF Filters
<1>9. ~(Cardinality(I) >= N) BY <1>3, <1>4, <1>5, <1>6, AllKept
<1>10. Len(o) < N BY <1>3, <1>8, <1>9
<1> HIDE DEF A
<1> QED BY <1>1, <1>10

(* The verdict on a hop depends on nothing but its samples. *)
LEMMA SameVerdict ==
  ASSUME NEW s, NEW t, NEW n, hop_samples(s, n) = hop_samples(t, n)
  PROVE  hop_verdict(s, n) = hop_verdict(t, n)
BY DEF hop_verdict, hop_total

(* The stability that provider-path reports. *)
LEMMA ProviderReport ==
  ASSUME NEW e, NEW ok, dispatch("provider-path", e, ok).exit = 0
  PROVE  dispatch("provider-path", e, ok).report.stability = assess_path_stability(tracesOf(e))
<1> DEFINE c == "provider-path"
           T == <<SubSeq(e, 1, 2), SubSeq(e, 3, 4)>>
           a == [tool |-> ok, traces |-> T,
                 connect |-> [resolves |-> TRUE, binds |-> TRUE, connects |-> ok],
                 operator |-> FALSE, ptr |-> "region"]
           runs == [i \in DOMAIN a.traces |-> run_traceroute(a.traces[i])]
<1>1. dispatch(c, e, ok) = path_report(c, e, ok) BY Routes DEF PathCommands
<1>2. path_report(c, e, ok) = provider_path_run(a) BY Zenon DEF path_report
<1>3. runs = tracesOf(e)
  <2>1. a.traces = T /\ DOMAIN T = 1..2 /\ T[1] = SubSeq(e, 1, 2) /\ T[2] = SubSeq(e, 3, 4) OBVIOUS
  <2>2. \A i \in 1..2 : T[i] = SubSeq(e, 2 * i - 1, 2 * i)
    <3>1. \A i \in 1..2 : i = 1 \/ i = 2 OBVIOUS
    <3>2. SubSeq(e, 2 * 1 - 1, 2 * 1) = SubSeq(e, 1, 2) /\ SubSeq(e, 2 * 2 - 1, 2 * 2) = SubSeq(e, 3, 4) OBVIOUS
    <3> HIDE DEF T
    <3> QED BY <2>1, <3>1, <3>2
  <2> HIDE DEF a, T
  <2> QED BY <2>1, <2>2 DEF tracesOf
<1>4. \/ provider_path_run(a) = Refusal(1)
      \/ /\ provider_path_run(a).report.stability = assess_path_stability(runs)
  <2> HIDE DEF runs
  <2> QED BY DEF provider_path_run, Completed, runs
<1> HIDE DEF a, runs
<1> QED BY <1>1, <1>2, <1>3, <1>4 DEF Refusal

(* A hop without an answer is intermittent at most. *)
LEMMA TracesTyped ==
  ASSUME NEW e, DOMAIN e = 1..4, \A i \in 1..4 : e[i] \in TraceLine
  PROVE  /\ DOMAIN tracesOf(e) = 1..2
         /\ \A i \in 1..2 : /\ DOMAIN tracesOf(e)[i].hops = 1..2
                            /\ \A j \in 1..2 : /\ tracesOf(e)[i].hops[j] = hopOf(e[2 * (i - 1) + j])
                                               /\ tracesOf(e)[i].hops[j] \in TraceHop
                                               /\ tracesOf(e)[i].hops[j].hop = e[2 * (i - 1) + j].hop
<1> DEFINE Good(i) == /\ DOMAIN tracesOf(e)[i].hops = 1..2
                      /\ \A j \in 1..2 : /\ tracesOf(e)[i].hops[j] = hopOf(e[2 * (i - 1) + j])
                                         /\ tracesOf(e)[i].hops[j] \in TraceHop
                                         /\ tracesOf(e)[i].hops[j].hop = e[2 * (i - 1) + j].hop
<1>1. ASSUME NEW l \in TraceLine PROVE hopOf(l) \in TraceHop /\ hopOf(l).hop = l.hop
  BY DEF TraceLine, TraceHop, hopOf, Missing
<1>2. DOMAIN tracesOf(e) = 1..2 BY DEF tracesOf
<1>3. ASSUME NEW i \in 1..2, NEW s, DOMAIN s = 1..2, s[1] = e[2 * (i - 1) + 1], s[2] = e[2 * (i - 1) + 2],
             tracesOf(e)[i] = run_traceroute(s)
      PROVE  Good(i)
  <2>1. 2 * (i - 1) + 1 \in 1..4 /\ 2 * (i - 1) + 2 \in 1..4 OBVIOUS
  <2>2. s[1] \in TraceLine /\ s[2] \in TraceLine BY <1>3, <2>1
  <2>3. tracesOf(e)[i].hops = parse_traceroute(s) BY <1>3 DEF run_traceroute
  <2>4. /\ DOMAIN parse_traceroute(s) = 1..2
        /\ \A j \in 1..2 : parse_traceroute(s)[j] = hopOf(s[j])
    BY <1>3, <2>2, ParsedTrace
  <2>5. \A j \in 1..2 : s[j] = e[2 * (i - 1) + j] /\ s[j] \in TraceLine BY <1>3, <2>2
  <2> QED BY <1>1, <2>3, <2>4, <2>5
<1>4. tracesOf(e)[1] = run_traceroute(SubSeq(e, 1, 2)) /\ tracesOf(e)[2] = run_traceroute(SubSeq(e, 3, 4))
  BY DEF tracesOf
<1> DEFINE s == SubSeq(e, 1, 2)
           t == SubSeq(e, 3, 4)
<1>5. DOMAIN s = 1..2 /\ s[1] = e[1] /\ s[2] = e[2] /\ DOMAIN t = 1..2 /\ t[1] = e[3] /\ t[2] = e[4] OBVIOUS
<1> HIDE DEF s, t
<1>6. /\ 2 * (1 - 1) + 1 = 1 /\ 2 * (1 - 1) + 2 = 2 /\ 2 * (2 - 1) + 1 = 3 /\ 2 * (2 - 1) + 2 = 4
      /\ 1 \in 1..2 /\ 2 \in 1..2
  OBVIOUS
<1> HIDE DEF Good
<1>7. Good(1)
  <2>1. s[1] = e[2 * (1 - 1) + 1] /\ s[2] = e[2 * (1 - 1) + 2] /\ tracesOf(e)[1] = run_traceroute(s)
    BY <1>4, <1>5, <1>6 DEF s
  <2> QED BY <1>3, <1>5, <1>6, <2>1
<1>8. Good(2)
  <2>1. t[1] = e[2 * (2 - 1) + 1] /\ t[2] = e[2 * (2 - 1) + 2] /\ tracesOf(e)[2] = run_traceroute(t)
    BY <1>4, <1>5, <1>6 DEF t
  <2> QED BY <1>3, <1>5, <1>6, <2>1
<1>9. \A i \in 1..2 : Good(i)
  <2>1. \A i \in 1..2 : i = 1 \/ i = 2 OBVIOUS
  <2> QED BY <1>7, <1>8, <2>1
<1> QED BY <1>2, <1>9 DEF Good

(* A lost hop never makes a path stable or unstable. *)
LEMMA ProviderPathWithholds ==
  ASSUME NEW g, NEW ok, Shaped("provider-path", g)
  PROVE  Withholds("provider-path", g, ok)
<1> DEFINE c == "provider-path"
<1>1. Shapes(c) = [i \in 1..4 |-> TraceLine] BY Zenon DEF Shapes, TraceLine
<1>2. g \in Seq(Values) /\ Len(g) = 4 /\ g[1] \in TraceLine /\ g[2] \in TraceLine
      /\ g[3] \in TraceLine /\ g[4] \in TraceLine
  BY <1>1, FourShaped
<1>3. ASSUME NEW w \in DOMAIN g, NEW m \in LostForms(c, w, g[w]),
             dispatch(c, g, ok).exit = 0,
             dispatch(c, [g EXCEPT ![w] = m], ok).exit = 0
      PROVE  claims(c, dispatch(c, [g EXCEPT ![w] = m], ok).report) \subseteq claims(c, dispatch(c, g, ok).report)
  <2> DEFINE h == [g EXCEPT ![w] = m]
             r == dispatch(c, g, ok).report
             q == dispatch(c, h, ok).report
             s == tracesOf(g)
             t == tracesOf(h)
             L(x) == UNION {{x[i].hops[j].hop : j \in DOMAIN x[i].hops} : i \in DOMAIN x}
             lost == g[w].hop
             V == {"Stable", "Changed"}
             x == (w + 1) \div 2
             y == w - 2 * (x - 1)
  <2>1. LostForms(c, w, g[w]) = {[g[w] EXCEPT !.stars = TRUE]} BY Zenon DEF LostForms
  <2>2. DOMAIN g = 1..4 /\ DOMAIN h = 1..4 /\ w \in 1..4 /\ h[w] = m /\ \A j \in 1..4 : j # w => h[j] = g[j] BY <1>2
  <2>3. \A j \in 1..4 : g[j] \in TraceLine BY <1>2
  <2>4. m \in TraceLine /\ m.stars /\ m.hop = lost
    <3>1. m = [g[w] EXCEPT !.stars = TRUE] /\ g[w] \in TraceLine BY <2>1, <2>2, <2>3
    <3> QED BY <3>1 DEF TraceLine
  <2> HIDE DEF h
  <2>5. \A j \in 1..4 : h[j] \in TraceLine /\ h[j].hop = g[j].hop /\ (g[j].hop # lost => h[j] = g[j])
    BY <2>2, <2>3, <2>4
  <2>6. /\ DOMAIN s = 1..2
        /\ \A i \in 1..2 : /\ DOMAIN s[i].hops = 1..2
                           /\ \A j \in 1..2 : /\ s[i].hops[j] = hopOf(g[2 * (i - 1) + j])
                                              /\ s[i].hops[j] \in TraceHop
                                              /\ s[i].hops[j].hop = g[2 * (i - 1) + j].hop
    BY <2>2, <2>3, TracesTyped
  <2>7. /\ DOMAIN t = 1..2
        /\ \A i \in 1..2 : /\ DOMAIN t[i].hops = 1..2
                           /\ \A j \in 1..2 : /\ t[i].hops[j] = hopOf(h[2 * (i - 1) + j])
                                              /\ t[i].hops[j] \in TraceHop
                                              /\ t[i].hops[j].hop = h[2 * (i - 1) + j].hop
    BY <2>2, <2>5, TracesTyped
  <2>8. \A i, j \in 1..2 : 2 * (i - 1) + j \in 1..4 OBVIOUS
  <2>9. r.stability = assess_path_stability(s) /\ q.stability = assess_path_stability(t) BY <1>3, ProviderReport DEF h
  <2> HIDE DEF s, t, r, q
  <2>10. \A i, j \in 1..2 : /\ t[i].hops[j].hop = s[i].hops[j].hop
                            /\ s[i].hops[j].hop # lost => t[i].hops[j] = s[i].hops[j]
    BY <2>5, <2>6, <2>7, <2>8
  <2>11. L(s) = L(t)
    <3>1. L(s) = UNION {{s[i].hops[j].hop : j \in 1..2} : i \in 1..2} BY <2>6
    <3>2. L(t) = UNION {{t[i].hops[j].hop : j \in 1..2} : i \in 1..2} BY <2>7
    <3> HIDE DEF L
    <3> QED BY <2>10, <3>1, <3>2, SMTT(30)
  <2>12. /\ r.stability = [n \in L(s) |-> hop_verdict(s, n)]
         /\ q.stability = [n \in L(t) |-> hop_verdict(t, n)]
    BY <2>9, Zenon DEF assess_path_stability
  <2>13. /\ \A n : hop_samples(s, n) = hopsAt(s[1].hops, n) \o hopsAt(s[2].hops, n)
         /\ \A n : hop_samples(t, n) = hopsAt(t[1].hops, n) \o hopsAt(t[2].hops, n)
    BY <2>6, <2>7, HopSamples
  <2>14. ASSUME NEW n, n # lost PROVE hop_verdict(s, n) = hop_verdict(t, n)
    <3>1. ASSUME NEW i \in 1..2 PROVE hopsAt(s[i].hops, n) = hopsAt(t[i].hops, n)
      <4> DEFINE a == s[i].hops
                 b == t[i].hops
      <4>1. DOMAIN a = 1..2 /\ DOMAIN b = 1..2 /\ \A j \in 1..2 : a[j].hop = b[j].hop /\ (a[j].hop = n => a[j] = b[j])
        BY <2>6, <2>7, <2>10, <2>14
      <4> HIDE DEF a, b
      <4>2. hopsAt(a, n) = hopsAt(b, n) BY <4>1, SameHops
      <4> QED BY <4>2 DEF a, b
    <3>2. hopsAt(s[1].hops, n) = hopsAt(t[1].hops, n) /\ hopsAt(s[2].hops, n) = hopsAt(t[2].hops, n) BY <3>1
    <3>3. hop_samples(s, n) = hop_samples(t, n) BY <2>13, <3>2, Zenon
    <3> QED BY <3>3, SameVerdict
  <2>15. hop_verdict(t, lost) \notin V
    <3>1. PICK i \in 1..2, j \in 1..2 : w = 2 * (i - 1) + j
      <4>1. w = 1 \/ w = 2 \/ w = 3 \/ w = 4 BY <2>2
      <4>2. x \in 1..2 /\ y \in 1..2 /\ w = 2 * (x - 1) + y BY <4>1
      <4> QED BY <4>2
    <3> DEFINE a == hopsAt(t[1].hops, lost)
               b == hopsAt(t[2].hops, lost)
               u == t[i].hops
    <3>2. DOMAIN u = 1..2 /\ u[1] \in TraceHop /\ u[2] \in TraceHop /\ u[j] = hopOf(m) /\ u[j].hop = lost
      BY <2>2, <2>4, <2>7, <3>1
    <3>3. ~responded(u[j]) BY <2>4, <3>2 DEF hopOf, responded, Known
    <3> HIDE DEF u
    <3>4. Silent(hopsAt(u, u[j].hop)) BY <3>2, <3>3, LostHop
    <3>5. Silent(a) \/ Silent(b)
      <4>1. i = 1 \/ i = 2 OBVIOUS
      <4> QED BY <3>2, <3>4, <4>1 DEF u
    <3>6. a \in Seq(TraceHop) /\ b \in Seq(TraceHop)
      <4>1. ASSUME NEW k \in 1..2 PROVE hopsAt(t[k].hops, lost) \in Seq(TraceHop)
        <5> DEFINE v == t[k].hops
        <5>1. DOMAIN v = 1..2 /\ v[1] \in TraceHop /\ v[2] \in TraceHop BY <2>7
        <5> HIDE DEF v
        <5>2. Filters(hopsAt(v, lost), v, 2, {l \in 1..2 : v[l].hop = lost}, TraceHop) BY <5>1, HopsAtTyped
        <5> QED BY <5>2 DEF Filters, v
      <4> QED BY <4>1
    <3>7. hop_samples(t, lost) = a \o b BY <2>13, Zenon
    <3> HIDE DEF a, b, lost
    <3>8. a \o b \in Seq(TraceHop) /\ Silent(a \o b)
      <4> DEFINE W == TraceHop
      <4>0. a \in Seq(W) /\ b \in Seq(W) BY <3>6
      <4> HIDE DEF W
      <4>1. /\ a \o b \in Seq(W) /\ Len(a \o b) = Len(a) + Len(b) /\ Len(a) \in Nat /\ Len(b) \in Nat
            /\ \A k \in 1..Len(a) : (a \o b)[k] = a[k]
            /\ \A k \in 1..Len(b) : (a \o b)[Len(a) + k] = b[k]
        BY <4>0
      <4> DEFINE z == a \o b
      <4>2. CASE Silent(a)
        <5>1. PICK k \in 1..Len(a) : ~responded(a[k]) BY <4>2 DEF Silent
        <5>2. k \in 1..Len(z) /\ z[k] = a[k] BY <4>1
        <5> QED BY <4>1, <5>1, <5>2 DEF Silent, W
      <4>3. CASE Silent(b)
        <5>1. PICK k \in 1..Len(b) : ~responded(b[k]) BY <4>3 DEF Silent
        <5>2. Len(a) + k \in 1..Len(z) /\ z[Len(a) + k] = b[k] BY <4>1
        <5> QED BY <4>1, <5>1, <5>2 DEF Silent, W
      <4> QED BY <3>5, <4>2, <4>3
    <3> QED BY <3>7, <3>8, SilentIsUnstable
  <2>16. /\ claims(c, r) = {<<n, r.stability[n]>> : n \in {k \in DOMAIN r.stability : r.stability[k] \in V}}
         /\ claims(c, q) = {<<n, q.stability[n]>> : n \in {k \in DOMAIN q.stability : q.stability[k] \in V}}
    BY Zenon DEF claims
  <2>17. claims(c, q) \subseteq claims(c, r)
    <3> HIDE DEF L, lost, V
    <3>1. ASSUME NEW n \in DOMAIN q.stability, q.stability[n] \in V
          PROVE  n \in DOMAIN r.stability /\ r.stability[n] = q.stability[n]
      <4>1. n \in L(t) /\ n \in L(s) /\ q.stability[n] = hop_verdict(t, n) /\ r.stability[n] = hop_verdict(s, n)
        BY <2>11, <2>12
      <4>2. n # lost BY <2>15, <3>1, <4>1
      <4> QED BY <2>12, <2>14, <4>1, <4>2
    <3> QED BY <2>16, <3>1
  <2> QED BY <2>17 DEF r, q, h
<1> QED BY <1>3 DEF Withholds

(* No promising command claims more because of one of the losses of        *)
(* LostForms: held_constant, grade_from_phases, from_ntp_result,           *)
(* compare_sites, classify_coverage, assess_path_stability and the others  *)
(* fall back to withheld, refused, unavailable or none.  After one of the  *)
(* losses of Unnoticed, judge_circuits, is_severe, tcp_result, udp_result, *)
(* qualify_zero_drop_claim and judge_wired_edge claim just what they claim *)
(* of the figure that stands in for the lost one.                          *)
THEOREM LossOnlyWithholds == Spec => []LosingEvidenceOnlyWithholds
<1>1. MachineInv => LosingEvidenceOnlyWithholds
  <2> DEFINE lost(i) == LostForms(command, i, evidence[i])
             unnoticed(i) == Unnoticed(command, i, evidence)
             on(i, m) == ClaimsOn(command, [evidence EXCEPT ![i] = m], ready)
             With(i) == [m \in lost(i) \cup {p[k] : p \in unnoticed(i), k \in 1..2} |-> on(i, m)]
  <2> SUFFICES ASSUME MachineInv, outcome.exit = 0, command \in PromisingCommands, NEW i \in DOMAIN evidence
               PROVE  OnlyWithheld(With(i), lost(i), unnoticed(i), claims(command, report))
    BY DEF LosingEvidenceOnlyWithholds
  <2>1. ready \in BOOLEAN /\ outcome = dispatch(command, evidence, ready) BY VerdictOnShapedEvidence
  <2>2. command \in WithholdingCommands \/ command \in FoldingCommands
    BY DEF PromisingCommands, WithholdingCommands, FoldingCommands
  <2>3. command \in ShapedCommands BY <2>2 DEF WithholdingCommands, FoldingCommands, ShapedCommands
  <2>4. Shaped(command, evidence) BY <2>3, VerdictOnShapedEvidence
  <2>5. Withholds(command, evidence, ready)
    <3>1. CASE command \in WithholdingCommands BY <2>1, <2>4, <3>1, EachWithholds
    <3>2. CASE command \in FoldingCommands
      BY <2>4, <3>2, TunerWithholds, SiteAbWithholds, CoverageWithholds, ProviderPathWithholds, Zenon
         DEF FoldingCommands
    <3> QED BY <2>2, <3>1, <3>2
  <2>6. ReadsAs(command, evidence, ready)
    <3>1. CASE command \in FillingCommands
      BY <2>4, <3>1, CircuitReadsAs, TunerReadsAs, TcpVsUdpReadsAs, LivenessReadsAs, WiredEdgeReadsAs, Zenon
         DEF FillingCommands
    <3>2. CASE command \notin FillingCommands BY <3>2, NothingElseIsFilledIn
    <3> QED BY <3>1, <3>2
  <2>7. \A m \in lost(i) : on(i, m) \subseteq claims(command, report)
    BY <2>1, <2>5, Zenon DEF Withholds, ClaimsOf, ClaimsOn, report
  <2>8. \A p \in unnoticed(i) : on(i, p[1]) = on(i, p[2]) BY <2>6, Zenon DEF ReadsAs
  <2> HIDE DEF on, lost, unnoticed
  <2>9. \A p \in unnoticed(i) : With(i)[p[1]] = on(i, p[1]) /\ With(i)[p[2]] = on(i, p[2]) OBVIOUS
  <2> QED BY <2>7, <2>8, <2>9 DEF OnlyWithheld
<1> QED BY <1>1, MachineInvariant, PTL

-----------------------------------------------------------------------------
(* AgreesWithReference: packet-loss, the longest run of timeouts. *)

(* One probe keeps the type of the scan for lost runs. *)
LEMMA LossStepTyped ==
  ASSUME NEW acc \in LossState, NEW got
  PROVE  lossStep(acc, got) \in LossState
<1>1. acc.current + 1 \in Nat /\ Larger(acc.longest, acc.current + 1) \in Nat BY DEF LossState, Larger
<1>2. [current |-> acc.current + 1, longest |-> Larger(acc.longest, acc.current + 1)] \in LossState
  BY <1>1 DEF LossState
<1>3. [acc EXCEPT !.current = 0] \in LossState BY DEF LossState
<1> QED BY <1>2, <1>3, Zenon DEF lossStep

(* One more probe keeps the scan that of the probes so far. *)
LEMMA LossNext ==
  ASSUME NEW n \in Nat, NEW L, L \subseteq 1..n, NEW k \in 0..(n - 1), NEW acc \in LossState,
         LossRun(acc, L, k), NEW got, (k + 1 \in L) <=> ~got
  PROVE  LossRun(lossStep(acc, got), L, k + 1)
<1> DEFINE b == lossStep(acc, got)
           c == acc.current
           m == acc.longest
<1>1. c \in Nat /\ m \in Nat /\ k \in Nat /\ b \in LossState BY LossStepTyped DEF LossState
<1>2. c <= m /\ m <= k /\ (k - c + 1)..k \subseteq L /\ (c < k => k - c \notin L) BY DEF LossRun
<1>3. PICK w \in 1..(k - m + 1) : w..(w + m - 1) \subseteq L BY DEF LossRun
<1>4. \A i \in 1..k : \A j \in i..k : i..j \subseteq L => j - i + 1 <= m BY DEF LossRun
<1>5. ASSUME got PROVE LossRun(b, L, k + 1)
  <2>1. b.current = 0 /\ b.longest = m BY <1>5 DEF lossStep, LossState
  <2>2. k + 1 \notin L BY <1>5
  <2>3. w \in 1..((k + 1) - m + 1) BY <1>1
  <2>4. ASSUME NEW i \in 1..(k + 1), NEW j \in i..(k + 1), i..j \subseteq L PROVE j - i + 1 <= m
    <3>1. j # k + 1 BY <2>2, <2>4
    <3>2. i \in 1..k /\ j \in i..k BY <1>1, <3>1
    <3> QED BY <1>4, <2>4, <3>2
  <2>5. ((k + 1) - 0 + 1)..(k + 1) \subseteq L BY <1>1
  <2>6. \E i \in 1..((k + 1) - m + 1) : i..(i + m - 1) \subseteq L BY <1>3, <2>3
  <2>7. (k + 1) - 0 \notin L /\ 0 <= m /\ m <= k + 1 BY <1>1, <1>2, <2>2
  <2> HIDE DEF b, c, m
  <2> QED BY <2>1, <2>4, <2>5, <2>6, <2>7 DEF LossRun
<1>6. ASSUME ~got PROVE LossRun(b, L, k + 1)
  <2> DEFINE x == Larger(m, c + 1)
  <2>1. b.current = c + 1 /\ b.longest = x BY <1>6 DEF lossStep, LossState
  <2>2. k + 1 \in L BY <1>6
  <2>3. x \in Nat /\ m <= x /\ c + 1 <= x /\ x <= k + 1 /\ (x = m \/ x = c + 1) BY <1>1, <1>2 DEF Larger
  <2> HIDE DEF b, c, m, x
  <2>4. ((k + 1) - (c + 1) + 1)..(k + 1) \subseteq L BY <1>1, <1>2, <2>2
  <2>5. c + 1 < k + 1 => (k + 1) - (c + 1) \notin L BY <1>1, <1>2
  <2>6. \E i \in 1..((k + 1) - x + 1) : i..(i + x - 1) \subseteq L
    <3>1. CASE x = m
      <4>1. w \in 1..((k + 1) - x + 1) BY <1>1, <3>1
      <4> QED BY <1>3, <3>1, <4>1
    <3>2. CASE x = c + 1
      <4> DEFINE i == (k + 1) - (c + 1) + 1
      <4>1. i \in 1..((k + 1) - x + 1) /\ i + x - 1 = k + 1 BY <1>1, <1>2, <2>3, <3>2
      <4>2. i..(i + x - 1) \subseteq L BY <2>4, <4>1
      <4> HIDE DEF i
      <4> QED BY <4>1, <4>2
    <3> QED BY <2>3, <3>1, <3>2
  <2>7. ASSUME NEW i \in 1..(k + 1), NEW j \in i..(k + 1), i..j \subseteq L PROVE j - i + 1 <= x
    <3>1. CASE j # k + 1
      <4>1. i \in 1..k /\ j \in i..k BY <1>1, <3>1
      <4>2. j - i + 1 <= m BY <1>4, <2>7, <4>1
      <4> QED BY <1>1, <2>3, <4>1, <4>2
    <3>2. CASE j = k + 1
      <4>1. ASSUME c < k, i <= k - c PROVE FALSE
        <5>1. k - c \in i..j BY <1>1, <3>2, <4>1
        <5> QED BY <1>2, <2>7, <4>1, <5>1
      <4>2. j - i + 1 <= c + 1 BY <1>1, <1>2, <3>2, <4>1
      <4> QED BY <1>1, <2>3, <3>2, <4>2
    <3> QED BY <3>1, <3>2
  <2> QED BY <1>1, <1>2, <2>1, <2>3, <2>4, <2>5, <2>6, <2>7 DEF LossRun
<1> QED BY <1>5, <1>6 DEF b

(* The scan ends with the longest run of timeouts. *)
LEMMA LossScan ==
  ASSUME NEW n \in Nat, NEW lines, DOMAIN lines = 1..n
  PROVE  \E acc \in LossState :
           /\ LossRun(acc, {i \in 1..n : ~lines[i]}, n)
           /\ analyze_loss_pattern(lines) =
                (CASE lines = <<>>                          -> "Unknown"
                   [] lines # <<>> /\ acc.longest >= 5      -> "Burst Loss"
                   [] lines # <<>> /\ acc.longest \in 2 .. 4 -> "Mixed"
                   [] OTHER                                  -> "Random")
<1> DEFINE T == LossState
           base == [current |-> 0, longest |-> 0]
           L == {i \in 1..n : ~lines[i]}
           G == [p \in T \X (1..n) |-> lossStep(p[1], lines[p[2]])]
           E(F) == F = [t \in SUBSET (1..n) |->
                          IF t = {} THEN base ELSE lossStep(F[t \ {Max(t)}], lines[Max(t)])]
           iter == CHOOSE F : E(F)
           pattern(acc) == CASE lines = <<>>                          -> "Unknown"
                             [] lines # <<>> /\ acc.longest >= 5      -> "Burst Loss"
                             [] lines # <<>> /\ acc.longest \in 2 .. 4 -> "Mixed"
                             [] OTHER                                  -> "Random"
<1>0. base \in T /\ Len(lines) = n BY DEF LossState
<1>1. \A x \in T, i \in 1..n : lossStep(x, lines[i]) \in T BY LossStepTyped
<1>a. G \in [T \X (1..n) -> T]
  <2> HIDE DEF T
  <2> QED BY <1>1
<1>2. \A x \in T, i \in 1..n : G[<<x, i>>] = lossStep(x, lines[i]) OBVIOUS
<1>3. analyze_loss_pattern(lines) = pattern(iter[1..n])
  BY <1>0, Zenon DEF analyze_loss_pattern, lossStep, FoldLeft, MapThenFoldSet
<1> HIDE DEF G, T, base, L, pattern
<1>4. \E F : E(F)
  <2>1. PICK F : Solves(F, n, T, base, G) BY <1>0, <1>a, FoldSolves
  <2>2. ASSUME NEW t \in SUBSET (1..n)
        PROVE  F[t] = IF t = {} THEN base ELSE lossStep(F[t \ {Max(t)}], lines[Max(t)])
    BY <1>0, <1>2, <2>1, TopOf DEF Solves
  <2>3. F = [t \in SUBSET (1..n) |-> F[t]] BY <2>1 DEF Solves
  <2>4. E(F) BY <2>2, <2>3
  <2> QED BY <2>4
<1>5. E(iter)
  <2> HIDE DEF E
  <2> QED BY <1>4
<1> HIDE DEF iter
<1>6. Obeys(iter, n, T, base, G) BY <1>0, <1>2, <1>5, TopOf DEF Obeys
<1> HIDE DEF E
<1>7. PICK a : Traces(a, n, T, base, G, iter[1..n]) BY <1>0, <1>a, <1>6, FoldTrace
<1>8. a \in [0..n -> T] /\ a[0] = base /\ a[n] = iter[1..n] BY <1>7 DEF Traces
<1>9. ASSUME NEW k \in 0..(n - 1) PROVE a[k + 1] = lossStep(a[k], lines[k + 1])
  <2>1. a[k + 1] = G[<<a[k], k + 1>>] BY <1>7 DEF Traces
  <2>2. a[k] \in T /\ k + 1 \in 1..n BY <1>0, <1>8
  <2> QED BY <1>2, <2>1, <2>2
<1> DEFINE S == {k \in 0..n : LossRun(a[k], L, k)}
<1>10. 0 \in S
  <2>1. LossRun(base, L, 0) BY DEF LossRun, base
  <2> QED BY <1>0, <1>8, <2>1
<1>11. ASSUME NEW k \in 0..(n - 1), k \in S PROVE k + 1 \in S
  <2>1. LossRun(a[k], L, k) /\ a[k] \in LossState BY <1>8, <1>11 DEF T
  <2>2. L \subseteq 1..n /\ (k + 1 \in L <=> ~lines[k + 1]) BY DEF L
  <2>3. LossRun(lossStep(a[k], lines[k + 1]), L, k + 1) BY <2>1, <2>2, LossNext
  <2>4. k + 1 \in 0..n OBVIOUS
  <2> QED BY <1>9, <2>3, <2>4
<1>12. \A k \in 0..n : k \in S
  <2> HIDE DEF S
  <2> QED BY <1>10, <1>11, UpTo
<1>13. n \in 0..n OBVIOUS
<1>14. LossRun(a[n], L, n) /\ a[n] \in LossState BY <1>8, <1>12, <1>13 DEF T
<1>15. analyze_loss_pattern(lines) = pattern(a[n]) BY <1>3, <1>8
<1> QED BY <1>14, <1>15, Zenon DEF pattern, L

(* The evidence of a command all of whose measurements have one shape. *)
LEMMA UniformShaped ==
  ASSUME MachineInv, outcome.exit = 0, NEW S, command \in ShapedCommands,
         Shapes(command) = [i \in DOMAIN Measurements[command] |-> S]
  PROVE  /\ Len(evidence) \in Nat \ {0} /\ DOMAIN evidence = 1..Len(evidence)
         /\ \A i \in 1..Len(evidence) : evidence[i] \in S
<1> DEFINE N == Len(Measurements[command])
<1>1. evidence \in Seq(Values) /\ N \in Nat \ {0} /\ DOMAIN Measurements[command] = 1..N
  BY InvestigationsAssumption DEF MachineInv, Gathered, Commands
<1>2. Shaped(command, evidence) BY VerdictOnShapedEvidence
<1> HIDE DEF N
<1>3. Len(Shapes(command)) = N BY <1>1
<1>4. Len(evidence) = N /\ \A i \in 1..N : evidence[i] \in Shapes(command)[i] BY <1>2, <1>3, Zenon DEF Shaped
<1>5. \A i \in 1..N : Shapes(command)[i] = S BY <1>1
<1> QED BY <1>1, <1>4, <1>5

(* The pattern that packet-loss reports. *)
LEMMA PacketLossReport ==
  ASSUME NEW e
  PROVE  dispatch("packet-loss", e, TRUE).report.pattern = analyze_loss_pattern(e)
<1> DEFINE c == "packet-loss"
           a == [ping_ok |-> TRUE, transmitted |-> Len(e), lines |-> e,
                 received |-> Count(e, LAMBDA x : x), literal |-> TRUE, open |-> {443}]
<1>1. dispatch(c, e, TRUE) = stream_report(c, e, TRUE) BY Route DEF StreamCommands
<1>2. stream_report(c, e, TRUE) = Completed(packet_loss_test(a)) BY Zenon DEF stream_report
<1>3. a.ping_ok /\ a.lines = e OBVIOUS
<1> HIDE DEF a
<1>4. packet_loss_test(a).pattern = analyze_loss_pattern(a.lines) BY <1>3 DEF packet_loss_test
<1> QED BY <1>1, <1>2, <1>3, <1>4, ReportOf

(* Five timeouts in a row, else two. *)
LEMMA PatternIsTheLongestRun ==
  ASSUME MachineInv, outcome.exit = 0, command = "packet-loss",
         report = dispatch("packet-loss", evidence, TRUE).report
  PROVE  LossPatternIsTheLongestRun
<1> DEFINE c == "packet-loss"
           e == evidence
           n == Len(e)
           L == {i \in 1..n : ~e[i]}
           InARow(k) == \E i \in 1..(n - k + 1) : \A j \in i..(i + k - 1) : ~e[j]
<1>1. n \in Nat \ {0} /\ DOMAIN e = 1..n
  <2>1. Shapes(command) = [i \in DOMAIN Measurements[command] |-> BOOLEAN] BY Zenon DEF Shapes
  <2> QED BY <2>1, UniformShaped DEF ShapedCommands
<1>2. e # <<>> BY <1>1
<1> HIDE DEF n
<1>3. PICK acc \in LossState :
        /\ LossRun(acc, L, n)
        /\ analyze_loss_pattern(e) =
             (CASE e = <<>>                          -> "Unknown"
                [] e # <<>> /\ acc.longest >= 5      -> "Burst Loss"
                [] e # <<>> /\ acc.longest \in 2 .. 4 -> "Mixed"
                [] OTHER                             -> "Random")
  BY <1>1, LossScan
<1> DEFINE m == acc.longest
<1>4. m \in Nat BY DEF LossState
<1>5. analyze_loss_pattern(e) = IF m >= 5 THEN "Burst Loss" ELSE IF m \in 2..4 THEN "Mixed" ELSE "Random"
  <2>1. CASE m >= 5
    <3>1. m \notin 2..4 BY <1>4, <2>1
    <3> QED BY <1>2, <1>3, <2>1, <3>1
  <2>2. CASE ~(m >= 5)
    <3>1. CASE m \in 2..4 BY <1>2, <1>3, <2>2, <3>1
    <3>2. CASE m \notin 2..4 BY <1>2, <1>3, <2>2, <3>2
    <3> QED BY <3>1, <3>2
  <2> QED BY <2>1, <2>2
<1>6. /\ m <= n
      /\ \E i \in 1..(n - m + 1) : i..(i + m - 1) \subseteq L
      /\ \A i \in 1..n : \A j \in i..n : i..j \subseteq L => j - i + 1 <= m
  BY <1>3 DEF LossRun
<1> HIDE DEF m
<1>7. ASSUME NEW k \in 2..5 PROVE InARow(k) <=> k <= m
  <2>1. ASSUME k <= m PROVE InARow(k)
    <3>1. PICK i \in 1..(n - m + 1) : i..(i + m - 1) \subseteq L BY <1>6
    <3>2. i \in 1..(n - k + 1) /\ \A j \in i..(i + k - 1) : j \in i..(i + m - 1) BY <1>1, <1>4, <1>6, <2>1
    <3>3. \A j \in i..(i + k - 1) : ~e[j] BY <3>1, <3>2
    <3> QED BY <3>2, <3>3
  <2>2. ASSUME InARow(k) PROVE k <= m
    <3>1. PICK i \in 1..(n - k + 1) : \A j \in i..(i + k - 1) : ~e[j] BY <2>2
    <3>2. i \in 1..n /\ i + k - 1 \in i..n /\ (i + k - 1) - i + 1 = k BY <1>1
    <3>3. \A j \in i..(i + k - 1) : j \in 1..n BY <1>1, <3>2
    <3>4. i..(i + k - 1) \subseteq L BY <3>1, <3>3
    <3> HIDE DEF L
    <3> QED BY <1>6, <3>2, <3>4
  <2> QED BY <2>1, <2>2
<1>8. (InARow(5) <=> m >= 5) /\ (~InARow(5) => (InARow(2) <=> m \in 2..4)) BY <1>4, <1>7
<1>9. report.pattern = analyze_loss_pattern(e) BY PacketLossReport
<1> HIDE DEF InARow
<1>10. report.pattern = IF InARow(5) THEN "Burst Loss" ELSE IF InARow(2) THEN "Mixed" ELSE "Random"
  <2> DEFINE p == m >= 5
             q == m \in 2..4
  <2>1. report.pattern = IF p THEN "Burst Loss" ELSE IF q THEN "Mixed" ELSE "Random" BY <1>5, <1>9, Zenon
  <2>2. (InARow(5) <=> p) /\ (~InARow(5) => (InARow(2) <=> q)) BY <1>8
  <2> HIDE DEF p, q
  <2> QED BY <2>1, <2>2, Zenon
<1> QED BY <1>10 DEF LossPatternIsTheLongestRun, InARow, n

-----------------------------------------------------------------------------
(* AgreesWithReference: mtu, the binary search. *)

(* One probe keeps the type of the search. *)
LEMMA SearchStepTyped ==
  ASSUME NEW s \in SearchState, NEW fits
  PROVE  search_step(s, fits) \in SearchState
<1> DEFINE mid == (s.low + s.high) \div 2
<1>1. s.low \in Int /\ s.high \in Int /\ s.mtu \in Int /\ mid \in Int BY DEF SearchState
<1> HIDE DEF mid
<1>2. /\ [low |-> mid + 1, high |-> s.high, mtu |-> mid] \in SearchState
      /\ [low |-> s.low, high |-> mid - 1, mtu |-> s.mtu] \in SearchState
  BY <1>1 DEF SearchState
<1> QED BY <1>2, Zenon DEF search_step, mid

(* One more probe keeps the path MTU between the ends of the search. *)
LEMMA SearchNext ==
  ASSUME NEW min \in Int, NEW max \in Int, NEW g \in (min - 1)..max, NEW k \in Nat,
         NEW s \in SearchState, Searching(s, min, max, g, k)
  PROVE  Searching(search_step(s, min..g), min, max, g, k + 1)
<1> DEFINE r == search_step(s, min..g)
           mid == (s.low + s.high) \div 2
           l == s.low
           h == s.high
<1>1. l \in Int /\ h \in Int /\ s.mtu \in Int /\ mid \in Int /\ g \in Int BY DEF SearchState
<1>2. /\ min <= l /\ l <= h + 1 /\ h <= max /\ l - 1 <= g /\ g <= h
      /\ s.mtu = IF l = min THEN Missing ELSE l - 1
      /\ l > h \/ h - l + k <= max - min
  BY DEF Searching
<1>3. l <= h => l <= mid /\ mid <= h BY <1>1
<1>4. CASE ~(l <= h)
  <2>1. r = s BY <1>4 DEF search_step, search_continues
  <2>2. Searching(s, min, max, g, k + 1) BY <1>1, <1>2, <1>4 DEF Searching
  <2> QED BY <2>1, <2>2
<1>5. CASE l <= h /\ mid \in min..g
  <2>1. r = [low |-> mid + 1, high |-> h, mtu |-> mid] BY <1>5, Zenon DEF search_step, search_continues
  <2>2. r.low = mid + 1 /\ r.high = h /\ r.mtu = mid BY <2>1
  <2> HIDE DEF r, mid, l, h
  <2>3. Searching(r, min, max, g, k + 1) BY <1>1, <1>2, <1>3, <1>5, <2>2 DEF Searching
  <2> QED BY <2>3 DEF r
<1>6. CASE l <= h /\ mid \notin min..g
  <2>1. r = [low |-> l, high |-> mid - 1, mtu |-> s.mtu] BY <1>6, Zenon DEF search_step, search_continues
  <2>2. r.low = l /\ r.high = mid - 1 /\ r.mtu = s.mtu BY <2>1
  <2> HIDE DEF r, mid, l, h
  <2>3. Searching(r, min, max, g, k + 1) BY <1>1, <1>2, <1>3, <1>6, <2>2 DEF Searching
  <2> QED BY <2>3 DEF r
<1> QED BY <1>4, <1>5, <1>6

(* One step per size and one more are enough for the range to be empty. *)
LEMMA SearchIs ==
  ASSUME NEW min \in Int, NEW max \in Int, min <= max, NEW g \in (min - 1)..max
  PROVE  icmp_mtu_search(min, max, min..g) = IF g >= min THEN g ELSE Missing
<1> DEFINE n == max - min + 2
           T == SearchState
           base == [low |-> min, high |-> max, mtu |-> Missing]
           fits == min..g
           x == [i \in 1..n |-> i]
           G == [p \in T \X (1..n) |-> search_step(p[1], fits)]
           E(F) == F = [t \in SUBSET (1..n) |->
                          IF t = {} THEN base ELSE search_step(F[t \ {Max(t)}], fits)]
           iter == CHOOSE F : E(F)
<1>0. n \in Nat /\ base \in T /\ Len(x) = n /\ DOMAIN x = 1..n BY DEF SearchState, Missing
<1>1. \A s \in T, i \in 1..n : search_step(s, fits) \in T BY SearchStepTyped
<1>3. icmp_mtu_search(min, max, fits) = iter[1..n].mtu BY <1>0 DEF icmp_mtu_search, FoldLeft, MapThenFoldSet
<1> HIDE DEF n, T, x
<1>a. G \in [T \X (1..n) -> T] BY <1>1
<1>2. \A s \in T, i \in 1..n : G[<<s, i>>] = search_step(s, fits) OBVIOUS
<1> HIDE DEF G, base, fits
<1>4. \E F : E(F)
  <2>1. PICK F : Solves(F, n, T, base, G) BY <1>0, <1>a, FoldSolves
  <2>2. ASSUME NEW t \in SUBSET (1..n)
        PROVE  F[t] = IF t = {} THEN base ELSE search_step(F[t \ {Max(t)}], fits)
    BY <1>0, <1>2, <2>1, TopOf DEF Solves
  <2>3. F = [t \in SUBSET (1..n) |-> F[t]] BY <2>1 DEF Solves
  <2>4. E(F) BY <2>2, <2>3
  <2> QED BY <2>4
<1>5. E(iter)
  <2> HIDE DEF E
  <2> QED BY <1>4
<1> HIDE DEF iter
<1>6. Obeys(iter, n, T, base, G) BY <1>0, <1>2, <1>5, TopOf DEF Obeys
<1> HIDE DEF E
<1>7. PICK a : Traces(a, n, T, base, G, iter[1..n]) BY <1>0, <1>a, <1>6, FoldTrace
<1>8. a \in [0..n -> T] /\ a[0] = base /\ a[n] = iter[1..n] BY <1>7 DEF Traces
<1>9. ASSUME NEW k \in 0..(n - 1) PROVE a[k + 1] = search_step(a[k], fits)
  <2>1. a[k + 1] = G[<<a[k], k + 1>>] BY <1>7 DEF Traces
  <2>2. a[k] \in T /\ k + 1 \in 1..n BY <1>0, <1>8
  <2> QED BY <1>2, <2>1, <2>2
<1> DEFINE S == {k \in 0..n : Searching(a[k], min, max, g, k)}
<1>10. 0 \in S
  <2>1. Searching(base, min, max, g, 0) BY DEF Searching, base
  <2> QED BY <1>0, <1>8, <2>1
<1>11. ASSUME NEW k \in 0..(n - 1), k \in S PROVE k + 1 \in S
  <2>1. Searching(a[k], min, max, g, k) /\ a[k] \in SearchState /\ k \in Nat BY <1>8, <1>11 DEF T
  <2>2. Searching(search_step(a[k], fits), min, max, g, k + 1) BY <2>1, SearchNext DEF fits
  <2>3. k + 1 \in 0..n BY <1>0
  <2> QED BY <1>9, <2>2, <2>3
<1>12. \A k \in 0..n : k \in S
  <2> HIDE DEF S
  <2> QED BY <1>0, <1>10, <1>11, UpTo
<1>13. n \in 0..n BY <1>0
<1>14. Searching(a[n], min, max, g, n) /\ a[n] \in SearchState BY <1>8, <1>12, <1>13 DEF T
<1>15. a[n].mtu = IF g >= min THEN g ELSE Missing
  <2>1. a[n].low \in Int /\ a[n].high \in Int /\ g \in Int BY <1>14 DEF SearchState
  <2>2. a[n].low > a[n].high BY <1>14, <2>1 DEF Searching, n
  <2>3. a[n].low - 1 = g BY <1>14, <2>1, <2>2 DEF Searching
  <2> QED BY <1>14, <2>1, <2>3 DEF Searching
<1> QED BY <1>3, <1>8, <1>15 DEF fits

(* The size found is the MTU of the path, or none when it is below the     *)
(* sizes searched.                                                         *)
LEMMA SearchEndsAtThePathMtu ==
  ASSUME MachineInv, outcome.exit = 0, command = "mtu",
         report = dispatch("mtu", evidence, ready).report
  PROVE  SearchFindsThePathMtu
<1> DEFINE c == "mtu"
           e == evidence
           found == icmp_mtu_search(MinProbe, MaxProbe, MinProbe..e[1])
<1>1. Shaped(c, e) BY VerdictOnShapedEvidence DEF ShapedCommands
<1>2. e[1] \in (MinProbe - 1)..MaxProbe
  <2>1. Shapes(c) = <<(MinProbe - 1)..MaxProbe>> BY Zenon DEF Shapes
  <2>2. Len(Shapes(c)) = 1 BY <2>1
  <2>3. DOMAIN e = 1..1 /\ \A i \in 1..1 : e[i] \in Shapes(c)[i] BY <1>1, <2>2, ShapedAt
  <2>4. e[1] \in Shapes(c)[1] BY <2>3
  <2>5. Shapes(c)[1] = (MinProbe - 1)..MaxProbe
    <3> DEFINE A == (MinProbe - 1)..MaxProbe
    <3> HIDE DEF A
    <3>1. Shapes(c) = <<A>> BY <2>1 DEF A
    <3>2. Shapes(c)[1] = A BY <3>1
    <3> QED BY <3>2 DEF A
  <2> QED BY <2>4, <2>5, Zenon
<1>3. found = IF e[1] >= MinProbe THEN e[1] ELSE Missing
  <2>1. MinProbe \in Int /\ MaxProbe \in Int /\ MinProbe <= MaxProbe BY InvestigationsAssumption
  <2> QED BY <1>2, <2>1, SearchIs
<1>4. dispatch(c, e, ready) = path_report(c, e, ready) BY Routes DEF PathCommands
<1>5. path_report(c, e, ready) = Completed([mtu |-> found, test |-> icmp_mtu_test(~ready, found),
                                            tcp |-> tcp_mtu_test(ready)])
  BY Zenon DEF path_report
<1>6. report.mtu = found BY <1>4, <1>5, ReportOf
<1> QED BY <1>3, <1>6 DEF SearchFindsThePathMtu

-----------------------------------------------------------------------------
(* AgreesWithReference: resilience, the sessions that stayed dead. *)

(* last_known_alive is the last sample that said anything. *)
LEMMA LastKnownAlive ==
  ASSUME NEW own \in Seq(SessionSample)
  PROVE  LET W == {k \in 1..Len(own) : own[k].alive # "none"}
         IN  /\ W = {} => last_known_alive(own) = "none"
             /\ W # {} => /\ Max(W) \in W /\ \A k \in W : k <= Max(W)
                          /\ last_known_alive(own) = own[Max(W)].alive
<1> DEFINE W == {k \in 1..Len(own) : own[k].alive # "none"}
           none == [alive |-> "none"]
<1>1. last_known_alive(own) = (IF W = {} THEN none ELSE own[Max(W)]).alive
  <2>1. DOMAIN own = 1..Len(own) OBVIOUS
  <2> QED BY <2>1, Zenon DEF last_known_alive, LastOr, Where
<1>2. W \subseteq Nat /\ \A k \in W : k <= Len(own) OBVIOUS
<1>3. Len(own) \in Nat OBVIOUS
<1>4. none.alive = "none" OBVIOUS
<1> HIDE DEF W, none
<1>5. W # {} => Max(W) \in W /\ \A k \in W : k <= Max(W) BY <1>2, <1>3, MaxNat
<1>6. (W = {} => last_known_alive(own) = "none") /\ (W # {} => last_known_alive(own) = own[Max(W)].alive)
  BY <1>1, <1>4
<1> QED BY <1>5, <1>6 DEF W

(* session_state looks at the last sample that says whether it is alive. *)
LEMMA LostIsStayedDead ==
  ASSUME NEW n \in Nat, NEW samples, DOMAIN samples = 1..n,
         \A i \in 1..n : samples[i] \in SessionSample, NEW id
  PROVE  session_state(samples, id) = "lost" <=> StayedDead(samples, n, id)
<1> DEFINE I == {i \in 1..n : samples[i].session = id}
           key == [i \in DOMAIN samples |-> i]
           own == InOrder(samples, key, I)
           dead == \E i \in DOMAIN own : own[i].alive = "no"
           W == {k \in 1..Len(own) : own[k].alive # "none"}
<1>1. session_state(samples, id) = CASE last_known_alive(own) = "none" -> "never_sampled"
                                     [] dead /\ last_known_alive(own) = "no" -> "lost"
                                     [] OTHER -> "survived"
  BY Zenon DEF session_state, Keep, Where
<1>2. \E o : o = own OBVIOUS
<1>3. PICK o : o = own BY <1>2
<1>4. I \subseteq 1..n /\ \A i \in I : samples[i] \in SessionSample OBVIOUS
<1>5. o = InOrder(samples, key, I) BY <1>3
<1> HIDE DEF own
<1>6. Filters(o, samples, n, I, SessionSample)
  <2> HIDE DEF I
  <2> QED BY <1>4, <1>5, Kept
<1>7. o \in Seq(SessionSample) /\ \E f : Picks(f, samples, o, I) BY <1>6 DEF Filters
<1>8. PICK f : Picks(f, samples, o, I) BY <1>7
<1> DEFINE m == Len(o)
           V == {k \in 1..m : o[k].alive # "none"}
<1>9. /\ m \in Nat /\ DOMAIN o = 1..m
      /\ \A k \in 1..m : /\ f[k] \in 1..n /\ samples[f[k]].session = id
                         /\ o[k] = samples[f[k]] /\ o[k].alive \in {"yes", "no", "none"}
  <2>1. m \in Nat /\ DOMAIN o = 1..m BY <1>7
  <2>2. f \in [1..m -> I] /\ \A k \in 1..m : o[k] = samples[f[k]] BY <1>8 DEF Picks
  <2>3. ASSUME NEW k \in 1..m
        PROVE  f[k] \in 1..n /\ samples[f[k]].session = id /\ samples[f[k]].alive \in {"yes", "no", "none"}
    <3>1. f[k] \in I BY <2>2
    <3>2. samples[f[k]] \in SessionSample BY <1>4, <3>1
    <3> QED BY <3>1, <3>2 DEF SessionSample
  <2> QED BY <2>1, <2>2, <2>3
<1>10. /\ \A i \in 1..n : samples[i].session = id => \E k \in 1..m : f[k] = i
       /\ \A k, l \in 1..m : k < l <=> f[k] < f[l]
  BY <1>8 DEF Picks
<1>11. /\ V = {} => last_known_alive(o) = "none"
       /\ V # {} => /\ Max(V) \in V /\ \A k \in V : k <= Max(V)
                    /\ last_known_alive(o) = o[Max(V)].alive
  BY <1>7, LastKnownAlive
<1> DEFINE x == Max(V)
           lost == last_known_alive(o) = "no"
<1>12. session_state(samples, id) = "lost" <=> lost
  <2>1. lost => dead
    <3> SUFFICES ASSUME lost PROVE dead OBVIOUS
    <3>1. V # {} BY <1>11
    <3>2. x \in 1..m /\ o[x].alive = "no" BY <1>11, <3>1
    <3> QED BY <1>3, <1>9, <3>2
  <2> HIDE DEF dead
  <2>2. CASE lost BY <1>1, <1>3, <2>1, <2>2
  <2>3. CASE ~lost
    <3>1. CASE last_known_alive(o) = "none" BY <1>1, <1>3, <3>1
    <3>2. CASE last_known_alive(o) # "none" BY <1>1, <1>3, <2>3, <3>2
    <3> QED BY <3>1, <3>2
  <2> QED BY <2>2, <2>3
<1> HIDE DEF I, key, m
<1>13. ASSUME lost PROVE StayedDead(samples, n, id)
  <2>1. V # {} /\ x \in V /\ (\A k \in V : k <= x) /\ o[x].alive = "no" BY <1>11, <1>13
  <2> HIDE DEF x
  <2>2. x \in 1..m /\ f[x] \in 1..n /\ samples[f[x]].session = id /\ samples[f[x]].alive = "no" BY <1>9, <2>1
  <2>3. ASSUME NEW j \in (f[x] + 1)..n, samples[j].session = id, samples[j].alive = "yes"
        PROVE  FALSE
    <3>1. j \in 1..n BY <2>2
    <3>2. PICK k \in 1..m : f[k] = j BY <1>10, <2>3, <3>1
    <3>3. k \in V BY <1>9, <2>3, <3>2
    <3>4. f[x] < f[k] BY <2>2, <3>2
    <3>5. x < k BY <1>10, <2>2, <3>4
    <3> QED BY <1>9, <2>1, <2>2, <3>3, <3>5
  <2> QED BY <2>2, <2>3 DEF StayedDead
<1>14. ASSUME StayedDead(samples, n, id) PROVE lost
  <2>1. PICK i \in 1..n :
          /\ samples[i].session = id /\ samples[i].alive = "no"
          /\ \A j \in (i + 1)..n : samples[j].session = id => samples[j].alive # "yes"
    BY <1>14 DEF StayedDead
  <2>2. PICK k \in 1..m : f[k] = i BY <1>10, <2>1
  <2>3. k \in V BY <1>9, <2>1, <2>2
  <2>4. x \in V /\ k <= x /\ last_known_alive(o) = o[x].alive BY <1>11, <2>3
  <2> HIDE DEF x
  <2>5. /\ x \in 1..m /\ f[x] \in 1..n /\ samples[f[x]].session = id
        /\ o[x].alive = samples[f[x]].alive /\ o[x].alive \in {"yes", "no"}
    BY <1>9, <2>4
  <2>6. ASSUME o[x].alive = "yes" PROVE FALSE
    <3>1. k # x BY <1>9, <2>1, <2>2, <2>6
    <3>2. k < x BY <1>9, <2>4, <2>5, <3>1
    <3>3. i < f[x] BY <1>10, <2>2, <2>5, <3>2
    <3>4. f[x] \in (i + 1)..n BY <2>5, <3>3
    <3> QED BY <2>1, <2>5, <2>6, <3>4
  <2> QED BY <2>4, <2>5, <2>6
<1> HIDE DEF lost
<1> QED BY <1>12, <1>13, <1>14

(* The count of lost sessions. *)
LEMMA LostSessionsAreCounted ==
  ASSUME MachineInv, outcome.exit = 0, command = "resilience",
         outcome = dispatch("resilience", evidence, ready)
  PROVE  LostSessionsStayedDead
<1> DEFINE c == "resilience"
           e == evidence
           n == Len(e)
           a == [authorized |-> ready, readable |-> TRUE, samples |-> e, started |-> 10,
                 ended |-> 30]
           ids == {s.session : s \in Range(e)}
           sessions == {e[i].session : i \in DOMAIN e}
           Own(i, id) == e[i].session = id
           Stays(id) == \E i \in DOMAIN e :
                          /\ Own(i, id) /\ e[i].alive = "no"
                          /\ \A j \in (i + 1)..Len(e) : Own(j, id) => e[j].alive # "yes"
<1>1. n \in Nat /\ DOMAIN e = 1..n /\ \A i \in 1..n : e[i] \in SessionSample
  <2>1. Shapes(command) = [i \in DOMAIN Measurements[command] |-> SessionSample] BY Zenon DEF Shapes, SessionSample
  <2> QED BY <2>1, UniformShaped DEF ShapedCommands
<1>2. outcome = resilience_run(a)
  <2>1. dispatch(c, e, ready) = comparison_report(c, e, ready) BY Routes DEF ComparisonCommands
  <2>2. comparison_report(c, e, ready) = resilience_run(a) BY Zenon DEF comparison_report
  <2> QED BY <2>1, <2>2
<1>3. resilience_run(a) \in {Refusal(1), Completed(judge_resilience(e, 10, 30))} BY DEF resilience_run
<1> HIDE DEF a
<1>4. report = judge_resilience(e, 10, 30)
  <2> DEFINE j == judge_resilience(e, 10, 30)
  <2> HIDE DEF j
  <2>1. Refusal(1).exit # 0 BY DEF Refusal
  <2>2. outcome = Completed(j) BY <1>2, <1>3, <2>1 DEF j
  <2> QED BY <2>2, ReportOf DEF j, report
<1>5. judge_resilience(e, 10, 30).lost = Cardinality({s \in sessions : session_state(e, s) = "lost"})
  BY DEF judge_resilience
<1>6. ids = sessions BY DEF Range
<1> HIDE DEF ids, sessions
<1>7. \A id : session_state(e, id) = "lost" <=> Stays(id)
  <2> TAKE id
  <2>1. session_state(e, id) = "lost" <=> StayedDead(e, n, id) BY <1>1, LostIsStayedDead
  <2> QED BY <1>1, <2>1 DEF StayedDead
<1> HIDE DEF Stays
<1>8. {s \in sessions : session_state(e, s) = "lost"} = {id \in ids : Stays(id)} BY <1>6, <1>7
<1>9. report.lost = Cardinality({id \in ids : Stays(id)}) BY <1>4, <1>5, <1>8
<1> QED BY <1>9, Zenon DEF LostSessionsStayedDead, ids, Stays

-----------------------------------------------------------------------------
(* AgreesWithReference: the bursts of a pass, and media-quality. *)

(* Closing a run adds a lost burst. *)
LEMMA CloseRunTyped ==
  ASSUME NEW acc \in BurstScan, NEW sentAt, \A s \in DOMAIN sentAt : sentAt[s] \in Int
  PROVE  close_run(acc, sentAt) \in Seq(LostBurst)
<1> DEFINE last == acc.start + acc.len - 1
           gap == IF {acc.start, last} \subseteq DOMAIN sentAt
                  THEN Larger(sentAt[last] - sentAt[acc.start], 0) ELSE Missing
           b == [start |-> acc.start, len |-> acc.len, gap |-> gap]
<1>1. acc.bursts \in Seq(LostBurst) /\ acc.start \in Int /\ acc.len \in Nat BY DEF BurstScan
<1>2. gap \in Int
  <2>1. Missing \in Int BY DEF Missing
  <2>2. CASE {acc.start, last} \subseteq DOMAIN sentAt
    <3> DEFINE x == sentAt[last]
               y == sentAt[acc.start]
    <3>1. x \in Int /\ y \in Int BY <2>2
    <3> HIDE DEF x, y
    <3>2. Larger(x - y, 0) \in Int BY <3>1 DEF Larger
    <3> QED BY <2>2, <3>2 DEF x, y
  <2> QED BY <2>1, <2>2
<1> HIDE DEF gap
<1>3. b \in LostBurst BY <1>1, <1>2 DEF LostBurst
<1>4. close_run(acc, sentAt) = IF acc.len = 0 THEN acc.bursts ELSE Append(acc.bursts, b) BY Zenon DEF close_run, gap
<1> HIDE DEF b
<1> QED BY <1>1, <1>3, <1>4

(* One packet keeps the type of the scan for bursts. *)
LEMMA BurstStepTyped ==
  ASSUME NEW acc \in BurstScan, NEW sentAt, \A s \in DOMAIN sentAt : sentAt[s] \in Int, NEW s \in Int
  PROVE  burstStep(acc, s, sentAt) \in BurstScan
<1> DEFINE b == close_run(acc, sentAt)
           x == IF acc.len = 0 THEN s ELSE acc.start
           y == acc.len + 1
<1>1. b \in Seq(LostBurst) /\ Missing \in Int BY CloseRunTyped DEF Missing
<1>2. x \in Int /\ y \in Nat BY DEF BurstScan
<1> HIDE DEF b, x, y
<1>3. [bursts |-> b, start |-> Missing, len |-> 0] \in BurstScan BY <1>1 DEF BurstScan
<1>4. [acc EXCEPT !.start = x, !.len = y] \in BurstScan BY <1>2 DEF BurstScan
<1>5. burstStep(acc, s, sentAt) = IF s \in DOMAIN sentAt
                                  THEN [bursts |-> b, start |-> Missing, len |-> 0]
                                  ELSE [acc EXCEPT !.start = x, !.len = y]
  BY DEF burstStep, b, x, y
<1> QED BY <1>3, <1>4, <1>5

(* A packet that arrived closes the run that is open. *)
LEMMA RunCloses ==
  ASSUME NEW n \in Nat, NEW sentAt, \A s \in DOMAIN sentAt : sentAt[s] \in Int,
         NEW k \in 0..n, NEW acc \in BurstScan,
         NEW Q, Q \subseteq 0..(n - 1), \A s \in Q : s \notin DOMAIN sentAt,
         Scanned(acc, Q, k), k \notin Q
  PROVE  Runs(close_run(acc, sentAt), Q, k + 1)
<1> DEFINE L == acc.len
           b == acc.bursts
           c == close_run(acc, sentAt)
<1>1. L \in Nat /\ acc.start \in Int /\ k \in Nat /\ b \in Seq(LostBurst) /\ Len(b) \in Nat BY DEF BurstScan
<1>2. /\ L <= k /\ (L > 0 => acc.start = k - L)
      /\ (k - L)..(k - 1) \subseteq Q /\ k - L - 1 \notin Q
  BY DEF Scanned
<1>3. /\ \A i \in 1..Len(b) : ClosedRun(Q, k, b[i].start, b[i].len) /\ b[i].gap = Missing
      /\ \A s, m \in Nat : ClosedRun(Q, k, s, m) =>
           \E i \in 1..Len(b) : b[i].start = s /\ b[i].len = m
  BY Zenon DEF Scanned, Runs
<1>4. \A i \in 1..Len(b) : b[i].start \in Int /\ b[i].len \in Nat
  <2>1. \A i \in 1..Len(b) : b[i] \in LostBurst
    <3> HIDE DEF b
    <3> QED BY <1>1
  <2> QED BY <2>1 DEF LostBurst
<1>5. \A s \in Int, m \in Nat : ClosedRun(Q, k, s, m) => ClosedRun(Q, k + 1, s, m) BY <1>1 DEF ClosedRun
<1>6. ASSUME NEW s \in Nat, NEW m \in Nat, ClosedRun(Q, k + 1, s, m), ~ClosedRun(Q, k, s, m)
      PROVE  s = k - L /\ m = L
  <2>1. s + m = k /\ m > 0 /\ s..(s + m - 1) \subseteq Q /\ s - 1 \notin Q BY <1>1, <1>6 DEF ClosedRun
  <2>2. ASSUME s < k - L PROVE FALSE
    <3>1. k - L - 1 \in s..(s + m - 1) BY <1>1, <1>2, <2>1, <2>2
    <3> QED BY <1>2, <2>1, <3>1
  <2>3. ASSUME s > k - L PROVE FALSE
    <3>1. s - 1 \in (k - L)..(k - 1) BY <1>1, <1>2, <2>1, <2>3
    <3> QED BY <1>2, <2>1, <3>1
  <2> QED BY <1>1, <2>1, <2>2, <2>3
<1>7. CASE L = 0
  <2>1. c = b BY <1>7 DEF close_run
  <2>2. \A s, m \in Nat : ClosedRun(Q, k + 1, s, m) => ClosedRun(Q, k, s, m)
    <3> SUFFICES ASSUME NEW s \in Nat, NEW m \in Nat, ClosedRun(Q, k + 1, s, m),
                        ~ClosedRun(Q, k, s, m)
                 PROVE  FALSE
      OBVIOUS
    <3>1. m = 0 BY <1>6, <1>7
    <3> QED BY <3>1 DEF ClosedRun
  <2>3. \A i \in 1..Len(b) : ClosedRun(Q, k + 1, b[i].start, b[i].len) BY <1>3, <1>4, <1>5
  <2>4. Runs(b, Q, k + 1) BY <1>1, <1>3, <2>2, <2>3 DEF Runs
  <2> QED BY <2>1, <2>4
<1>8. CASE L # 0
  <2> DEFINE last == acc.start + L - 1
             gap == IF {acc.start, last} \subseteq DOMAIN sentAt
                    THEN Larger(sentAt[last] - sentAt[acc.start], 0) ELSE Missing
             x == [start |-> acc.start, len |-> L, gap |-> gap]
             l == Len(b)
  <2>1. acc.start = k - L /\ k - L \in (k - L)..(k - 1) BY <1>1, <1>2, <1>8
  <2>2. acc.start \notin DOMAIN sentAt BY <1>2, <2>1
  <2>3. gap = Missing BY <2>2
  <2>4. c = Append(b, x) BY <1>8, Zenon DEF close_run
  <2> HIDE DEF gap
  <2>5. x \in LostBurst /\ x.start = k - L /\ x.len = L /\ x.gap = Missing
    <3>1. Missing \in Int BY DEF Missing
    <3> QED BY <1>1, <2>1, <2>3, <3>1 DEF LostBurst
  <2> HIDE DEF x, c
  <2>6. c \in Seq(LostBurst) /\ Len(c) = l + 1 /\ c[l + 1] = x /\ \A i \in 1..l : c[i] = b[i] BY <1>1, <2>4, <2>5
  <2>7. 1..Len(c) = 1..l \cup {l + 1} BY <1>1, <2>6
  <2>8. ClosedRun(Q, k + 1, k - L, L) BY <1>1, <1>2, <1>8 DEF ClosedRun
  <2>9. ASSUME NEW i \in 1..Len(c)
        PROVE  ClosedRun(Q, k + 1, c[i].start, c[i].len) /\ c[i].gap = Missing
    <3>1. CASE i \in 1..l BY <1>3, <1>4, <1>5, <2>6, <3>1
    <3>2. CASE i = l + 1 BY <2>5, <2>6, <2>8, <3>2
    <3> QED BY <2>7, <3>1, <3>2
  <2>10. ASSUME NEW s \in Nat, NEW m \in Nat, ClosedRun(Q, k + 1, s, m)
         PROVE  \E i \in 1..Len(c) : c[i].start = s /\ c[i].len = m
    <3>1. CASE ClosedRun(Q, k, s, m)
      <4>1. PICK i \in 1..l : b[i].start = s /\ b[i].len = m BY <1>3, <3>1, SMTT(30)
      <4>2. i \in 1..Len(c) /\ c[i] = b[i] BY <2>6, <2>7
      <4> QED BY <4>1, <4>2
    <3>2. CASE ~ClosedRun(Q, k, s, m) BY <1>6, <2>5, <2>6, <2>7, <2>10, <3>2
    <3> QED BY <3>1, <3>2
  <2>11. Runs(c, Q, k + 1) BY <2>6, <2>9, <2>10, Zenon DEF Runs
  <2> QED BY <2>11 DEF c
<1> QED BY <1>7, <1>8

(* One more packet keeps the bursts the closed runs so far. *)
LEMMA BurstNext ==
  ASSUME NEW n \in Nat, NEW sentAt, \A s \in DOMAIN sentAt : sentAt[s] \in Int,
         NEW k \in 0..(n - 1), NEW acc \in BurstScan,
         NEW Q, Q = 0..(n - 1) \ DOMAIN sentAt, Scanned(acc, Q, k)
  PROVE  Scanned(burstStep(acc, k, sentAt), Q, k + 1)
<1> DEFINE r == burstStep(acc, k, sentAt)
           L == acc.len
<1>1. L \in Nat /\ acc.start \in Int /\ k \in Nat /\ k \in 0..n /\ k \in 0..(n - 1) BY DEF BurstScan
<1>2. /\ L <= k /\ (L > 0 => acc.start = k - L)
      /\ (k - L)..(k - 1) \subseteq Q /\ k - L - 1 \notin Q /\ Runs(acc.bursts, Q, k)
  BY DEF Scanned
<1>3. CASE k \in DOMAIN sentAt
  <2> DEFINE b == close_run(acc, sentAt)
  <2>1. k \notin Q /\ Q \subseteq 0..(n - 1) /\ \A s \in Q : s \notin DOMAIN sentAt BY <1>3
  <2>2. Runs(b, Q, k + 1) BY <1>1, <2>1, RunCloses
  <2>3. r = [bursts |-> b, start |-> Missing, len |-> 0] BY <1>3 DEF burstStep
  <2> HIDE DEF b
  <2>4. r.bursts = b /\ r.len = 0 BY <2>3
  <2> HIDE DEF r
  <2>5. ((k + 1) - 0)..((k + 1) - 1) \subseteq Q /\ (k + 1) - 0 - 1 \notin Q BY <1>1, <2>1
  <2>6. Scanned(r, Q, k + 1) BY <1>1, <2>2, <2>4, <2>5 DEF Scanned
  <2> QED BY <2>6 DEF r
<1>4. CASE k \notin DOMAIN sentAt
  <2>1. k \in Q BY <1>1, <1>4
  <2>2. r.bursts = acc.bursts /\ r.len = L + 1 /\ r.start = IF L = 0 THEN k ELSE acc.start
    BY <1>4 DEF burstStep, BurstScan
  <2>3. r.start = (k + 1) - (L + 1) BY <1>1, <1>2, <2>2
  <2>4. ((k + 1) - (L + 1))..((k + 1) - 1) \subseteq Q /\ (k + 1) - (L + 1) - 1 \notin Q
    <3>1. (k + 1) - (L + 1) - 1 \notin Q BY <1>1, <1>2
    <3>2. ASSUME NEW j \in ((k + 1) - (L + 1))..((k + 1) - 1) PROVE j \in Q
      <4>1. j \in (k - L)..(k - 1) \/ j = k BY <1>1
      <4> QED BY <1>2, <2>1, <4>1
    <3> QED BY <3>1, <3>2
  <2>5. Runs(acc.bursts, Q, k + 1)
    <3>1. \A s \in Int, m \in Nat : ClosedRun(Q, k + 1, s, m) <=> ClosedRun(Q, k, s, m)
      <4> SUFFICES ASSUME NEW s \in Int, NEW m \in Nat
                   PROVE  ClosedRun(Q, k + 1, s, m) <=> ClosedRun(Q, k, s, m)
        OBVIOUS
      <4>1. s + m # k \/ s + m \in Q BY <2>1
      <4> QED BY <1>1, <4>1 DEF ClosedRun
    <3>2. \A b \in LostBurst : b.start \in Int /\ b.len \in Nat BY DEF LostBurst
    <3>3. \A i \in 1..Len(acc.bursts) : acc.bursts[i] \in LostBurst BY DEF BurstScan
    <3>4. /\ acc.bursts \in Seq(LostBurst)
          /\ \A i \in 1..Len(acc.bursts) : /\ ClosedRun(Q, k, acc.bursts[i].start, acc.bursts[i].len)
                                           /\ acc.bursts[i].gap = Missing
          /\ \A s, m \in Nat : ClosedRun(Q, k, s, m) =>
               \E i \in 1..Len(acc.bursts) : acc.bursts[i].start = s /\ acc.bursts[i].len = m
      BY <1>2, Zenon DEF Runs
    <3>5. \A i \in 1..Len(acc.bursts) : ClosedRun(Q, k + 1, acc.bursts[i].start, acc.bursts[i].len)
      BY <3>1, <3>2, <3>3, <3>4
    <3>6. \A s, m \in Nat : ClosedRun(Q, k + 1, s, m) => ClosedRun(Q, k, s, m) BY <3>1
    <3> QED BY <3>4, <3>5, <3>6, ZenonT(30) DEF Runs
  <2> HIDE DEF r
  <2>6. Scanned(r, Q, k + 1) BY <1>1, <1>2, <2>2, <2>3, <2>4, <2>5 DEF Scanned
  <2> QED BY <2>6 DEF r
<1> QED BY <1>3, <1>4

(* The bursts are the maximal runs of packets that nothing echoed. *)
LEMMA BurstsAre ==
  ASSUME NEW n \in Nat, NEW sentAt, \A s \in DOMAIN sentAt : sentAt[s] \in Int,
         NEW Q, Q = 0..(n - 1) \ DOMAIN sentAt
  PROVE  Runs(compute_burst_distribution(n, sentAt), Q, n + 1)
<1> DEFINE T == BurstScan
           base == [bursts |-> <<>>, start |-> Missing, len |-> 0]
           x == [i \in 1..n |-> i - 1]
           g(acc, s) == burstStep(acc, s, sentAt)
           G == [p \in T \X (1..n) |-> g(p[1], p[2] - 1)]
           E(F) == F = [t \in SUBSET (1..n) |->
                          IF t = {} THEN base ELSE g(F[t \ {Max(t)}], x[Max(t)])]
           iter == CHOOSE F : E(F)
<1>0. base \in T /\ Len(x) = n /\ DOMAIN x = 1..n /\ \A i \in 1..n : x[i] = i - 1 BY DEF BurstScan, Missing
<1>1. \A acc \in T, i \in 1..n : g(acc, i - 1) \in T BY BurstStepTyped
<1>3. compute_burst_distribution(n, sentAt) = close_run(iter[1..n], sentAt)
  BY <1>0 DEF compute_burst_distribution, burstStep, FoldLeft, MapThenFoldSet
<1> HIDE DEF T, x, g, base
<1>a. G \in [T \X (1..n) -> T] BY <1>1
<1>2. \A acc \in T, i \in 1..n : G[<<acc, i>>] = g(acc, i - 1) OBVIOUS
<1> HIDE DEF G
<1>4. \E F : E(F)
  <2>1. PICK F : Solves(F, n, T, base, G) BY <1>0, <1>a, FoldSolves
  <2>2. ASSUME NEW t \in SUBSET (1..n)
        PROVE  F[t] = IF t = {} THEN base ELSE g(F[t \ {Max(t)}], x[Max(t)])
    <3>1. CASE t = {} BY <2>1, <3>1 DEF Solves
    <3>2. CASE t # {}
      <4>1. Max(t) \in 1..n /\ t \ {Max(t)} \in SUBSET (1..n) BY <3>2, TopOf
      <4>2. F[t \ {Max(t)}] \in T /\ F[t] = G[<<F[t \ {Max(t)}], Max(t)>>] BY <2>1, <3>2, <4>1 DEF Solves
      <4>3. F[t] = g(F[t \ {Max(t)}], Max(t) - 1) /\ x[Max(t)] = Max(t) - 1 BY <1>0, <1>2, <4>1, <4>2
      <4> QED BY <3>2, <4>3
    <3> QED BY <3>1, <3>2
  <2>3. F = [t \in SUBSET (1..n) |-> F[t]] BY <2>1 DEF Solves
  <2>4. E(F) BY <2>2, <2>3
  <2> QED BY <2>4
<1>5. E(iter)
  <2> HIDE DEF E
  <2> QED BY <1>4
<1> HIDE DEF iter
<1>6. Obeys(iter, n, T, base, G)
  <2>1. iter[{}] = base BY <1>5
  <2>2. ASSUME NEW t \in SUBSET (1..n), t # {}, iter[t \ {Max(t)}] \in T
        PROVE  iter[t] = G[<<iter[t \ {Max(t)}], Max(t)>>]
    <3>1. Max(t) \in 1..n BY <2>2, TopOf
    <3>2. iter[t] = g(iter[t \ {Max(t)}], x[Max(t)]) BY <1>5, <2>2
    <3>3. x[Max(t)] = Max(t) - 1 BY <1>0, <3>1
    <3> QED BY <1>2, <2>2, <3>1, <3>2, <3>3
  <2> QED BY <2>1, <2>2 DEF Obeys
<1> HIDE DEF E
<1>7. PICK a : Traces(a, n, T, base, G, iter[1..n]) BY <1>0, <1>a, <1>6, FoldTrace
<1>8. a \in [0..n -> T] /\ a[0] = base /\ a[n] = iter[1..n] BY <1>7 DEF Traces
<1>9. ASSUME NEW k \in 0..(n - 1) PROVE a[k + 1] = burstStep(a[k], k, sentAt)
  <2>1. a[k + 1] = G[<<a[k], k + 1>>] BY <1>7 DEF Traces
  <2>2. a[k] \in T /\ k + 1 \in 1..n /\ (k + 1) - 1 = k BY <1>0, <1>8
  <2> QED BY <1>2, <2>1, <2>2 DEF g
<1> DEFINE S == {k \in 0..n : Scanned(a[k], Q, k)}
<1>10. 0 \in S
  <2>1. Runs(<<>>, Q, 0) BY DEF Runs, ClosedRun
  <2>2. base.bursts = <<>> /\ base.len = 0 BY DEF base
  <2>3. 0 - 0 - 1 \notin Q OBVIOUS
  <2>4. Scanned(base, Q, 0) BY <2>1, <2>2, <2>3 DEF Scanned
  <2> QED BY <1>8, <2>4
<1>11. ASSUME NEW k \in 0..(n - 1), k \in S PROVE k + 1 \in S
  <2>1. Scanned(a[k], Q, k) /\ a[k] \in BurstScan BY <1>8, <1>11 DEF T
  <2>2. Scanned(burstStep(a[k], k, sentAt), Q, k + 1) BY <2>1, BurstNext
  <2>3. k + 1 \in 0..n OBVIOUS
  <2> QED BY <1>9, <2>2, <2>3
<1>12. \A k \in 0..n : k \in S
  <2> HIDE DEF S
  <2> QED BY <1>10, <1>11, UpTo
<1>13. n \in 0..n /\ n \notin Q /\ Q \subseteq 0..(n - 1) /\ \A s \in Q : s \notin DOMAIN sentAt OBVIOUS
<1>14. Scanned(a[n], Q, n) /\ a[n] \in BurstScan BY <1>8, <1>12, <1>13 DEF T
<1>15. Runs(close_run(a[n], sentAt), Q, n + 1) BY <1>13, <1>14, RunCloses
<1> QED BY <1>3, <1>8, <1>15

(* The bursts of one pass of the probe loop. *)
LEMMA PassBursts ==
  ASSUME NEW e \in Seq(Int), NEW interval \in Int, NEW rtt \in Int,
         NEW p, p = run_one_pass(e, interval, rtt)
  PROVE  /\ analyze_burst(p.sent, p.arrivals).sent = Len(e)
         /\ Runs(analyze_burst(p.sent, p.arrivals).bursts, 0..(Len(e) - 1) \ Range(e), Len(e) + 1)
<1> DEFINE n == Len(e)
           arr == p.arrivals
           d == split_duplicates(arr).distinct
           P == {d[i].seq : i \in DOMAIN d}
           sentAt == [s \in P |-> d[CHOOSE i \in DOMAIN d : d[i].seq = s].sent_at]
           r == analyze_burst(p.sent, arr)
<1>1. p.sent = n /\ arr \in Seq(Arrival) /\ n \in Nat /\ \E f : PassOf(f, arr, e) BY PassArrivals
<1>2. FirstOf(d, arr, Len(arr)) BY <1>1, SplitIs
<1>3. r.sent = n /\ r.bursts = compute_burst_distribution(n, sentAt) BY <1>1 DEF analyze_burst, burst_report
<1> HIDE DEF d, r, arr, n
<1>4. /\ d \in Seq(Arrival) /\ DOMAIN d = 1..Len(d)
      /\ \A i \in 1..Len(d) : \E j \in 1..Len(arr) : arr[j] = d[i]
      /\ \A j \in 1..Len(arr) : \E i \in 1..Len(d) : d[i].seq = arr[j].seq
  BY <1>2 DEF FirstOf
<1>5. \A s \in DOMAIN sentAt : sentAt[s] \in Int
  <2> SUFFICES ASSUME NEW s \in P PROVE sentAt[s] \in Int OBVIOUS
  <2>1. \E i \in DOMAIN d : d[i].seq = s OBVIOUS
  <2>2. PICK i \in DOMAIN d : i = CHOOSE j \in DOMAIN d : d[j].seq = s BY <2>1
  <2>3. d[i] \in Arrival BY <1>4
  <2>4. sentAt[s] = d[i].sent_at BY <2>2
  <2> QED BY <2>3, <2>4 DEF Arrival
<1>6. DOMAIN sentAt = P OBVIOUS
<1> HIDE DEF sentAt
<1>7. PICK f : PassOf(f, arr, e) BY <1>1
<1>8. 0..(n - 1) \ Range(e) = 0..(n - 1) \ P
  <2>1. \A s \in P : s \in Range(e)
    <3> SUFFICES ASSUME NEW i \in 1..Len(d) PROVE d[i].seq \in Range(e) BY <1>4
    <3>1. PICK j \in 1..Len(arr) : arr[j] = d[i] BY <1>4
    <3>2. arr[j].seq = e[f[j]] /\ f[j] \in 1..Len(e) BY <1>7 DEF PassOf
    <3>3. DOMAIN e = 1..Len(e) OBVIOUS
    <3> QED BY <3>1, <3>2, <3>3 DEF Range
  <2>2. ASSUME NEW s \in 0..(n - 1), s \in Range(e) PROVE s \in P
    <3>1. PICK i \in 1..Len(e) : e[i] = s BY <2>2 DEF Range
    <3>2. Known(e[i]) BY <3>1 DEF Known, Missing
    <3>3. PICK j \in 1..Len(arr) : f[j] = i BY <1>7, <3>2 DEF PassOf
    <3>4. arr[j].seq = s BY <1>7, <3>1, <3>3 DEF PassOf
    <3> QED BY <1>4, <3>4
  <2> HIDE DEF P
  <2> QED BY <2>1, <2>2
<1>9. Runs(compute_burst_distribution(n, sentAt), 0..(n - 1) \ P, n + 1)
  <2> DEFINE Q == 0..(n - 1) \ P
  <2>1. Q = 0..(n - 1) \ DOMAIN sentAt BY <1>6
  <2> HIDE DEF Q
  <2>2. Runs(compute_burst_distribution(n, sentAt), Q, n + 1) BY <1>1, <1>5, <2>1, BurstsAre
  <2> QED BY <2>2 DEF Q
<1> QED BY <1>3, <1>8, <1>9 DEF r, arr, n

(* The lengths of the runs are bounded by the number of packets. *)
LEMMA RunLengths ==
  ASSUME NEW n \in Nat, NEW Q, Q \subseteq 0..(n - 1), NEW b, Runs(b, Q, n + 1)
  PROVE  /\ Len(b) \in Nat /\ DOMAIN b = 1..Len(b)
         /\ \A i \in 1..Len(b) : /\ b[i].gap = Missing /\ b[i].len \in 1..n /\ b[i].start \in Q
                                 /\ ClosedRun(Q, n + 1, b[i].start, b[i].len)
<1>1. b \in Seq(LostBurst) /\ \A i \in 1..Len(b) : /\ ClosedRun(Q, n + 1, b[i].start, b[i].len)
                                                   /\ b[i].gap = Missing
  BY Zenon DEF Runs
<1>2. ASSUME NEW i \in 1..Len(b) PROVE b[i].len \in 1..n /\ b[i].start \in Q
  <2>1. b[i] \in LostBurst BY <1>1
  <2>2. b[i].start \in Int /\ b[i].len \in Nat BY <2>1 DEF LostBurst
  <2>3. /\ b[i].len > 0 /\ b[i].start + b[i].len < n + 1
        /\ b[i].start..(b[i].start + b[i].len - 1) \subseteq Q
    BY <1>1 DEF ClosedRun
  <2>4. b[i].start \in Q BY <2>2, <2>3
  <2> QED BY <2>2, <2>3, <2>4
<1> QED BY <1>1, <1>2

(* "Low" only when no run lasted 100 ms. *)
LEMMA LowRiskCoversTheGap ==
  ASSUME NEW n \in Nat, NEW Q, Q \subseteq 0..(n - 1), NEW b, Runs(b, Q, n + 1), NEW profile,
         estimate_freeze_risk(b, profile) = "Low"
  PROVE  CoversGap(b, profile)
<1> SUFFICES ASSUME NEW i \in DOMAIN b PROVE 1000 * b[i].len < 101 * packets_per_sec(profile) BY DEF CoversGap
<1> DEFINE w == packets_per_sec(profile)
           gap(j) == IF Known(b[j].gap) THEN b[j].gap ELSE (1000 * b[j].len) \div w
           V == {0} \cup {gap(j) : j \in DOMAIN b}
           g == worst_gap_ms(b, profile)
<1>1. w \in {50, 30} BY DEF packets_per_sec
<1>2. g = Max(V) BY DEF worst_gap_ms
<1>3. Len(b) \in Nat /\ DOMAIN b = 1..Len(b)
      /\ \A j \in 1..Len(b) : b[j].gap = Missing /\ b[j].len \in 1..n
  BY RunLengths
<1>4. ASSUME NEW j \in 1..Len(b) PROVE gap(j) = (1000 * b[j].len) \div w /\ gap(j) \in 0..(1000 * n)
  <2>1. gap(j) = (1000 * b[j].len) \div w BY <1>3 DEF Known
  <2> DEFINE m == b[j].len
  <2>2. m \in 1..n BY <1>3
  <2> HIDE DEF m, w
  <2>3. (1000 * m) \div w \in 0..(1000 * n) BY <1>1, <2>2
  <2> QED BY <2>1, <2>3 DEF m
<1>5. V \subseteq Nat /\ V # {} /\ \A y \in V : y <= 1000 * n
  <2> HIDE DEF gap
  <2> QED BY <1>3, <1>4
<1>6. gap(i) \in V BY <1>3
<1> HIDE DEF V, gap
<1>7. PICK k \in Nat : k = 1000 * n OBVIOUS
<1>8. Max(V) \in V /\ \A y \in V : y <= Max(V)
  <2>1. \A y \in V : y <= k BY <1>5, <1>7
  <2>2. k \in Nat /\ V \subseteq Nat /\ V # {} BY <1>5, <1>7
  <2> QED BY <2>1, <2>2, MaxNat, Zenon
<1>9. g \in Nat /\ gap(i) <= g
  <2>1. Max(V) \in Nat /\ gap(i) <= Max(V) BY <1>5, <1>6, <1>8, Zenon
  <2> QED BY <1>2, <2>1, Zenon
<1>10. g < 100 BY <1>9 DEF estimate_freeze_risk
<1> DEFINE m == b[i].len
<1>11. m \in 1..n /\ gap(i) = (1000 * m) \div w BY <1>3, <1>4
<1> HIDE DEF m, w, g
<1>12. (1000 * m) \div w < 100 BY <1>1, <1>9, <1>10, <1>11
<1>13. 1000 * m < 101 * w
  <2>1. CASE w = 50 BY <1>11, <1>12, <2>1
  <2>2. CASE w = 30 BY <1>11, <1>12, <2>2
  <2> QED BY <1>1, <2>1, <2>2
<1> QED BY <1>13 DEF m, w

(* media-quality calls the freeze risk low only if no run lasted 100 ms. *)
LEMMA FreezeCoversTheGap ==
  ASSUME NEW g \in Seq(Values), \A i \in 4..Len(g) : g[i] \in Int, Len(g) >= 3, NEW ok,
         dispatch("media-quality", g, ok).exit = 0
  PROVE  LET rep == dispatch("media-quality", g, ok).report
         IN  rep.freeze = "Low" => CoversGap(rep.burst.bursts, g[1])
<1> DEFINE c == "media-quality"
           e == mediaEchoes(g)
           q == mediaInterval(g)
           p == run_one_pass(e, q, 8)
           r == analyze_burst(p.sent, p.arrivals)
           m == media_report(g[1], mediaSockets(g), r)
           Q == 0..(Len(e) - 1) \ Range(e)
<1>1. dispatch(c, g, ok) = Completed(m) /\ e \in Seq(Int) /\ q \in Int BY MediaRun, Zenon
<1> HIDE DEF e, q
<1>4. \E x : x = p OBVIOUS
<1>5. Runs(r.bursts, Q, Len(e) + 1)
  <2>1. PICK x : x = p BY <1>4
  <2> HIDE DEF p
  <2>2. x = run_one_pass(e, q, 8) BY <2>1 DEF p
  <2>3. Runs(analyze_burst(x.sent, x.arrivals).bursts, Q, Len(e) + 1)
    <3>1. 8 \in Int OBVIOUS
    <3> QED BY <1>1, <2>2, <3>1, PassBursts, Zenon
  <2> QED BY <2>1, <2>3 DEF p
<1>6. m.burst = r /\ m.freeze = estimate_freeze_risk(r.bursts, g[1]) BY DEF media_report
<1> HIDE DEF r, m
<1>7. ASSUME m.freeze = "Low" PROVE CoversGap(r.bursts, g[1])
  <2>1. Len(e) \in Nat /\ Q \subseteq 0..(Len(e) - 1) BY <1>1
  <2> HIDE DEF Q
  <2>2. estimate_freeze_risk(r.bursts, g[1]) = "Low" BY <1>6, <1>7, Zenon
  <2> DEFINE k == Len(e)
             b == r.bursts
             w == g[1]
  <2>3. k \in Nat /\ Q \subseteq 0..(k - 1) /\ Runs(b, Q, k + 1) /\ estimate_freeze_risk(b, w) = "Low"
    BY <1>5, <2>1, <2>2
  <2> HIDE DEF k, b, w
  <2>4. CoversGap(b, w) BY <2>3, LowRiskCoversTheGap
  <2> QED BY <2>4 DEF b, w
<1> QED BY <1>1, <1>6, <1>7, ReportOf

-----------------------------------------------------------------------------
(* AgreesWithReference: circuit-compare, the digest of a manifest. *)

(* A filter that leaves one element or none. *)
LEMMA KeptOne ==
  ASSUME NEW n \in Nat, NEW s, DOMAIN s = 1..n, NEW I, I \subseteq 1..n, NEW T,
         \A i \in I : s[i] \in T, NEW o, o = InOrder(s, [i \in DOMAIN s |-> i], I)
  PROVE  OneOrNone(o, s, I)
<1>1. Filters(o, s, n, I, T) BY Kept
<1>2. o \in Seq(T) /\ Len(o) = Cardinality(I) BY <1>1 DEF Filters
<1>3. PICK f : Picks(f, s, o, I) BY <1>1 DEF Filters
<1>4. ASSUME I = {} PROVE o = <<>>
  <2>1. Len(o) = 0 BY <1>2, <1>4, FS_EmptySet
  <2> QED BY <1>2, <2>1
<1>5. ASSUME NEW i \in I, I = {i} PROVE o = <<s[i]>>
  <2>1. Cardinality({i}) = 1 BY FS_Singleton
  <2>2. Len(o) = 1 BY <1>2, <1>5, <2>1
  <2>3. f[1] \in I /\ o[1] = s[f[1]] BY <1>3, <2>2 DEF Picks
  <2>4. o[1] = s[i] BY <1>5, <2>3
  <2> QED BY <1>2, <2>2, <2>4
<1> QED BY <1>4, <1>5 DEF OneOrNone

(* The phases of one state, in either order of ingestion. *)
LEMMA PhasesOfState ==
  ASSUME NEW n \in Nat, NEW e, DOMAIN e = 1..n, NEW r, DOMAIN r = 1..n,
         \A i \in 1..n : r[i] = e[n - i + 1],
         \A i, j \in 1..n : e[i].state = e[j].state => i = j, NEW s
  PROVE  OfState(e, s) = OfState(r, s)
<1> DEFINE I == {i \in 1..n : e[i].state = s}
           J == {i \in 1..n : r[i].state = s}
           ke == [i \in DOMAIN e |-> i]
           kr == [i \in DOMAIN r |-> i]
           T == {e[i] : i \in 1..n}
           x == InOrder(e, ke, I)
           y == InOrder(r, kr, J)
<1>1. OfState(e, s) = x BY Zenon DEF OfState, Keep, Where
<1>2. OfState(r, s) = y BY Zenon DEF OfState, Keep, Where
<1>3. \A i \in 1..n : n - i + 1 \in 1..n /\ n - (n - i + 1) + 1 = i OBVIOUS
<1>4. I \subseteq 1..n /\ J \subseteq 1..n OBVIOUS
<1>5. \A i \in I : e[i] \in T OBVIOUS
<1>6. \A i \in J : r[i] \in T BY <1>3
<1>7. /\ \A i \in J : n - i + 1 \in I
      /\ \A i \in I : n - i + 1 \in J
  BY <1>3
<1>8. \A i \in I, j \in I : i = j OBVIOUS
<1>a. \E z : z = x OBVIOUS
<1>b. \E z : z = y OBVIOUS
<1>9. PICK u : u = x BY <1>a
<1>10. PICK v : v = y BY <1>b
<1> HIDE DEF I, J, T
<1>11. OneOrNone(u, e, I) BY <1>4, <1>5, <1>9, KeptOne
<1>12. OneOrNone(v, r, J) BY <1>4, <1>6, <1>10, KeptOne
<1> HIDE DEF x, y, ke, kr
<1>13. u = v
  <2>1. CASE I = {}
    <3>1. J = {} BY <1>7, <2>1, Zenon
    <3> QED BY <1>11, <1>12, <2>1, <3>1, Zenon DEF OneOrNone
  <2>2. ASSUME NEW i \in I PROVE u = v
    <3>1. I = {i} BY <1>8, Zenon
    <3>2. i \in 1..n BY <1>4
    <3> DEFINE j == n - i + 1
    <3>3. j \in 1..n /\ j \in J /\ n - j + 1 = i BY <1>3, <1>7, <3>2
    <3>4. r[j] = e[i] BY <3>3, Zenon
    <3>5. ASSUME NEW k \in J PROVE k = j
      <4>1. k \in 1..n /\ n - k + 1 \in I BY <1>4, <1>7
      <4>2. n - k + 1 = i BY <1>8, <4>1, Zenon
      <4> QED BY <3>2, <4>1, <4>2
    <3> HIDE DEF j
    <3>6. J = {j} BY <3>3, <3>5, Zenon
    <3>7. u = <<e[i]>> BY <1>11, <3>1, Zenon DEF OneOrNone
    <3>8. v = <<r[j]>> BY <1>12, <3>3, <3>6, Zenon DEF OneOrNone
    <3> QED BY <3>4, <3>7, <3>8
  <2> QED BY <2>1, <2>2, Zenon
<1> QED BY <1>1, <1>2, <1>9, <1>10, <1>13, Zenon

(* Values that are as many as their positions are distinct. *)
LEMMA DistinctValues ==
  ASSUME NEW n \in Nat, NEW f, f = [i \in 1..n |-> f[i]], NEW S, S = {f[i] : i \in 1..n},
         Cardinality(S) = n
  PROVE  \A i, j \in 1..n : f[i] = f[j] => i = j
<1>1. f \in Surjection(1..n, S) BY DEF Surjection
<1>2. IsFiniteSet(1..n) /\ Cardinality(1..n) = n BY FS_Interval
<1>3. f \in Injection(1..n, S) BY <1>1, <1>2, FS_Surjection
<1> QED BY <1>3 DEF Injection, IsInjective

(* Phases of distinct states. *)
LEMMA DistinctStates ==
  ASSUME NEW n \in Nat, NEW e, DOMAIN e = 1..n, Cardinality({p.state : p \in Range(e)}) = n
  PROVE  \A i, j \in 1..n : e[i].state = e[j].state => i = j
<1> DEFINE S == {p.state : p \in Range(e)}
           f == [i \in 1..n |-> e[i].state]
<1>1. S = {f[i] : i \in 1..n} BY DEF Range
<1>2. f = [i \in 1..n |-> f[i]] OBVIOUS
<1> HIDE DEF S, f
<1>3. \A i, j \in 1..n : f[i] = f[j] => i = j BY <1>1, <1>2, DistinctValues DEF S
<1> QED BY <1>3 DEF f

(* Phases of different states have the same digest in reverse. *)
LEMMA DigestOfReverse ==
  ASSUME NEW e \in Seq(Values), Cardinality({p.state : p \in Range(e)}) = Len(e)
  PROVE  circuit_digest(e) = circuit_digest(Reverse(e))
<1> DEFINE n == Len(e)
           r == Reverse(e)
           D(o) == [i \in DOMAIN o |->
                      [o[i] EXCEPT !.members =
                         {[fields |-> m, count |-> Count(o[i].members, LAMBDA x : x = m)] :
                            m \in Range(o[i].members)}]]
<1>1. n \in Nat /\ DOMAIN e = 1..n OBVIOUS
<1>2. DOMAIN r = 1..n /\ \A i \in 1..n : r[i] = e[n - i + 1] BY <1>1 DEF Reverse
<1> HIDE DEF r
<1>3. \A i, j \in 1..n : e[i].state = e[j].state => i = j BY <1>1, DistinctStates
<1> HIDE DEF n
<1>4. \A s : OfState(e, s) = OfState(r, s) BY <1>1, <1>2, <1>3, PhasesOfState
<1>5. circuit_digest(e) = [s \in CircuitStates |-> D(OfState(e, s))] BY Zenon DEF circuit_digest, OfState
<1>6. circuit_digest(r) = [s \in CircuitStates |-> D(OfState(r, s))] BY Zenon DEF circuit_digest, OfState
<1> HIDE DEF D
<1>8. circuit_digest(e) = circuit_digest(r) BY <1>4, <1>5, <1>6
<1> QED BY <1>8 DEF r

(* The digest of a circuit manifest ignores the order of ingestion. *)
LEMMA DigestIsOfThePhases ==
  ASSUME MachineInv, command = "circuit-compare", outcome.exit = 0,
         outcome = dispatch("circuit-compare", evidence, ready)
  PROVE  DigestIgnoresIngestOrder
<1> DEFINE c == "circuit-compare"
           e == evidence
           a == [readable |-> ready, valid |-> TRUE, digest_only |-> FALSE, phases |-> e]
           rep == [digest |-> circuit_digest(e), verdict |-> judge_circuits(e)]
<1>1. outcome = circuit_compare_run(a)
  <2>1. dispatch(c, e, ready) = comparison_report(c, e, ready) BY Routes DEF ComparisonCommands
  <2>2. comparison_report(c, e, ready) = circuit_compare_run(a) BY Zenon DEF comparison_report
  <2> QED BY <2>1, <2>2
<1>2. circuit_compare_run(a) \in {Refusal(1), Completed(rep)} BY DEF circuit_compare_run
<1>3. rep.digest = circuit_digest(e) OBVIOUS
<1> HIDE DEF a, rep
<1>4. report = rep
  <2>1. Refusal(1).exit # 0 BY DEF Refusal
  <2>2. outcome = Completed(rep) BY <1>1, <1>2, <2>1
  <2> QED BY <2>2, ReportOf DEF report
<1>5. e \in Seq(Values) BY DEF MachineInv, Gathered
<1> QED BY <1>3, <1>4, <1>5, DigestOfReverse DEF DigestIgnoresIngestOrder

-----------------------------------------------------------------------------
(* AgreesWithReference: thresholds, the hysteresis. *)

(* The two thresholds of the packet-loss profile, at a mean of t / l. *)
LEMMA LossThresholds ==
  ASSUME NEW t \in Int, NEW l \in Nat \ {0}
  PROVE  LET p == packet_loss_profile
         IN  /\ DOMAIN p.thresholds = {1, 2}
             /\ is_open_match(p.thresholds[1], <<t, l>>) <=> t >= 100 * l
             /\ is_open_match(p.thresholds[2], <<t, l>>) <=> t >= 10 * l
             /\ is_clear_match(p.thresholds[1], <<t, l>>) <=> t < 80 * l
             /\ is_clear_match(p.thresholds[2], <<t, l>>) <=> t < 5 * l
<1> DEFINE p == packet_loss_profile
           v == <<t, l>>
           x == [label |-> "high", op |-> "Ge", value |-> 100, clear_op |-> "Lt", clear_value |-> 80]
           y == [label |-> "medium", op |-> "Ge", value |-> 10, clear_op |-> "Lt", clear_value |-> 5]
<1>1. p.thresholds = <<x, y>> BY DEF packet_loss_profile
<1>2. v[1] = t /\ v[2] = l OBVIOUS
<1>3. /\ x.op = "Ge" /\ x.value = 100 /\ x.clear_op = "Lt" /\ x.clear_value = 80
      /\ y.op = "Ge" /\ y.value = 10 /\ y.clear_op = "Lt" /\ y.clear_value = 5
  OBVIOUS
<1>4. DOMAIN p.thresholds = {1, 2} /\ p.thresholds[1] = x /\ p.thresholds[2] = y
  <2> HIDE DEF p, x, y
  <2> QED BY <1>1
<1> HIDE DEF p, v, x, y
<1>5. \A c : compare_op("Ge", v, c) <=> t >= c * l BY <1>2, Zenon DEF compare_op
<1>6. \A c : compare_op("Lt", v, c) <=> t < c * l BY <1>2, Zenon DEF compare_op
<1>7. /\ is_open_match(x, v) <=> t >= 100 * l
      /\ is_open_match(y, v) <=> t >= 10 * l
      /\ is_clear_match(x, v) <=> t < 80 * l
      /\ is_clear_match(y, v) <=> t < 5 * l
  BY <1>3, <1>5, <1>6, Zenon DEF is_open_match, is_clear_match
<1> QED BY <1>4, <1>7, Zenon DEF p, v

(* next_open moves a severity only across its own thresholds. *)
LEMMA NextOpens ==
  ASSUME NEW t \in Int, NEW l \in Nat \ {0}, NEW open \in 0..2
  PROVE  LET next == next_open(packet_loss_profile, open, <<t, l>>)
         IN  next \in 0..2 /\ Hysteresis(open, next, t, l)
<1> DEFINE p == packet_loss_profile
           v == <<t, l>>
           next == next_open(p, open, v)
           O == Where(p.thresholds, LAMBDA th : v # NoValue /\ is_open_match(th, v))
<1>1. /\ DOMAIN p.thresholds = {1, 2}
      /\ is_open_match(p.thresholds[1], v) <=> t >= 100 * l
      /\ is_open_match(p.thresholds[2], v) <=> t >= 10 * l
      /\ is_clear_match(p.thresholds[1], v) <=> t < 80 * l
      /\ is_clear_match(p.thresholds[2], v) <=> t < 5 * l
  BY LossThresholds, Zenon
<1>2. O = {i \in {1, 2} : v # NoValue /\ is_open_match(p.thresholds[i], v)} BY <1>1, Zenon DEF Where
<1>3. first_open(p, v) = IF O = {} THEN 0 ELSE Min(O) BY Zenon DEF first_open
<1>4. next = CASE v = NoValue -> open
               [] v # NoValue /\ open # 0 -> IF is_clear_match(p.thresholds[open], v) THEN 0 ELSE open
               [] OTHER -> first_open(p, v)
  BY Zenon DEF next_open
<1> HIDE DEF p, v, next, O
<1>5. first_open(p, v) \in 0..2 /\ (t < 10 * l => first_open(p, v) = 0)
  <2>1. CASE O = {} BY <1>3, <2>1
  <2>2. CASE O # {}
    <3>1. O \subseteq {1, 2} BY <1>2
    <3>2. Min(O) \in O
      <4>1. O = {1} \/ O = {2} \/ O = {1, 2} BY <2>2, <3>1
      <4>2. \E m \in O : \A k \in O : m <= k BY <4>1
      <4> QED BY <4>2, Zenon DEF Min
    <3>3. Min(O) \in {1, 2} BY <3>1, <3>2
    <3>4. t >= 10 * l BY <1>1, <1>2, <3>2, <3>3
    <3>5. ~(t < 10 * l) BY <3>4
    <3>6. first_open(p, v) = Min(O) BY <1>3, <2>2
    <3> QED BY <3>3, <3>5, <3>6
  <2> QED BY <2>1, <2>2
<1>6. CASE v = NoValue
  <2>1. next = open BY <1>4, <1>6
  <2> QED BY <1>6, <2>1 DEF Hysteresis, next, p, v
<1>7. CASE v # NoValue /\ open = 0
  <2>1. next = first_open(p, v) BY <1>4, <1>7
  <2> QED BY <1>5, <1>7, <2>1 DEF Hysteresis, next, p, v
<1>8. CASE v # NoValue /\ open # 0
  <2>1. next = IF is_clear_match(p.thresholds[open], v) THEN 0 ELSE open BY <1>4, <1>8
  <2>2. open \in {1, 2} BY <1>8
  <2> QED BY <1>1, <1>8, <2>1, <2>2 DEF Hysteresis, next, p, v
<1> QED BY <1>6, <1>7, <1>8

(* A sort of what is in order leaves it alone. *)
LEMMA SortedAlready ==
  ASSUME NEW n \in Nat, NEW s, DOMAIN s = 1..n, NEW key, \A i \in 1..n : key[i] = i
  PROVE  InOrder(s, key, 1..n) = [i \in 1..n |-> s[i]]
<1>1. Cardinality(1..n) = n /\ \A i \in 1..n : Cardinality(1..i) = i BY FS_Interval
<1>2. ASSUME NEW i \in 1..n PROVE Rank(key, 1..n, i) = i
  <2>1. {j \in 1..n : key[j] < key[i] \/ (key[j] = key[i] /\ j <= i)} = 1..i OBVIOUS
  <2> QED BY <1>1, <2>1 DEF Rank
<1>3. ASSUME NEW k \in 1..n PROVE (CHOOSE i \in 1..n : Rank(key, 1..n, i) = k) = k
  <2>1. \E i \in 1..n : Rank(key, 1..n, i) = k BY <1>2
  <2> DEFINE c == CHOOSE i \in 1..n : Rank(key, 1..n, i) = k
  <2>2. c \in 1..n /\ Rank(key, 1..n, c) = k BY <2>1, Zenon
  <2> HIDE DEF c
  <2>3. c = k BY <1>2, <2>2
  <2> QED BY <2>3 DEF c
<1> DEFINE I == 1..n
           at(k) == CHOOSE i \in I : Rank(key, I, i) = k
<1>4. InOrder(s, key, I) = [k \in 1..Cardinality(I) |-> s[at(k)]] BY Zenon DEF InOrder
<1>5. \A k \in 1..n : at(k) = k BY <1>3
<1> HIDE DEF at
<1> QED BY <1>1, <1>4, <1>5

(* What SubSeq takes from a sequence. *)
LEMMA Slice ==
  ASSUME NEW T, NEW s, s \in Seq(T), NEW a \in Int, NEW b \in Int, 1 <= a, a <= b, b <= Len(s),
         NEW o, o = SubSeq(s, a, b)
  PROVE  Slices(o, s, a, b - a + 1, T)
<1>1. Len(s) \in Nat OBVIOUS
<1>2. /\ o \in Seq(T)
      /\ Len(o) = b - a + 1
      /\ \A i \in 1..(b - a + 1) : o[i] = s[a + i - 1]
  BY <1>1
<1> QED BY <1>2 DEF Slices

(* The mean that the packet-loss profile looks at after k samples. *)
LEMMA LossWindow ==
  ASSUME NEW n \in Nat, NEW g \in Seq(Nat), Len(g) = n, NEW k \in 1..n
  PROVE  LET w == SubSeq(g, WindowStart(k), k)
         IN  /\ Len(w) \in 1..5 /\ Total(w) \in Int
             /\ window_value(packet_loss_profile, SubSeq(SeriesOf(g, n), 1, k)) = <<Total(w), Len(w)>>
<1> DEFINE w == SubSeq(g, WindowStart(k), k)
           p == packet_loss_profile
           x == SubSeq(SeriesOf(g, n), 1, k)
           y == sorted_values(x)
           z == SubSeq(y, Larger(k - 5, 0) + 1, k)
           len == k - WindowStart(k) + 1
<1>1. WindowStart(k) \in 1..k /\ len \in 1..5 /\ Larger(k - 5, 0) + 1 = WindowStart(k) BY DEF WindowStart, Larger
<1>2. DOMAIN x = 1..k /\ \A i \in 1..k : x[i] = [at |-> i, value |-> g[i]] BY DEF SeriesOf
<1>3. y = [i \in 1..k |-> x[i]]
  <2> DEFINE key == [i \in 1..k |-> x[i].at]
  <2> HIDE DEF x
  <2>1. y = InOrder(x, key, 1..k) BY <1>2, Zenon DEF sorted_values, SortedBy
  <2>2. \A i \in 1..k : key[i] = i BY <1>2
  <2> HIDE DEF key, y
  <2> QED BY <1>2, <2>1, <2>2, SortedAlready
<1>4. /\ p.window = 5 /\ p.window_type = "Measurements" /\ p.window_function = "avg" BY DEF packet_loss_profile
<1> HIDE DEF x, y, p
<1>5. y \in Seq([at : Nat, value : Nat]) /\ DOMAIN y = 1..k /\ Len(y) = k /\ \A i \in 1..k : y[i].value = g[i]
  <2>1. \A i \in 1..k : x[i] \in [at : Nat, value : Nat] /\ x[i].value = g[i] BY <1>2
  <2>2. \A i \in 1..k : y[i] \in [at : Nat, value : Nat] /\ y[i].value = g[i] BY <1>3, <2>1
  <2>3. y = [i \in 1..k |-> y[i]] BY <1>3
  <2> DEFINE R == [at : Nat, value : Nat]
  <2>4. \A i \in 1..k : y[i] \in R BY <2>2
  <2> HIDE DEF R
  <2>5. y \in Seq(R) /\ DOMAIN y = 1..k /\ Len(y) = k BY <2>3, <2>4
  <2> QED BY <2>2, <2>5 DEF R
<1>6. select_window(p, x) = z
  <2>1. Larger(p.window, 1) = 5 BY <1>4 DEF Larger
  <2>2. select_window(p, x) = SubSeq(y, Larger(Len(y) - Larger(p.window, 1), 0) + 1, Len(y))
    BY <1>4, Zenon DEF select_window, y
  <2> QED BY <1>5, <2>1, <2>2
<1>7. DOMAIN z = 1..len /\ Len(z) = len /\ \A i \in 1..len : z[i].value = g[WindowStart(k) + i - 1]
  <2> DEFINE R == [at : Nat, value : Nat]
  <2>1. y \in Seq(R) BY <1>5
  <2> HIDE DEF R
  <2>2. z = SubSeq(y, WindowStart(k), k) BY <1>1
  <2> HIDE DEF z
  <2>a. WindowStart(k) \in Int /\ k \in Int /\ 1 <= WindowStart(k) /\ WindowStart(k) <= k /\ k <= Len(y) BY <1>1, <1>5
  <2>3. Slices(z, y, WindowStart(k), len, R) BY <2>a, <2>1, <2>2, Slice, Zenon
  <2>4. \A i \in 1..len : WindowStart(k) + i - 1 \in 1..k BY <1>1, SMTT(30)
  <2> HIDE DEF len
  <2> QED BY <1>5, <2>3, <2>4 DEF Slices
<1>8. w \in Seq(Nat) /\ DOMAIN w = 1..len /\ Len(w) = len
      /\ \A i \in 1..len : w[i] = g[WindowStart(k) + i - 1]
  <2>a. WindowStart(k) \in Int /\ k \in Int /\ 1 <= WindowStart(k) /\ WindowStart(k) <= k /\ k <= Len(g) BY <1>1
  <2>1. Slices(w, g, WindowStart(k), len, Nat) BY <2>a, Slice, Zenon
  <2> HIDE DEF w, len
  <2> QED BY <2>1 DEF Slices
<1> HIDE DEF z, w, len
<1>9. [i \in DOMAIN z |-> z[i].value] = w
  <2>1. w = [i \in 1..len |-> w[i]] BY <1>8
  <2>2. \A i \in 1..len : z[i].value = w[i] BY <1>7, <1>8, Zenon
  <2> QED BY <1>7, <2>1, <2>2
<1>10. window_value(p, x) = apply_window("avg", z) BY <1>4, <1>6, Zenon DEF window_value
<1>11. z # <<>> BY <1>1, <1>7
<1>12. apply_window("avg", z) = <<window_sum(z), Len(z)>>
  <2>1. "avg" \notin DOMAIN Quantile BY DEF Quantile
  <2> DEFINE f == "avg"
  <2>2. f = "avg" /\ f # "last" /\ f # "sum" /\ f # "step_inc" /\ f # "step_dec" /\ f # "step_abs" OBVIOUS
  <2>3. f \notin DOMAIN Quantile BY <2>1
  <2> HIDE DEF f
  <2>4. apply_window(f, z) = <<window_sum(z), Len(z)>> BY <1>11, <2>2, <2>3, Zenon DEF apply_window
  <2> QED BY <2>4 DEF f
<1>13. window_sum(z) = Total(w) BY <1>9, Zenon DEF window_sum
<1>14. Total(w) \in Int
  <2>a. len \in Nat /\ \A i \in 1..len : w[i] \in Int BY <1>1, <1>8
  <2>1. PICK a : PartialSums(a, len, w) BY <1>8, <2>a, TotalIs
  <2> QED BY <1>1, <2>1 DEF PartialSums
<1> QED BY <1>1, <1>7, <1>8, <1>10, <1>12, <1>13, <1>14 DEF w, p, x

(* One sample appends one severity, chosen with hysteresis. *)
LEMMA HistoryStepIs ==
  ASSUME NEW n \in Nat, NEW g \in Seq(Nat), Len(g) = n, NEW k \in 1..n, NEW h \in Seq(0..2)
  PROVE  \E v \in 0..2 :
           /\ historyStep(h, k, packet_loss_profile, SeriesOf(g, n)) = Append(h, v)
           /\ h # <<>> => Hysteresis(h[Len(h)], v, Total(LossMean(g, k)), Len(LossMean(g, k)))
<1> DEFINE w == LossMean(g, k)
           p == packet_loss_profile
           open == IF h = <<>> THEN 0 ELSE Last(h)
           v == next_open(p, open, <<Total(w), Len(w)>>)
           x == SubSeq(SeriesOf(g, n), 1, k)
<1>1. /\ Len(w) \in 1..5 /\ Total(w) \in Int
      /\ window_value(p, x) = <<Total(w), Len(w)>>
  BY LossWindow, Zenon DEF LossMean
<1>2. open \in 0..2 /\ (h # <<>> => open = h[Len(h)])
  <2>1. h # <<>> => Len(h) \in 1..Len(h) /\ DOMAIN h = 1..Len(h) OBVIOUS
  <2> QED BY <2>1 DEF Last
<1> HIDE DEF open, w
<1>3. v \in 0..2 /\ Hysteresis(open, v, Total(w), Len(w))
  <2>1. Len(w) \in Nat \ {0} BY <1>1
  <2> HIDE DEF v
  <2> QED BY <1>1, <1>2, <2>1, NextOpens, Zenon DEF v
<1>4. historyStep(h, k, p, SeriesOf(g, n)) = Append(h, v) BY <1>1, Zenon DEF historyStep, open
<1> HIDE DEF v
<1> QED BY <1>2, <1>3, <1>4 DEF w

(* One more sample keeps the history steady. *)
LEMMA SteadyNext ==
  ASSUME NEW n \in Nat, NEW g \in Seq(Nat), Len(g) = n, NEW k \in 0..(n - 1), NEW h,
         Steady(h, g, k)
  PROVE  Steady(historyStep(h, k + 1, packet_loss_profile, SeriesOf(g, n)), g, k + 1)
<1> DEFINE b == historyStep(h, k + 1, packet_loss_profile, SeriesOf(g, n))
<1>1. h \in Seq(0..2) /\ DOMAIN h = 1..k /\ Len(h) = k /\ k + 1 \in 1..n /\ k \in Nat BY DEF Steady
<1>2. PICK v \in 0..2 :
        /\ b = Append(h, v)
        /\ h # <<>> => Hysteresis(h[Len(h)], v, Total(LossMean(g, k + 1)), Len(LossMean(g, k + 1)))
  BY <1>1, HistoryStepIs
<1> HIDE DEF b
<1>3. /\ b \in Seq(0..2) /\ DOMAIN b = 1..(k + 1) /\ Len(b) = k + 1
      /\ b[k + 1] = v /\ \A j \in 1..k : b[j] = h[j]
  BY <1>1, <1>2
<1>4. ASSUME NEW j \in 2..(k + 1)
      PROVE  Hysteresis(b[j - 1], b[j], Total(LossMean(g, j)), Len(LossMean(g, j)))
  <2>1. CASE j = k + 1
    <3>1. h # <<>> /\ j - 1 = k /\ k \in 1..k BY <1>1, <2>1
    <3> QED BY <1>1, <1>2, <1>3, <2>1, <3>1
  <2>2. CASE j # k + 1
    <3>1. j \in 2..k /\ j \in 1..k /\ j - 1 \in 1..k BY <1>1, <2>2
    <3>2. b[j] = h[j] /\ b[j - 1] = h[j - 1] BY <1>3, <3>1
    <3>3. Hysteresis(h[j - 1], h[j], Total(LossMean(g, j)), Len(LossMean(g, j))) BY <3>1 DEF Steady
    <3> QED BY <3>2, <3>3
  <2> QED BY <2>1, <2>2
<1> QED BY <1>3, <1>4 DEF Steady, b

(* The whole history moves with hysteresis. *)
LEMMA HistoryIsSteady ==
  ASSUME NEW n \in Nat, NEW g \in Seq(Nat), Len(g) = n
  PROVE  Steady(threshold_history(packet_loss_profile, SeriesOf(g, n)), g, n)
<1> DEFINE T == Seq(0..2)
           base == <<>>
           x == [i \in 1..n |-> i]
           s(h, k) == historyStep(h, k, packet_loss_profile, SeriesOf(g, n))
           G == [p \in T \X (1..n) |-> s(p[1], p[2])]
           E(F) == F = [t \in SUBSET (1..n) |->
                          IF t = {} THEN base ELSE s(F[t \ {Max(t)}], x[Max(t)])]
           iter == CHOOSE F : E(F)
<1>0. base \in T /\ Len(x) = n /\ DOMAIN x = 1..n /\ (\A i \in 1..n : x[i] = i)
      /\ DOMAIN SeriesOf(g, n) = 1..n
  BY DEF SeriesOf
<1>1. \A h \in T, i \in 1..n : s(h, i) \in T
  <2> SUFFICES ASSUME NEW h \in T, NEW i \in 1..n PROVE s(h, i) \in T OBVIOUS
  <2>1. PICK v \in 0..2 : s(h, i) = Append(h, v) BY HistoryStepIs
  <2> HIDE DEF s
  <2> QED BY <2>1
<1>3. threshold_history(packet_loss_profile, SeriesOf(g, n)) = iter[1..n]
  <2> DEFINE S == SeriesOf(g, n)
  <2>1. [i \in DOMAIN S |-> i] = x BY <1>0
  <2> HIDE DEF S
  <2>2. threshold_history(packet_loss_profile, S)
          = FoldLeft(LAMBDA h, k : historyStep(h, k, packet_loss_profile, S), <<>>, x)
    BY <2>1, Zenon DEF threshold_history, historyStep
  <2> HIDE DEF x
  <2>3. FoldLeft(LAMBDA h, k : historyStep(h, k, packet_loss_profile, S), <<>>, x) = iter[1..n]
    BY <1>0, Zenon DEF FoldLeft, MapThenFoldSet, S
  <2> QED BY <2>2, <2>3, Zenon DEF S
<1> HIDE DEF T, x, s, base
<1>a. G \in [T \X (1..n) -> T] BY <1>1
<1>2. \A h \in T, i \in 1..n : G[<<h, i>>] = s(h, i) OBVIOUS
<1> HIDE DEF G
<1>4. \E F : E(F)
  <2>1. PICK F : Solves(F, n, T, base, G) BY <1>0, <1>a, FoldSolves
  <2>2. ASSUME NEW t \in SUBSET (1..n)
        PROVE  F[t] = IF t = {} THEN base ELSE s(F[t \ {Max(t)}], x[Max(t)])
    <3>1. CASE t = {} BY <2>1, <3>1 DEF Solves
    <3>2. CASE t # {}
      <4>1. Max(t) \in 1..n /\ t \ {Max(t)} \in SUBSET (1..n) BY <3>2, TopOf
      <4>2. F[t \ {Max(t)}] \in T /\ F[t] = G[<<F[t \ {Max(t)}], Max(t)>>] BY <2>1, <3>2, <4>1 DEF Solves
      <4>3. F[t] = s(F[t \ {Max(t)}], Max(t)) /\ x[Max(t)] = Max(t) BY <1>0, <1>2, <4>1, <4>2
      <4> QED BY <3>2, <4>3
    <3> QED BY <3>1, <3>2
  <2>3. F = [t \in SUBSET (1..n) |-> F[t]] BY <2>1 DEF Solves
  <2>4. E(F) BY <2>2, <2>3
  <2> QED BY <2>4
<1>5. E(iter)
  <2> HIDE DEF E
  <2> QED BY <1>4
<1> HIDE DEF iter
<1>6. Obeys(iter, n, T, base, G)
  <2>1. iter[{}] = base BY <1>5
  <2>2. ASSUME NEW t \in SUBSET (1..n), t # {}, iter[t \ {Max(t)}] \in T
        PROVE  iter[t] = G[<<iter[t \ {Max(t)}], Max(t)>>]
    <3>1. Max(t) \in 1..n BY <2>2, TopOf
    <3>2. iter[t] = s(iter[t \ {Max(t)}], x[Max(t)]) BY <1>5, <2>2
    <3>3. x[Max(t)] = Max(t) BY <1>0, <3>1
    <3> QED BY <1>2, <2>2, <3>1, <3>2, <3>3
  <2> QED BY <2>1, <2>2 DEF Obeys
<1> HIDE DEF E
<1>7. PICK a : Traces(a, n, T, base, G, iter[1..n]) BY <1>0, <1>a, <1>6, FoldTrace
<1>8. a \in [0..n -> T] /\ a[0] = base /\ a[n] = iter[1..n] BY <1>7 DEF Traces
<1>9. ASSUME NEW k \in 0..(n - 1) PROVE a[k + 1] = s(a[k], k + 1)
  <2>1. a[k + 1] = G[<<a[k], k + 1>>] BY <1>7 DEF Traces
  <2>2. a[k] \in T /\ k + 1 \in 1..n BY <1>0, <1>8
  <2> QED BY <1>2, <2>1, <2>2
<1> DEFINE S == {k \in 0..n : Steady(a[k], g, k)}
<1>10. 0 \in S
  <2>1. Steady(<<>>, g, 0) BY DEF Steady
  <2> QED BY <1>8, <2>1 DEF base
<1>11. ASSUME NEW k \in 0..(n - 1), k \in S PROVE k + 1 \in S
  <2>1. Steady(a[k], g, k) BY <1>11
  <2>2. Steady(s(a[k], k + 1), g, k + 1) BY <2>1, SteadyNext DEF s
  <2>3. k + 1 \in 0..n OBVIOUS
  <2> QED BY <1>9, <2>2, <2>3
<1>12. \A k \in 0..n : k \in S
  <2> HIDE DEF S
  <2> QED BY <1>10, <1>11, UpTo
<1>13. n \in 0..n OBVIOUS
<1>14. Steady(a[n], g, n) BY <1>12, <1>13
<1> QED BY <1>3, <1>8, <1>14

(* The history that thresholds reports. *)
LEMMA ThresholdsReport ==
  ASSUME NEW e, NEW ok
  PROVE  dispatch("thresholds", e, ok).report.history =
           threshold_history(packet_loss_profile, [k \in DOMAIN e |-> [at |-> k, value |-> e[k]]])
<1> DEFINE c == "thresholds"
           h == threshold_history(packet_loss_profile, [k \in DOMAIN e |-> [at |-> k, value |-> e[k]]])
           rep == [history |-> h, unit |-> humanize(e[1], SI_SCALES)]
<1>1. dispatch(c, e, ok) = diagnosis_report(c, e, ok) BY Route DEF DiagnosisCommands
<1>2. diagnosis_report(c, e, ok) = Completed(rep) BY ZenonT(30) DEF diagnosis_report
<1> HIDE DEF h
<1>3. rep.history = h OBVIOUS
<1> HIDE DEF rep
<1> QED BY <1>1, <1>2, <1>3, ReportOf DEF h

(* A mean in tenths of a percent, rounded down, and the sum it is of. *)
LEMMA MeanOf ==
  ASSUME NEW t \in Int, NEW l \in 1..5
  PROVE  /\ t \div l \in 5..9 => t < 10 * l /\ t >= 5 * l
         /\ t \div l \in 80..99 => t >= 80 * l
<1>1. CASE l = 1 BY <1>1
<1>2. CASE l = 2 BY <1>2
<1>3. CASE l = 3 BY <1>3
<1>4. CASE l = 4 BY <1>4
<1>5. CASE l = 5 BY <1>5
<1> QED BY <1>1, <1>2, <1>3, <1>4, <1>5

(* The hysteresis of the packet-loss profile. *)
LEMMA HysteresisHolds ==
  ASSUME MachineInv, outcome.exit = 0, command = "thresholds",
         report = dispatch("thresholds", evidence, ready).report
  PROVE  ThresholdsDoNotFlap
<1> DEFINE e == evidence
           n == Len(e)
           h == report.history
           mean(k) == Total(LossMean(e, k)) \div Len(LossMean(e, k))
<1>1. n \in Nat \ {0} /\ DOMAIN e = 1..n /\ \A i \in 1..n : e[i] \in Nat
  <2>1. PICK S : S = Nat OBVIOUS
  <2>2. Shapes(command) = [i \in DOMAIN Measurements[command] |-> S] BY <2>1, Zenon DEF Shapes
  <2>3. command \in ShapedCommands BY DEF ShapedCommands
  <2>4. n \in Nat \ {0} /\ DOMAIN e = 1..n /\ \A i \in 1..n : e[i] \in S BY <2>2, <2>3, UniformShaped, Zenon
  <2> QED BY <2>1, <2>4, Zenon
<1>2. e \in Seq(Nat)
  <2>1. e \in Seq(Values) BY DEF MachineInv, Gathered
  <2>2. e = [i \in 1..n |-> e[i]] BY <1>1, <2>1
  <2> QED BY <1>1, <2>2
<1>3. h = threshold_history(packet_loss_profile, SeriesOf(e, n)) BY <1>1, ThresholdsReport, Zenon DEF SeriesOf
<1> HIDE DEF n
<1>4. Steady(h, e, n) BY <1>1, <1>2, <1>3, HistoryIsSteady DEF n
<1> HIDE DEF h
<1>5. ASSUME NEW k \in 2..Len(h)
      PROVE  /\ mean(k) \in 5..9 /\ h[k - 1] \in {0, 2} => h[k] = h[k - 1]
             /\ mean(k) \in 80..99 /\ h[k - 1] = 1 => h[k] = 1
             /\ h[k] # h[k - 1] => 0 \in {h[k], h[k - 1]}
  <2> DEFINE t == Total(LossMean(e, k))
             l == Len(LossMean(e, k))
  <2>1. k \in 2..n /\ k \in 1..n BY <1>1, <1>4 DEF Steady
  <2>2. Hysteresis(h[k - 1], h[k], t, l) BY <1>4, <2>1 DEF Steady
  <2>3. l \in 1..5 /\ t \in Int
    <3>1. Len(e) = n /\ n \in Nat BY <1>1 DEF n
    <3> HIDE DEF e
    <3> QED BY <1>2, <2>1, <3>1, LossWindow, Zenon DEF LossMean
  <2> HIDE DEF t, l
  <2>4. /\ t \div l \in 5..9 => t < 10 * l /\ t >= 5 * l
        /\ t \div l \in 80..99 => t >= 80 * l
    BY <2>3, MeanOf
  <2>5. mean(k) = t \div l BY DEF t, l
  <2> HIDE DEF mean
  <2> QED BY <2>2, <2>4, <2>5 DEF Hysteresis
<1> QED BY <1>5, Zenon DEF ThresholdsDoNotFlap, LossMean, WindowStart, h

-----------------------------------------------------------------------------
(* AgreesWithReference: capacity-knee, the order of the sweep. *)

(* A pair stopped tracking: neighbours, and short of the offered rate. *)
LEMMA UntrackingIs ==
  ASSUME NEW points, NEW v
  PROVE  v \in Untracking(points) <=> Neighbours(points, Where(points, usable), v) /\ Untracked(points, v)
<1>1. v \in SweepWindows(points) <=> Neighbours(points, Where(points, usable), v)
  BY Zenon DEF SweepWindows, Neighbours
<1> QED BY <1>1, Zenon DEF Untracking

(* The first of the windows that stopped tracking. *)
LEMMA FirstIs ==
  ASSUME NEW points, Sweep(points), Untracking(points) # {}
  PROVE  /\ IsFirst(FirstUntracking(points), points)
         /\ \A v : IsFirst(v, points) => v = FirstUntracking(points)
<1> DEFINE U   == Where(points, usable)
           bad == Untracking(points)
           w   == FirstUntracking(points)
<1>1. U = {i \in DOMAIN points : usable(points[i])} BY Zenon DEF Where
<1> HIDE DEF U
<1>6. \A v \in bad : /\ v \in U \X U /\ SortedBefore(points, v[1], v[2])
                     /\ ~\E k \in U : SortedBefore(points, v[1], k) /\ SortedBefore(points, k, v[2])
  BY UntrackingIs, Zenon DEF Neighbours, U
<1>7. \A v \in bad : v[1] \in U /\ v[2] \in U /\ v = <<v[1], v[2]>>
  <2> HIDE DEF bad
  <2>1. \A v \in bad : v \in U \X U BY <1>6, Zenon
  <2> QED BY <2>1
<1>8. U \subseteq DOMAIN points /\ U \subseteq Nat /\ \A i \in U : points[i].offered \in Nat BY <1>1 DEF Sweep
<1>9. ASSUME NEW v \in bad, NEW u \in bad, v[1] = u[1] PROVE v = u
  <2> HIDE DEF bad
  <2>1. v[2] = u[2] \/ SortedBefore(points, v[2], u[2]) \/ SortedBefore(points, u[2], v[2])
    BY <1>7, <1>8 DEF SortedBefore
  <2>2. v[2] = u[2] BY <1>6, <1>7, <1>9, <2>1, Zenon
  <2> QED BY <1>7, <1>9, <2>2
<1>10. \E v \in bad : \A u \in bad : u = v \/ SortedBefore(points, v[1], u[1])
  <2> DEFINE F == {v[1] : v \in bad}
  <2>1. F \in SUBSET DOMAIN points /\ F # {} BY <1>7, <1>8
  <2>2. PICK i \in F : \A j \in F : i = j \/ SortedBefore(points, i, j)
    <3> HIDE DEF F
    <3> QED BY <2>1, FirstPoint
  <2>3. PICK v \in bad : i = v[1] OBVIOUS
  <2>4. \A u \in bad : v[1] = u[1] \/ SortedBefore(points, v[1], u[1]) BY <2>2, <2>3
  <2> QED BY <1>9, <2>4
<1>11. IsFirst(w, points) BY <1>10, Zenon DEF FirstUntracking, IsFirst
<1>12. ASSUME NEW v, IsFirst(v, points) PROVE v = w
  <2> HIDE DEF w
  <2>1. v \in bad /\ w \in bad
        /\ (w = v \/ SortedBefore(points, v[1], w[1]))
        /\ (v = w \/ SortedBefore(points, w[1], v[1]))
    BY <1>11, <1>12, Zenon DEF IsFirst
  <2> HIDE DEF bad
  <2>2. ~(SortedBefore(points, v[1], w[1]) /\ SortedBefore(points, w[1], v[1])) BY <1>7, <1>8, <2>1 DEF SortedBefore
  <2> QED BY <2>1, <2>2, Zenon
<1> QED BY <1>11, <1>12, Zenon

(* A set of indices is finite. *)
LEMMA WithinIsFinite ==
  ASSUME NEW n \in Nat, NEW A, A \subseteq 1..n
  PROVE  IsFiniteSet(A) /\ Cardinality(A) \in Nat
<1>1. IsFiniteSet(1..n) BY FS_Interval
<1>2. IsFiniteSet(A) BY <1>1, FS_Subset
<1> QED BY <1>2, FS_CardinalityType

(* Reordered points: the same ones are usable. *)
LEMMA RelabelledUsable ==
  ASSUME NEW n \in Nat, NEW f, NEW s, NEW p, Relabels(f, s, p, n)
  PROVE  /\ \A k \in 1..n : k \in Where(s, usable) <=> f[k] \in Where(p, usable)
         /\ Where(s, usable) \subseteq 1..n /\ Where(p, usable) \subseteq 1..n
         /\ Cardinality(Where(s, usable)) = Cardinality(Where(p, usable))
<1> DEFINE A == Where(s, usable)
           B == Where(p, usable)
           h == [k \in A |-> f[k]]
<1>1. A = {k \in DOMAIN s : usable(s[k])} /\ B = {k \in DOMAIN p : usable(p[k])} BY Zenon DEF Where
<1>2. A \subseteq 1..n /\ B \subseteq 1..n BY <1>1 DEF Relabels
<1>3. \A k \in 1..n : f[k] \in 1..n /\ (k \in A <=> f[k] \in B)
  <2>1. \A k \in 1..n : f[k] \in 1..n /\ s[k] = p[f[k]] BY DEF Relabels
  <2>2. DOMAIN s = 1..n /\ DOMAIN p = 1..n BY DEF Relabels
  <2> QED BY <1>1, <2>1, <2>2, Zenon
<1>4. h \in Bijection(A, B)
  <2>1. \A k, l \in 1..n : f[k] = f[l] => k = l BY DEF Relabels
  <2>2. \A i \in 1..n : \E k \in 1..n : f[k] = i BY DEF Relabels
  <2> HIDE DEF A, B
  <2>3. h \in [A -> B] BY <1>2, <1>3
  <2>4. h \in Injection(A, B) BY <1>2, <2>1, <2>3 DEF Injection, IsInjective
  <2>5. \A i \in B : \E k \in A : h[k] = i BY <1>2, <1>3, <2>2
  <2>6. h \in Surjection(A, B) BY <2>3, <2>5 DEF Surjection
  <2> QED BY <2>4, <2>6 DEF Bijection
<1> HIDE DEF A, B, h
<1>5. IsFiniteSet(A) BY <1>2, WithinIsFinite
<1>6. Cardinality(A) = Cardinality(B) BY <1>4, <1>5, FS_Bijection DEF ExistsBijection
<1> QED BY <1>2, <1>3, <1>6 DEF A, B

(* Reordered points: the same pairs stopped tracking. *)
LEMMA RelabelledWindows ==
  ASSUME NEW n \in Nat, NEW f, NEW s, NEW p, Relabels(f, s, p, n), NEW k \in 1..n, NEW l \in 1..n
  PROVE  <<k, l>> \in Untracking(s) <=> <<f[k], f[l]>> \in Untracking(p)
<1> DEFINE A == Where(s, usable)
           B == Where(p, usable)
           v == <<k, l>>
           w == <<f[k], f[l]>>
<1>1. /\ \A m \in 1..n : f[m] \in 1..n /\ (m \in A <=> f[m] \in B) /\ s[m] = p[f[m]]
      /\ A \subseteq 1..n /\ B \subseteq 1..n
  <2>1. /\ \A m \in 1..n : m \in A <=> f[m] \in B
        /\ A \subseteq 1..n /\ B \subseteq 1..n
    BY RelabelledUsable, Zenon
  <2> HIDE DEF A, B
  <2> QED BY <2>1 DEF Relabels
<1>2. \A m \in 1..n, i \in 1..n : SortedBefore(s, m, i) <=> SortedBefore(p, f[m], f[i]) BY DEF Relabels
<1>3. \A i \in 1..n : \E m \in 1..n : f[m] = i BY DEF Relabels
<1>4. v[1] = k /\ v[2] = l /\ w[1] = f[k] /\ w[2] = f[l] OBVIOUS
<1>5. /\ v \in A \X A <=> k \in A /\ l \in A
      /\ w \in B \X B <=> f[k] \in B /\ f[l] \in B
  OBVIOUS
<1> HIDE DEF A, B, v, w
<1>6. (\E m \in A : SortedBefore(s, k, m) /\ SortedBefore(s, m, l))
        <=> (\E i \in B : SortedBefore(p, f[k], i) /\ SortedBefore(p, i, f[l]))
  <2>1. ASSUME NEW m \in A, SortedBefore(s, k, m), SortedBefore(s, m, l)
        PROVE  \E i \in B : SortedBefore(p, f[k], i) /\ SortedBefore(p, i, f[l])
    BY <1>1, <1>2, <2>1, Zenon
  <2>2. ASSUME NEW i \in B, SortedBefore(p, f[k], i), SortedBefore(p, i, f[l])
        PROVE  \E m \in A : SortedBefore(s, k, m) /\ SortedBefore(s, m, l)
    <3>1. PICK m \in 1..n : f[m] = i BY <1>1, <1>3
    <3> QED BY <1>1, <1>2, <2>2, <3>1, Zenon
  <2> QED BY <2>1, <2>2, Zenon
<1>7. Neighbours(s, A, v) <=> Neighbours(p, B, w)
  <2>1. v \in A \X A <=> w \in B \X B BY <1>1, <1>5, Zenon
  <2>2. SortedBefore(s, v[1], v[2]) <=> SortedBefore(p, w[1], w[2]) BY <1>2, <1>4
  <2>3. (\E m \in A : SortedBefore(s, v[1], m) /\ SortedBefore(s, m, v[2]))
          <=> (\E i \in B : SortedBefore(p, w[1], i) /\ SortedBefore(p, i, w[2]))
    BY <1>4, <1>6
  <2> QED BY <2>1, <2>2, <2>3, Zenon DEF Neighbours
<1>8. Untracked(s, v) <=> Untracked(p, w) BY <1>1, <1>4, Zenon DEF Untracked
<1> QED BY <1>7, <1>8, UntrackingIs, Zenon DEF A, B, v, w

(* The knee of a sweep is that of the same sweep in another order. *)
LEMMA RelabelledKnee ==
  ASSUME NEW n \in Nat, NEW f, NEW s, NEW p, Relabels(f, s, p, n), Sweep(p), Sweep(s)
  PROVE  detect_knee(s) = detect_knee(p)
<1> DEFINE v == FirstUntracking(s)
           w == FirstUntracking(p)
           A == Untracking(s)
           B == Untracking(p)
<1>1. /\ Cardinality(Where(s, usable)) = Cardinality(Where(p, usable))
      /\ Where(s, usable) \subseteq 1..n /\ Where(p, usable) \subseteq 1..n
  BY RelabelledUsable, Zenon
<1>2. \A u \in A : u[1] \in 1..n /\ u[2] \in 1..n /\ u = <<u[1], u[2]>>
  <2> SUFFICES ASSUME NEW u \in A PROVE u[1] \in 1..n /\ u[2] \in 1..n /\ u = <<u[1], u[2]>> OBVIOUS
  <2>1. u \in Where(s, usable) \X Where(s, usable) BY UntrackingIs, Zenon DEF Neighbours
  <2> QED BY <1>1, <2>1
<1>3. \A u \in B : u[1] \in 1..n /\ u[2] \in 1..n /\ u = <<u[1], u[2]>>
  <2> SUFFICES ASSUME NEW u \in B PROVE u[1] \in 1..n /\ u[2] \in 1..n /\ u = <<u[1], u[2]>> OBVIOUS
  <2>1. u \in Where(p, usable) \X Where(p, usable) BY UntrackingIs, Zenon DEF Neighbours
  <2> QED BY <1>1, <2>1
<1>4. \A k \in 1..n, l \in 1..n : <<k, l>> \in A <=> <<f[k], f[l]>> \in B BY RelabelledWindows
<1>5. /\ \A k \in 1..n : f[k] \in 1..n /\ s[k] = p[f[k]]
      /\ \A i \in 1..n : \E k \in 1..n : f[k] = i
      /\ \A k, l \in 1..n : f[k] = f[l] => k = l
      /\ \A k, l \in 1..n : SortedBefore(s, k, l) <=> SortedBefore(p, f[k], f[l])
  BY DEF Relabels
<1> HIDE DEF A, B
<1>6. \A u \in B : \E x \in A : u = <<f[x[1]], f[x[2]]>>
  <2> SUFFICES ASSUME NEW u \in B PROVE \E x \in A : u = <<f[x[1]], f[x[2]]>> OBVIOUS
  <2>1. PICK k \in 1..n, l \in 1..n : f[k] = u[1] /\ f[l] = u[2] BY <1>3, <1>5
  <2>2. <<k, l>> \in A BY <1>3, <1>4, <2>1
  <2> QED BY <1>3, <2>1, <2>2
<1>7. A = {} <=> B = {}
  <2>1. \A u \in A : <<f[u[1]], f[u[2]]>> \in B BY <1>2, <1>4
  <2> QED BY <1>6, <2>1, Zenon
<1>8. ASSUME A # {}
      PROVE  v[1] \in 1..n /\ v[2] \in 1..n /\ w[1] = f[v[1]] /\ w[2] = f[v[2]]
  <2>1. v \in A /\ \A u \in A : u = v \/ SortedBefore(s, v[1], u[1]) BY <1>8, FirstIs, Zenon DEF IsFirst, A
  <2> HIDE DEF v, w
  <2>2. v[1] \in 1..n /\ v[2] \in 1..n /\ v = <<v[1], v[2]>> BY <1>2, <2>1
  <2> DEFINE z == <<f[v[1]], f[v[2]]>>
  <2>3. z \in B /\ z[1] = f[v[1]] /\ z[2] = f[v[2]] BY <1>4, <2>1, <2>2
  <2>4. ASSUME NEW u \in B PROVE u = z \/ SortedBefore(p, z[1], u[1])
    <3>1. PICK x \in A : u = <<f[x[1]], f[x[2]]>> BY <1>6
    <3>2. x[1] \in 1..n /\ u[1] = f[x[1]] BY <1>2, <3>1
    <3>3. x = v \/ SortedBefore(s, v[1], x[1]) BY <2>1
    <3>4. SortedBefore(s, v[1], x[1]) => SortedBefore(p, f[v[1]], f[x[1]]) BY <1>5, <2>2, <3>2
    <3> QED BY <2>3, <3>1, <3>2, <3>3, <3>4, Zenon
  <2> HIDE DEF z
  <2>5. IsFirst(z, p) BY <2>3, <2>4, Zenon DEF IsFirst, B
  <2>6. z = w BY <2>5, <1>7, <1>8, FirstIs, Zenon DEF B, w
  <2> QED BY <2>2, <2>3, <2>6
<1>9. A # {} => s[v[1]] = p[w[1]] /\ s[v[2]] = p[w[2]] BY <1>5, <1>8
<1> HIDE DEF v, w
<1>10. detect_knee(s) = KneeOf(Cardinality(Where(s, usable)), A, s[v[1]], s[v[2]]) BY KneeFrom, Zenon DEF A, v
<1>11. detect_knee(p) = KneeOf(Cardinality(Where(p, usable)), B, p[w[1]], p[w[2]]) BY KneeFrom, Zenon DEF B, w
<1>12. CASE A # {}
  <2>1. /\ Cardinality(Where(s, usable)) = Cardinality(Where(p, usable))
        /\ A # {} /\ B # {} /\ s[v[1]] = p[w[1]] /\ s[v[2]] = p[w[2]]
    BY <1>1, <1>7, <1>9, <1>12
  <2>2. \A c, x, y : KneeOf(c, A, x, y) = KneeOf(c, B, x, y)
    <3>1. A # {} /\ B # {} BY <2>1
    <3> QED BY <3>1, Zenon DEF KneeOf
  <2> QED BY <1>10, <1>11, <2>1, <2>2
<1>13. CASE A = {}
  <2>1. A = B /\ A = {} BY <1>7, <1>13
  <2>2. Cardinality(Where(p, usable)) \in Nat BY <1>1, WithinIsFinite
  <2>3. ASSUME NEW c \in Nat, NEW x, NEW y, NEW x2, NEW y2 PROVE KneeOf(c, {}, x, y) = KneeOf(c, {}, x2, y2)
    <3>1. c < 3 \/ (c >= 3 /\ ~(c < 3)) OBVIOUS
    <3>2. CASE c < 3
      <4>1. ~(c >= 3) BY <3>2
      <4> QED BY <3>2, <4>1, Zenon DEF KneeOf
    <3>3. CASE c >= 3 /\ ~(c < 3) BY <3>3, Zenon DEF KneeOf
    <3> QED BY <3>1, <3>2, <3>3
  <2> QED BY <1>1, <1>10, <1>11, <2>1, <2>2, <2>3
<1> QED BY <1>12, <1>13

(* A sweep of distinct rates, sorted, has the same knee. *)
LEMMA SortedKnee ==
  ASSUME NEW n \in Nat, NEW p, DOMAIN p = 1..n, \A i \in 1..n : p[i].offered \in Nat,
         \A i, j \in 1..n : p[i].offered = p[j].offered => i = j,
         NEW s, s = ByRate(p)
  PROVE  detect_knee(s) = detect_knee(p)
<1> DEFINE key == [i \in 1..n |-> p[i].offered]
<1>1. s = InOrder(p, key, 1..n) BY Zenon DEF SortedBy, ByRate
<1>2. \A i \in 1..n : key[i] = p[i].offered /\ key[i] \in Int OBVIOUS
<1>f. IsFiniteSet(1..n) BY WithinIsFinite
<1> HIDE DEF key
<1>3. DOMAIN s = 1..n /\ \E f : Sorting(f, p, s, n, key) BY <1>1, <1>2, Sorts
<1>4. PICK f : Sorting(f, p, s, n, key) BY <1>3
<1>5. /\ f \in [1..n -> 1..n] /\ \A k \in 1..n : s[k] = p[f[k]]
      /\ \A i \in 1..n : \E k \in 1..n : f[k] = i
      /\ \A k, l \in 1..n : k < l <=> Precedes(key, f[k], f[l])
  BY <1>4 DEF Sorting
<1>6. \A k \in 1..n, l \in 1..n : f[k] = f[l] => k = l
  <2> SUFFICES ASSUME NEW k \in 1..n, NEW l \in 1..n, f[k] = f[l] PROVE k = l OBVIOUS
  <2>1. f[k] \in 1..n /\ key[f[k]] \in Int BY <1>2, <1>5
  <2>2. ~Precedes(key, f[k], f[l]) /\ ~Precedes(key, f[l], f[k]) BY <2>1 DEF Precedes
  <2>3. ~(k < l) /\ ~(l < k) BY <1>5, <2>2
  <2> QED BY <2>3
<1>7. ASSUME NEW k \in 1..n, NEW l \in 1..n
      PROVE  SortedBefore(s, k, l) <=> SortedBefore(p, f[k], f[l])
  <2> DEFINE a == p[f[k]].offered
             b == p[f[l]].offered
  <2>1. f[k] \in 1..n /\ f[l] \in 1..n /\ a \in Nat /\ b \in Nat
        /\ s[k].offered = a /\ s[l].offered = b /\ key[f[k]] = a /\ key[f[l]] = b
    BY <1>2, <1>5
  <2>2. a = b => f[k] = f[l] /\ k = l BY <1>6, <2>1
  <2> HIDE DEF a, b
  <2>4. SortedBefore(s, k, l) <=> (a < b \/ (a = b /\ k < l)) BY <2>1 DEF SortedBefore
  <2>5. SortedBefore(p, f[k], f[l]) <=> (a < b \/ (a = b /\ f[k] < f[l])) BY <2>1 DEF SortedBefore, a, b
  <2> QED BY <2>1, <2>2, <2>4, <2>5
<1>8. Relabels(f, s, p, n) BY <1>3, <1>5, <1>6, <1>7, Zenon DEF Relabels
<1>9. Sweep(p) BY <1>f DEF Sweep
<1>10. Sweep(s)
  <2>1. \A i \in 1..n : s[i].offered \in Nat BY <1>5
  <2>2. DOMAIN s = 1..n BY <1>3
  <2> QED BY <1>f, <2>1, <2>2 DEF Sweep
<1> QED BY <1>8, <1>9, <1>10, RelabelledKnee

(* Points of distinct rates. *)
LEMMA DistinctRates ==
  ASSUME NEW n \in Nat, NEW p, DOMAIN p = 1..n, Cardinality({x.offered : x \in Range(p)}) = n
  PROVE  \A i, j \in 1..n : p[i].offered = p[j].offered => i = j
<1> DEFINE S == {x.offered : x \in Range(p)}
           f == [i \in 1..n |-> p[i].offered]
<1>1. S = {f[i] : i \in 1..n} BY DEF Range
<1>2. f = [i \in 1..n |-> f[i]] OBVIOUS
<1> HIDE DEF S, f
<1>3. \A i, j \in 1..n : f[i] = f[j] => i = j BY <1>1, <1>2, DistinctValues DEF S
<1> QED BY <1>3 DEF f

(* The knee does not depend on the order in which distinct rates were run. *)
LEMMA KneeIsOfTheRates ==
  ASSUME MachineInv, outcome.exit = 0, command = "capacity-knee"
  PROVE  KneeIgnoresExecutionOrder
<1> DEFINE c == "capacity-knee"
           e == evidence
           p == SubSeq(e, 3, 5)
           q == SubSeq(e, 6, 8)
           s == ByRate(p)
           Point == [offered : Nat, up : Int, down : Int, rejected : STRING]
<1>1. outcome = dispatch(c, e, ready) /\ Shaped(c, e) BY VerdictOnShapedEvidence DEF ShapedCommands
<1>2. DOMAIN e = 1..8 /\ \A i \in 3..8 : e[i] \in Point BY <1>1, KneeShape
<1>3. DOMAIN p = 1..3 /\ \A i \in 1..3 : p[i] = e[i + 2] BY <1>2
<1>4. report = build_knee_report(p, q, e[1], e[2]) BY <1>1, KneeReport DEF report
<1> HIDE DEF p, q
<1>5. report.native = detect_knee(p) BY <1>4 DEF build_knee_report, knee_report
<1>6. \A i \in 1..3 : p[i].offered \in Nat BY <1>2, <1>3
<1>a. \E z : z = s OBVIOUS
<1>b. PICK z : z = s BY <1>a
<1>7. ASSUME Cardinality({x.offered : x \in Range(p)}) = 3 PROVE detect_knee(s) = report.native
  <2>1. \A i, j \in 1..3 : p[i].offered = p[j].offered => i = j BY <1>3, <1>7, DistinctRates, ZenonT(30)
  <2>n. 3 \in Nat OBVIOUS
  <2> HIDE DEF s
  <2>s. z = ByRate(p) BY <1>b DEF s
  <2>2. detect_knee(z) = detect_knee(p) BY <1>3, <1>6, <2>n, <2>s, <2>1, SortedKnee, Zenon
  <2> QED BY <1>5, <1>b, <2>2, Zenon
<1> QED BY <1>7, Zenon DEF KneeIgnoresExecutionOrder, ByRate, p

-----------------------------------------------------------------------------
(* AgreesWithReference: burst-analysis, its bursts and its depths. *)

(* The bursts, as runs of the packets that nothing echoed. *)
LEMMA RunsAreMaximal ==
  ASSUME NEW n \in Nat, NEW Q, Q \subseteq 0..(n - 1), NEW b, Runs(b, Q, n + 1)
  PROVE  BurstSet(b) = MaximalRuns(Q, n)
<1> DEFINE A == {<<b[i].start, b[i].len>> : i \in DOMAIN b}
           R == {r \in Q \X (1..n) : /\ r[1]..(r[1] + r[2] - 1) \subseteq Q
                                     /\ r[1] - 1 \notin Q /\ r[1] + r[2] \notin Q}
<1>1. /\ DOMAIN b = 1..Len(b)
      /\ \A i \in 1..Len(b) : /\ b[i].len \in 1..n /\ b[i].start \in Q
                              /\ ClosedRun(Q, n + 1, b[i].start, b[i].len)
  BY RunLengths
<1>2. ASSUME NEW i \in DOMAIN b PROVE <<b[i].start, b[i].len>> \in R
  <2> DEFINE s == b[i].start
             m == b[i].len
  <2>1. s \in Q /\ m \in 1..n /\ ClosedRun(Q, n + 1, s, m) BY <1>1
  <2> HIDE DEF s, m
  <2>2. s..(s + m - 1) \subseteq Q /\ s - 1 \notin Q /\ s + m \notin Q BY <2>1, Zenon DEF ClosedRun
  <2>3. <<s, m>> \in R BY <2>1, <2>2
  <2> QED BY <2>3 DEF s, m
<1>3. ASSUME NEW r \in R PROVE r \in A
  <2> DEFINE s == r[1]
             m == r[2]
  <2>1. /\ s \in Q /\ m \in 1..n /\ r = <<s, m>>
        /\ s..(s + m - 1) \subseteq Q /\ s - 1 \notin Q /\ s + m \notin Q
    OBVIOUS
  <2> HIDE DEF s, m
  <2>2. s \in Nat /\ m \in Nat /\ m > 0 /\ s + m - 1 \in Q BY <2>1
  <2>3. s + m < n + 1 BY <2>1, <2>2
  <2>4. ClosedRun(Q, n + 1, s, m) BY <2>1, <2>2, <2>3 DEF ClosedRun
  <2>5. PICK i \in 1..Len(b) : b[i].start = s /\ b[i].len = m BY <2>2, <2>4 DEF Runs
  <2> QED BY <1>1, <2>1, <2>5
<1> HIDE DEF A, R
<1>4. A \subseteq R BY <1>2 DEF A
<1>5. R \subseteq A BY <1>3
<1> QED BY <1>4, <1>5 DEF A, R, BurstSet, MaximalRuns

(* A sum over a finite set from the sums C[T] of its subsets. *)
LEMMA SumIs ==
  ASSUME NEW S, IsFiniteSet(S), NEW f, NEW C, Adds(C, f, S)
  PROVE  SumFunctionOnSet(f, S) = C[S]
<1> DEFINE E(F) == F = [s \in SUBSET S |->
                          IF s = {} THEN 0
                          ELSE f[CHOOSE x \in s : TRUE] + F[s \ {CHOOSE x \in s : TRUE}]]
           iter == CHOOSE F : E(F)
<1>1. SumFunctionOnSet(f, S) = iter[S] BY Zenon DEF SumFunctionOnSet, FoldFunctionOnSet, MapThenFoldSet
<1>2. \A s \in SUBSET S : s # {} => (CHOOSE x \in s : TRUE) \in s OBVIOUS
<1>3. E(C)
  <2>1. ASSUME NEW s \in SUBSET S
        PROVE  C[s] = IF s = {} THEN 0 ELSE f[CHOOSE x \in s : TRUE] + C[s \ {CHOOSE x \in s : TRUE}]
    BY <1>2 DEF Adds
  <2>2. C = [s \in SUBSET S |-> C[s]] BY DEF Adds
  <2> QED BY <2>1, <2>2
<1>4. E(iter)
  <2> HIDE DEF E
  <2> QED BY <1>3
<1> HIDE DEF iter
<1> DEFINE n == Cardinality(S)
           K == {k \in 0..n : \A s \in SUBSET S : Cardinality(s) = k => iter[s] = C[s]}
<1>5. n \in Nat /\ \A s \in SUBSET S : IsFiniteSet(s) /\ Cardinality(s) \in 0..n
  <2>1. n \in Nat BY FS_CardinalityType
  <2> SUFFICES ASSUME NEW s \in SUBSET S PROVE IsFiniteSet(s) /\ Cardinality(s) \in 0..n BY <2>1
  <2>2. IsFiniteSet(s) /\ Cardinality(s) <= n BY FS_Subset
  <2>3. Cardinality(s) \in Nat BY <2>2, FS_CardinalityType
  <2> HIDE DEF n
  <2> QED BY <2>1, <2>2, <2>3
<1>6. 0 \in K
  <2>1. ASSUME NEW s \in SUBSET S, Cardinality(s) = 0 PROVE s = {} BY <1>5, <2>1, FS_EmptySet, Zenon
  <2>2. iter[{}] = 0 BY <1>4
  <2>3. C[{}] = 0 BY DEF Adds
  <2>4. 0 \in 0..n BY <1>5
  <2>5. \A s \in SUBSET S : Cardinality(s) = 0 => iter[s] = C[s] BY <2>1, <2>2, <2>3
  <2> QED BY <2>4, <2>5
<1>7. ASSUME NEW k \in 0..(n - 1), k \in K PROVE k + 1 \in K
  <2> SUFFICES ASSUME NEW s \in SUBSET S, Cardinality(s) = k + 1 PROVE iter[s] = C[s] BY <1>5
  <2>0. Cardinality(s) # 0 OBVIOUS
  <2>1. s # {} BY <2>0, FS_EmptySet, Zenon
  <2> DEFINE x == CHOOSE x \in s : TRUE
  <2>2. x \in s BY <2>1
  <2>3. iter[s] = f[x] + iter[s \ {x}] BY <1>4, <2>1
  <2> HIDE DEF x
  <2>4. s \ {x} \in SUBSET S /\ Cardinality(s \ {x}) = k
    <3>1. IsFiniteSet(s) BY <1>5
    <3>2. Cardinality(s \ {x}) = IF x \in s THEN Cardinality(s) - 1 ELSE Cardinality(s) BY <3>1, FS_RemoveElement
    <3> DEFINE c == Cardinality(s)
    <3>3. c = k + 1 /\ Cardinality(s \ {x}) = c - 1 BY <2>2, <3>2
    <3>4. c - 1 = k
      <4> HIDE DEF c
      <4> QED BY <3>3
    <3> QED BY <3>3, <3>4
  <2>5. iter[s \ {x}] = C[s \ {x}] BY <1>7, <2>4
  <2> QED BY <2>2, <2>3, <2>5 DEF Adds
<1>8. \A k \in 0..n : k \in K
  <2> HIDE DEF K, n
  <2> QED BY <1>5, <1>6, <1>7, UpTo
<1>9. iter[S] = C[S] BY <1>5, <1>8
<1> QED BY <1>1, <1>9

(* The largest of some numbers. *)
LEMMA MaxAmong ==
  ASSUME NEW n \in Nat \ {0}, NEW v, \A j \in 1..n : v[j] \in Int
  PROVE  HasMax(ValuesOf(v, n))
<1> DEFINE V == {v[j] : j \in 1..n}
           K == {k \in 0..n : k = 0 \/ \E i \in 1..k : \A j \in 1..k : v[j] <= v[i]}
<1>1. 0 \in K OBVIOUS
<1>2. ASSUME NEW k \in 0..(n - 1), k \in K PROVE k + 1 \in K
  <2>0. k + 1 \in 0..n /\ k + 1 \in 1..n /\ 1..(k + 1) = 1..k \cup {k + 1} OBVIOUS
  <2>1. CASE k = 0
    <3>1. \A j \in 1..(k + 1) : v[j] <= v[k + 1] BY <2>0, <2>1
    <3> QED BY <2>0, <3>1
  <2>2. CASE k # 0
    <3>1. PICK i \in 1..k : \A j \in 1..k : v[j] <= v[i] BY <1>2, <2>2
    <3>2. i \in 1..n /\ v[i] \in Int /\ v[k + 1] \in Int /\ \A j \in 1..k : v[j] \in Int BY <2>0
    <3>3. CASE v[k + 1] <= v[i]
      <4>1. i \in 1..(k + 1) /\ \A j \in 1..(k + 1) : v[j] <= v[i] BY <2>0, <3>1, <3>3
      <4> QED BY <2>0, <4>1
    <3>4. CASE v[i] <= v[k + 1]
      <4>1. \A j \in 1..k : v[j] <= v[k + 1] BY <3>1, <3>2, <3>4
      <4>2. v[k + 1] <= v[k + 1] BY <3>2
      <4>3. \A j \in 1..(k + 1) : v[j] <= v[k + 1] BY <2>0, <4>1, <4>2
      <4> QED BY <2>0, <4>3
    <3> QED BY <3>2, <3>3, <3>4
  <2> QED BY <2>1, <2>2
<1>3. \A k \in 0..n : k \in K
  <2> HIDE DEF K
  <2> QED BY <1>1, <1>2, UpTo
<1>4. PICK i \in 1..n : \A j \in 1..n : v[j] <= v[i] BY <1>3
<1>5. \E x \in V : \A y \in V : x >= y BY <1>4
<1>6. Max(V) \in V /\ \A y \in V : Max(V) >= y BY <1>5, Zenon DEF Max
<1>7. V \subseteq Int OBVIOUS
<1> HIDE DEF V
<1>8. HasMax(V) BY <1>6, <1>7 DEF HasMax
<1> QED BY <1>8 DEF V, ValuesOf

(* As many pairs end in k as there are first elements. *)
LEMMA PairsWith ==
  ASSUME NEW D, IsFiniteSet(D), NEW k
  PROVE  IsFiniteSet(PairsTo(D, k)) /\ Cardinality(PairsTo(D, k)) = Cardinality(D)
<1> DEFINE X == {<<j, k>> : j \in D}
           h == [j \in D |-> <<j, k>>]
<1>1. h \in [D -> X] /\ \A j \in D : h[j] = <<j, k>> OBVIOUS
<1>2. h \in Injection(D, X) BY <1>1 DEF Injection, IsInjective
<1>3. h \in Surjection(D, X) BY <1>1 DEF Surjection
<1>4. ExistsBijection(D, X) BY <1>2, <1>3 DEF ExistsBijection, Bijection
<1> HIDE DEF X
<1>5. IsFiniteSet(X) /\ Cardinality(X) = Cardinality(D) BY <1>4, FS_Bijection
<1> QED BY <1>5 DEF X, PairsTo

(* The depths of the reordering events add up to the inverted pairs: the   *)
(* pairs whose later arrival is an event of s are as many as the depths of *)
(* s add up to, event by event.                                            *)
LEMMA DepthsAddUp ==
  ASSUME NEW m \in Nat, NEW d, d \in Seq(Arrival), Len(d) = m,
         \A i, j \in 1..m : d[i].seq = d[j].seq => i = j
  PROVE  LET S == compute_reordering(d)
         IN  SumFunctionOnSet([e \in S |-> e.depth], S) = Cardinality(InvertedPairs(d, m))
<1> DEFINE event(k) == [seq |-> d[k].seq, depth |-> reorder_depth(d, k)]
           Late == {k \in DOMAIN d : k > 1 /\ d[k].seq < Max({d[j].seq : j \in 1..(k - 1)})}
           S == {event(k) : k \in Late}
           N == (1..m) \X (1..m)
           P(s) == {p \in N : p[1] < p[2] /\ d[p[1]].seq > d[p[2]].seq /\ event(p[2]) \in s}
           C == [s \in SUBSET S |-> Cardinality(P(s))]
           f == [e \in S |-> e.depth]
<1>1. compute_reordering(d) = S BY Zenon DEF compute_reordering
<1>2. DOMAIN d = 1..m /\ \A i \in 1..m : d[i].seq \in Int
  <2>1. \A i \in 1..m : d[i] \in Arrival OBVIOUS
  <2> QED BY <2>1 DEF Arrival
<1>3. \A k : event(k).seq = d[k].seq /\ event(k).depth = reorder_depth(d, k) OBVIOUS
<1>4. Late \subseteq 1..m BY <1>2
<1>5. IsFiniteSet(S)
  <2> DEFINE g == [k \in Late |-> event(k)]
  <2>1. g \in Surjection(Late, S) BY DEF Surjection
  <2>2. IsFiniteSet(Late)
    <3> HIDE DEF Late
    <3> QED BY <1>4, WithinIsFinite
  <2> HIDE DEF g, Late, S
  <2> QED BY <2>1, <2>2, FS_Surjection
<1>6. ASSUME NEW s PROVE IsFiniteSet(P(s)) /\ Cardinality(P(s)) \in Nat
  <2>1. IsFiniteSet(1..m) BY WithinIsFinite
  <2>2. IsFiniteSet(N) BY <2>1, FS_Product
  <2>3. P(s) \in SUBSET N OBVIOUS
  <2> HIDE DEF N, P
  <2> QED BY <2>2, <2>3, FS_Subset, FS_CardinalityType
<1>7. P(S) = InvertedPairs(d, m)
  <2> SUFFICES ASSUME NEW p \in N, p[1] < p[2], d[p[1]].seq > d[p[2]].seq
               PROVE  event(p[2]) \in S
    BY DEF InvertedPairs
  <2> DEFINE i == p[1]
             k == p[2]
             V == {d[j].seq : j \in 1..(k - 1)}
             v == [j \in 1..(k - 1) |-> d[j].seq]
  <2>1. i \in 1..m /\ k \in 1..m /\ i \in 1..(k - 1) /\ k - 1 \in Nat \ {0} /\ k > 1 OBVIOUS
  <2> HIDE DEF i, k
  <2>2. \A j \in 1..(k - 1) : j \in 1..m /\ d[j].seq \in Int BY <1>2, <2>1
  <2>3. V = {v[j] : j \in 1..(k - 1)} /\ d[i].seq \in V /\ \A j \in 1..(k - 1) : v[j] \in Int BY <2>1, <2>2
  <2> HIDE DEF v, V
  <2>4. Max(V) \in V /\ \A y \in V : y <= Max(V)
    <3> DEFINE n == k - 1
    <3>1. n \in Nat \ {0} BY <2>1
    <3>2. V = {v[j] : j \in 1..n} BY <2>3
    <3>3. \A j \in 1..n : v[j] \in Int BY <2>3
    <3> HIDE DEF n
    <3>4. HasMax(ValuesOf(v, n)) BY <3>1, <3>3, MaxAmong
    <3>5. HasMax(V) BY <3>2, <3>4, Zenon DEF ValuesOf
    <3> QED BY <3>5 DEF HasMax
  <2>5. V \subseteq Int BY <2>3
  <2>6. d[k].seq < Max(V)
    <3>1. d[k].seq \in Int /\ d[i].seq \in Int /\ Max(V) \in Int /\ d[i].seq <= Max(V) BY <1>2, <2>1, <2>3, <2>4, <2>5
    <3>2. d[k].seq < d[i].seq BY <3>1 DEF i, k
    <3> QED BY <3>1, <3>2
  <2>7. k \in Late BY <1>2, <2>1, <2>6 DEF V
  <2> HIDE DEF Late, event
  <2> QED BY <2>7 DEF k
<1>8. ASSUME NEW s \in SUBSET S, NEW x \in s
      PROVE  Cardinality(P(s)) = x.depth + Cardinality(P(s \ {x}))
  <2>1. PICK k \in Late : x = event(k) OBVIOUS
  <2> DEFINE D == {j \in 1..(k - 1) : d[j].seq > d[k].seq}
             X == {<<j, k>> : j \in D}
             R == P(s \ {x})
  <2>2. x.depth = Cardinality(D)
    <3>1. reorder_depth(d, k) = Cardinality(D) BY Zenon DEF reorder_depth
    <3> QED BY <1>3, <2>1, <3>1
  <2>3. k \in 1..m /\ D \subseteq 1..m BY <1>4
  <2>4. \A i \in 1..m : event(i) = x <=> i = k
    <3> HIDE DEF event, Late
    <3> QED BY <1>3, <2>1, <2>3
  <2>5. ASSUME NEW p PROVE p \in P(s) <=> p \in R \/ p \in X
    <3>1. ASSUME p \in N, p[1] < p[2], d[p[1]].seq > d[p[2]].seq
          PROVE  p \in X <=> p[2] = k
      <4>1. p = <<p[1], p[2]>> /\ p[1] \in 1..m /\ p[2] \in 1..m BY <3>1
      <4>2. ASSUME p[2] = k PROVE p \in X
        <5>1. p[1] \in D BY <3>1, <4>1, <4>2
        <5> HIDE DEF D
        <5> QED BY <4>1, <4>2, <5>1
      <4>3. ASSUME p \in X PROVE p[2] = k BY <4>3
      <4> QED BY <4>2, <4>3
    <3>2. ASSUME p \in X PROVE p \in N /\ p[1] < p[2] /\ d[p[1]].seq > d[p[2]].seq /\ event(p[2]) \in s
      <4>1. PICK j \in D : p = <<j, k>> BY <3>2
      <4>2. p[1] = j /\ p[2] = k /\ j \in 1..m /\ j < k /\ d[j].seq > d[k].seq BY <2>3, <4>1
      <4>3. p \in N BY <2>3, <4>1, <4>2
      <4> QED BY <2>1, <4>2, <4>3
    <3> HIDE DEF X, N, event
    <3>3. p[2] = k => event(p[2]) = x BY <2>1
    <3>4. p \in N => p[2] \in 1..m BY DEF N
    <3> QED BY <2>4, <3>1, <3>2, <3>3, <3>4
  <2>6. ASSUME NEW p \in R, p \in X PROVE FALSE
    <3>1. p[2] = k /\ event(p[2]) # x BY <2>6
    <3> HIDE DEF event
    <3> QED BY <2>1, <3>1
  <2>7. IsFiniteSet(X) /\ Cardinality(X) = Cardinality(D) /\ Cardinality(D) \in Nat
    <3>1. IsFiniteSet(D) /\ Cardinality(D) \in Nat
      <4> HIDE DEF D
      <4> QED BY <2>3, WithinIsFinite
    <3> HIDE DEF D
    <3>2. IsFiniteSet(PairsTo(D, k)) /\ Cardinality(PairsTo(D, k)) = Cardinality(D) BY <3>1, PairsWith
    <3> QED BY <3>1, <3>2 DEF PairsTo
  <2> DEFINE Ps == P(s)
  <2>8. IsFiniteSet(R) /\ Cardinality(R) \in Nat BY <1>6
  <2>a. x.depth = Cardinality(D) BY <2>2
  <2>b. \A p : p \in Ps <=> p \in R \/ p \in X BY <2>5
  <2>c. \A p \in R : p \notin X BY <2>6
  <2> HIDE DEF Ps, R, X, D
  <2>9. Ps = R \cup X /\ R \cap X = {} BY <2>b, <2>c
  <2>10. Cardinality(Ps) = Cardinality(R) + Cardinality(X) - Cardinality(R \cap X) BY <2>7, <2>8, <2>9, FS_Union
  <2>11. Cardinality(R \cap X) = 0 BY <2>9, FS_EmptySet
  <2>12. Cardinality(Ps) = x.depth + Cardinality(R) BY <2>7, <2>8, <2>10, <2>11, <2>a
  <2> QED BY <2>12 DEF Ps, R
<1>9. Cardinality(P({})) = 0
  <2>1. P({}) = {} OBVIOUS
  <2> QED BY <2>1, FS_EmptySet
<1>10. Adds(C, f, S)
  <2>1. C \in [SUBSET S -> Int]
    <3> HIDE DEF P, S
    <3> QED BY <1>6
  <2>2. C[{}] = 0
    <3> HIDE DEF P, S
    <3> QED BY <1>9
  <2>3. ASSUME NEW s \in SUBSET S, NEW x \in s PROVE C[s] = f[x] + C[s \ {x}]
    <3> HIDE DEF P, S
    <3> QED BY <1>8
  <2> HIDE DEF C, f, S
  <2> QED BY <2>1, <2>2, <2>3 DEF Adds
<1>11. SumFunctionOnSet(f, S) = C[S]
  <2> HIDE DEF C, f, S
  <2> QED BY <1>5, <1>10, SumIs
<1>12. C[S] = Cardinality(P(S))
  <2> HIDE DEF P, S
  <2> QED  OBVIOUS
<1> HIDE DEF P, C
<1> QED BY <1>1, <1>7, <1>11, <1>12, Zenon

(* The distinct arrivals are the first echoes of their packets. *)
LEMMA FirstArrivalsAreFirstEchoes ==
  ASSUME NEW e \in Seq(Int), NEW arr \in Seq(Arrival), NEW f, PassOf(f, arr, e),
         NEW d, FirstOf(d, arr, Len(arr))
  PROVE  \E g : EchoOf(g, d, e)
<1> DEFINE n == Len(e)
           a == Len(arr)
           m == Len(d)
<1>1. /\ n \in Nat /\ a \in Nat /\ m \in Nat /\ DOMAIN e = 1..n
      /\ \A i \in 1..n : e[i] \in Int
  BY DEF FirstOf
<1>2. PICK h : FirstAt(h, d, arr, a) BY DEF FirstOf
<1>3. /\ f \in [1..a -> 1..n]
      /\ \A k, l \in 1..a : k < l <=> f[k] < f[l]
      /\ \A k \in 1..a : arr[k].seq = e[f[k]]
      /\ \A i \in 1..n : Known(e[i]) <=> \E k \in 1..a : f[k] = i
  BY DEF PassOf
<1>4. /\ h \in [1..m -> 1..a]
      /\ \A i, j \in 1..m : i < j <=> h[i] < h[j]
      /\ \A i \in 1..m : arr[h[i]] = d[i]
      /\ \A i \in 1..m : \A j \in 1..a : arr[j].seq = d[i].seq => h[i] <= j
  BY <1>2 DEF FirstAt
<1>5. \A j \in 1..a : \E i \in 1..m : d[i].seq = arr[j].seq BY DEF FirstOf
<1> HIDE DEF n, a, m
<1>6. \A k \in 1..a, l \in 1..a : k <= l <=> f[k] <= f[l]
  <2> SUFFICES ASSUME NEW k \in 1..a, NEW l \in 1..a PROVE k <= l <=> f[k] <= f[l] OBVIOUS
  <2>1. f[k] \in 1..n /\ f[l] \in 1..n BY <1>3
  <2>2. l < k <=> f[l] < f[k] BY <1>3
  <2> QED BY <1>1, <2>1, <2>2
<1> DEFINE g == [k \in 1..m |-> f[h[k]]]
<1>7. ASSUME NEW k \in 1..m
      PROVE  /\ h[k] \in 1..a /\ g[k] = f[h[k]] /\ g[k] \in 1..n /\ e[g[k]] = d[k].seq
             /\ g[k] \in FirstEchoes(e)
  <2>1. h[k] \in 1..a /\ g[k] = f[h[k]] /\ g[k] \in 1..n BY <1>3, <1>4
  <2>2. e[g[k]] = d[k].seq BY <1>3, <1>4, <2>1
  <2>3. Known(e[g[k]]) BY <1>3, <2>1
  <2>4. ASSUME NEW j \in 1..(g[k] - 1), e[j] = e[g[k]] PROVE FALSE
    <3>1. j \in 1..n /\ j < g[k] BY <1>1, <2>1
    <3>2. Known(e[j]) BY <2>3, <2>4
    <3>3. PICK l \in 1..a : f[l] = j BY <1>3, <3>1, <3>2
    <3>4. arr[l].seq = d[k].seq BY <1>3, <2>2, <2>4, <3>3
    <3>5. h[k] <= l BY <1>4, <3>4
    <3>6. f[h[k]] <= f[l] BY <1>6, <2>1, <3>5
    <3> QED BY <1>1, <2>1, <3>1, <3>3, <3>6
  <2> HIDE DEF g
  <2> QED BY <1>1, <2>1, <2>2, <2>3, <2>4 DEF FirstEchoes
<1>8. ASSUME NEW k \in 1..m, NEW l \in 1..m PROVE k < l <=> g[k] < g[l] BY <1>3, <1>4, <1>7
<1>9. ASSUME NEW i \in FirstEchoes(e) PROVE \E k \in 1..m : g[k] = i
  <2>1. i \in 1..n /\ Known(e[i]) /\ \A j \in 1..(i - 1) : e[j] # e[i] BY <1>1 DEF FirstEchoes
  <2>2. PICK l \in 1..a : f[l] = i BY <1>3, <2>1
  <2>3. PICK k \in 1..m : d[k].seq = arr[l].seq BY <1>5
  <2>4. h[k] <= l /\ arr[l].seq = e[i] BY <1>3, <1>4, <2>2, <2>3
  <2>5. g[k] <= i /\ g[k] \in 1..n /\ e[g[k]] = e[i] BY <1>6, <1>7, <2>2, <2>3, <2>4
  <2>6. ~(g[k] < i)
    <3> SUFFICES ASSUME g[k] < i PROVE FALSE OBVIOUS
    <3>1. g[k] \in 1..(i - 1) BY <1>1, <2>1, <2>5
    <3> QED BY <2>1, <2>5, <3>1
  <2>7. g[k] = i BY <1>1, <2>1, <2>5, <2>6
  <2> QED BY <2>7
<1>10. g \in [1..m -> FirstEchoes(e)] BY <1>7
<1> HIDE DEF g
<1>11. EchoOf(g, d, e) BY <1>7, <1>8, <1>9, <1>10 DEF EchoOf, m
<1> QED BY <1>11

(* As many pairs of first arrivals are inverted as pairs of first echoes. *)
LEMMA InvertedAlike ==
  ASSUME NEW e \in Seq(Int), NEW d, d \in Seq(Arrival), NEW g, EchoOf(g, d, e)
  PROVE  Cardinality(InvertedPairs(d, Len(d))) = Cardinality(InvertedEchoes(e))
<1> DEFINE m == Len(d)
           F == FirstEchoes(e)
           A == InvertedPairs(d, m)
           B == InvertedEchoes(e)
           phi == [p \in A |-> <<g[p[1]], g[p[2]]>>]
<1>1. /\ m \in Nat /\ F \subseteq Nat BY DEF FirstEchoes
<1>2. /\ g \in [1..m -> F]
      /\ \A k, l \in 1..m : k < l <=> g[k] < g[l]
      /\ \A k \in 1..m : e[g[k]] = d[k].seq
      /\ \A i \in F : \E k \in 1..m : g[k] = i
  BY DEF EchoOf
<1> HIDE DEF m, F
<1>3. \A k \in 1..m, l \in 1..m : g[k] = g[l] => k = l
  <2> SUFFICES ASSUME NEW k \in 1..m, NEW l \in 1..m, g[k] = g[l] PROVE k = l OBVIOUS
  <2>0. g[k] \in F BY <1>2
  <2>1. ~(g[k] < g[l]) /\ ~(g[l] < g[k])
    <3>1. PICK x : x = g[k] OBVIOUS
    <3>2. x \in Nat BY <1>1, <2>0, <3>1, Zenon
    <3>3. ~(x < x) BY <3>2
    <3> QED BY <3>1, <3>3, Zenon
  <2>2. (k < l <=> g[k] < g[l]) /\ (l < k <=> g[l] < g[k]) BY <1>2, Zenon
  <2> QED BY <1>1, <2>1, <2>2
<1>4. A = {p \in (1..m) \X (1..m) : p[1] < p[2] /\ d[p[1]].seq > d[p[2]].seq} BY DEF InvertedPairs
<1>5. B = {p \in F \X F : p[1] < p[2] /\ e[p[1]] > e[p[2]]} BY DEF InvertedEchoes, F
<1> HIDE DEF A, B
<1>6. \A p \in A : /\ p[1] \in 1..m /\ p[2] \in 1..m /\ p = <<p[1], p[2]>>
                   /\ p[1] < p[2] /\ d[p[1]].seq > d[p[2]].seq
  BY <1>4
<1>7. \A k \in 1..m, l \in 1..m : <<k, l>> \in A <=> <<g[k], g[l]>> \in B
  <2> SUFFICES ASSUME NEW k \in 1..m, NEW l \in 1..m
               PROVE  <<k, l>> \in A <=> <<g[k], g[l]>> \in B
    OBVIOUS
  <2>1. g[k] \in F /\ g[l] \in F /\ (k < l <=> g[k] < g[l]) /\ e[g[k]] = d[k].seq /\ e[g[l]] = d[l].seq BY <1>2
  <2>2. <<k, l>> \in A <=> k < l /\ d[k].seq > d[l].seq BY <1>4
  <2>3. <<g[k], g[l]>> \in B <=> g[k] < g[l] /\ e[g[k]] > e[g[l]] BY <1>5, <2>1
  <2> QED BY <2>1, <2>2, <2>3
<1>8. \A p \in A : phi[p] = <<g[p[1]], g[p[2]]>> /\ phi[p] \in B BY <1>6, <1>7
<1>9. phi \in [A -> B] BY <1>8
<1>10. ASSUME NEW p \in A, NEW q \in A, phi[p] = phi[q] PROVE p = q
  <2>1. g[p[1]] = g[q[1]] /\ g[p[2]] = g[q[2]] BY <1>8, <1>10
  <2>2. p[1] = q[1] /\ p[2] = q[2] BY <1>3, <1>6, <2>1
  <2> QED BY <1>6, <2>2
<1>11. ASSUME NEW q \in B PROVE \E p \in A : phi[p] = q
  <2>1. q[1] \in F /\ q[2] \in F /\ q = <<q[1], q[2]>> BY <1>5
  <2>2. PICK k \in 1..m : g[k] = q[1] BY <1>2, <2>1
  <2>3. PICK l \in 1..m : g[l] = q[2] BY <1>2, <2>1
  <2>4. <<k, l>> \in A BY <1>7, <2>1, <2>2, <2>3
  <2>5. phi[<<k, l>>] = <<g[k], g[l]>> BY <2>4
  <2> QED BY <2>1, <2>2, <2>3, <2>4, <2>5
<1> HIDE DEF phi
<1>12. phi \in Injection(A, B) BY <1>9, <1>10 DEF Injection, IsInjective
<1>13. phi \in Surjection(A, B) BY <1>9, <1>11 DEF Surjection
<1>14. ExistsBijection(A, B) BY <1>12, <1>13 DEF ExistsBijection, Bijection
<1>15. IsFiniteSet(A)
  <2>1. IsFiniteSet(1..m) BY <1>1, WithinIsFinite
  <2>2. IsFiniteSet((1..m) \X (1..m)) BY <2>1, FS_Product
  <2>3. A \in SUBSET ((1..m) \X (1..m)) BY <1>4
  <2> QED BY <2>2, <2>3, FS_Subset
<1>16. Cardinality(A) = Cardinality(B) BY <1>14, <1>15, FS_Bijection
<1> QED BY <1>16 DEF A, B, m

(* The depths of one pass of the probe loop. *)
LEMMA PassDepths ==
  ASSUME NEW e \in Seq(Int), NEW interval \in Int, NEW rtt \in Int,
         NEW p, p = run_one_pass(e, interval, rtt)
  PROVE  LET S == analyze_burst(p.sent, p.arrivals).reordering
         IN  SumFunctionOnSet([x \in S |-> x.depth], S) = Cardinality(InvertedEchoes(e))
<1> DEFINE arr == p.arrivals
           d == split_duplicates(arr).distinct
           m == Len(d)
           r == analyze_burst(p.sent, arr)
           S == compute_reordering(d)
<1>1. arr \in Seq(Arrival) /\ \E f : PassOf(f, arr, e) BY PassArrivals
<1>2. FirstOf(d, arr, Len(arr)) BY <1>1, SplitIs
<1>3. r.reordering = S BY DEF analyze_burst, burst_report
<1> HIDE DEF d, r, arr
<1>4. d \in Seq(Arrival) /\ m \in Nat /\ \A i, j \in 1..m : d[i].seq = d[j].seq => i = j
  <2>1. d \in Seq(Arrival) /\ \A i, j \in 1..Len(d) : d[i].seq = d[j].seq => i = j BY <1>2, Zenon DEF FirstOf
  <2>2. Len(d) \in Nat BY <2>1
  <2> QED BY <2>1, <2>2, Zenon
<1>5. PICK f : PassOf(f, arr, e) BY <1>1
<1>6. PICK g : EchoOf(g, d, e) BY <1>1, <1>2, <1>5, FirstArrivalsAreFirstEchoes
<1>7. Cardinality(InvertedPairs(d, m)) = Cardinality(InvertedEchoes(e)) BY <1>4, <1>6, InvertedAlike
<1> HIDE DEF m
<1>8. SumFunctionOnSet([x \in S |-> x.depth], S) = Cardinality(InvertedPairs(d, m))
  <2>1. Len(d) = m BY DEF m
  <2> QED BY <1>4, <2>1, DepthsAddUp, Zenon
<1> QED BY <1>3, <1>7, <1>8, Zenon DEF r, arr

(* The report of one pass: its bursts and its depths together. *)
LEMMA OnePass ==
  ASSUME NEW e \in Seq(Int), NEW interval \in Int, NEW rtt \in Int,
         NEW p, p = run_one_pass(e, interval, rtt),
         NEW t, t = analyze_burst(p.sent, p.arrivals)
  PROVE  PassReport(t, e)
<1>1. t.sent = Len(e) /\ Runs(t.bursts, 0..(Len(e) - 1) \ Range(e), Len(e) + 1) BY PassBursts
<1>2. DepthSum(t.reordering) = Cardinality(InvertedEchoes(e)) BY PassDepths, Zenon DEF DepthSum
<1> QED BY <1>1, <1>2, Zenon DEF PassReport

(* The reference's two conjuncts in the terms of the lemmas above. *)
LEMMA ReferenceOfBursts ==
  ASSUME NEW rep
  PROVE  BurstsAreMaximalRuns(rep) <=>
           /\ BurstSet(rep.bursts) = MaximalRuns(0..(rep.sent - 1) \ Range(evidence), rep.sent)
           /\ DepthSum(rep.reordering) = Cardinality(InvertedEchoes(evidence))
BY Zenon DEF BurstsAreMaximalRuns, BurstSet, MaximalRuns, DepthSum, InvertedEchoes, FirstEchoes

(* The bursts are the maximal runs, the depths the inverted pairs. *)
LEMMA BurstsAndDepths ==
  ASSUME MachineInv, outcome.exit = 0, command = "burst-analysis",
         outcome = dispatch("burst-analysis", evidence, ready)
  PROVE  BurstsAreMaximalRuns(report.normal)
<1> DEFINE c == "burst-analysis"
           e == evidence
           n == Len(e)
           a == [live_event |-> ready, maintenance |-> FALSE, interval |-> 20,
                 normal |-> [ok |-> TRUE, echoes |-> e], ramp |-> TRUE,
                 ramped |-> [ok |-> e[1] = 0, echoes |-> e]]
           p == run_one_pass(e, 20, 4)
           r == analyze_burst(p.sent, p.arrivals)
           x == IF a.ramp /\ a.ramped.ok THEN {r} ELSE {}
           Q == 0..(n - 1) \ Range(e)
<1>1. e \in Seq(Int)
  <2>1. Shapes(command) = [i \in DOMAIN Measurements[command] |-> Int] BY Zenon DEF Shapes
  <2>2. PICK S : S = Int OBVIOUS
  <2>3. Shapes(command) = [i \in DOMAIN Measurements[command] |-> S] BY <2>1, <2>2, Zenon
  <2>4. command \in ShapedCommands BY DEF ShapedCommands
  <2>5. n \in Nat \ {0} /\ DOMAIN e = 1..n /\ \A i \in 1..n : e[i] \in S BY <2>3, <2>4, UniformShaped, Zenon
  <2>6. e \in Seq(Values) BY DEF MachineInv, Gathered
  <2>7. e = [i \in 1..n |-> e[i]] /\ \A i \in 1..n : e[i] \in Int BY <2>2, <2>5, <2>6
  <2> QED BY <2>5, <2>7
<1>2. outcome = burst_analysis_run(a)
  <2>1. dispatch(c, e, ready) = stream_report(c, e, ready) BY Route DEF StreamCommands
  <2>2. stream_report(c, e, ready) = burst_analysis_run(a) BY Zenon DEF stream_report
  <2> QED BY <2>1, <2>2
<1>3. burst_analysis_run(a) \in {Refusal(2), Refusal(1), Completed([normal |-> r, ramped |-> x])}
  BY DEF burst_analysis_run
<1>4. /\ r.sent = n /\ Runs(r.bursts, Q, n + 1)
      /\ DepthSum(r.reordering) = Cardinality(InvertedEchoes(e))
  <2>1. 20 \in Int /\ 4 \in Int OBVIOUS
  <2>2. PICK z : z = p OBVIOUS
  <2> DEFINE t == analyze_burst(z.sent, z.arrivals)
  <2>3. z = run_one_pass(e, 20, 4) BY <2>2
  <2> HIDE DEF p, e
  <2>4. \A u : u = t => PassReport(u, e) BY <1>1, <2>1, <2>3, OnePass, Zenon
  <2>5. PassReport(t, e) BY <2>4
  <2>6. t = r BY <2>2
  <2> HIDE DEF t, r
  <2> QED BY <2>5, <2>6, Zenon DEF PassReport, e
<1> HIDE DEF r, a, x
<1>5. report.normal = r
  <2>1. outcome = Completed([normal |-> r, ramped |-> x]) BY <1>2, <1>3 DEF Refusal
  <2> QED BY <2>1, ReportOf DEF report
<1>6. n \in Nat /\ Q \subseteq 0..(n - 1) BY <1>1
<1> HIDE DEF n, Q
<1>7. BurstSet(r.bursts) = MaximalRuns(Q, n) BY <1>4, <1>6, RunsAreMaximal
<1>8. BurstSet(r.bursts) = MaximalRuns(0..(r.sent - 1) \ Range(e), r.sent) BY <1>4, <1>7, Zenon DEF Q
<1>9. BurstsAreMaximalRuns(r) BY <1>4, <1>8, ReferenceOfBursts, Zenon
<1> QED BY <1>5, <1>9

-----------------------------------------------------------------------------
(* AgreesWithReference: corroborate, and all nine together. *)

(* corroborate takes its two claims in either order. *)
LEMMA ClaimsCommute ==
  ASSUME NEW a, a.value \in Int, NEW b, b.value \in Int, NEW t \in Int
  PROVE  corroborate(a, b, t) = corroborate(b, a, t)
<1>1. /\ Distance(a.value, b.value) = Distance(b.value, a.value)
      /\ Larger(a.value, b.value) = Larger(b.value, a.value)
      /\ Smaller(a.value, b.value) = Smaller(b.value, a.value)
  BY DEF Distance, Larger, Smaller
<1>2. CASE Finite(a.value) /\ Finite(b.value) BY <1>1, <1>2, Zenon DEF corroborate
<1>3. CASE Finite(a.value) /\ ~Finite(b.value) BY <1>3, Zenon DEF corroborate
<1>4. CASE ~Finite(a.value) /\ Finite(b.value) BY <1>4, Zenon DEF corroborate
<1>5. CASE ~Finite(a.value) /\ ~Finite(b.value) BY <1>5, Zenon DEF corroborate
<1> QED BY <1>2, <1>3, <1>4, <1>5

(* The corroboration of two gathered claims is that of the claims swapped. *)
LEMMA CorroborationIsSymmetric ==
  ASSUME MachineInv, outcome.exit = 0, command = "corroborate"
  PROVE  report = corroborate(evidence[2], evidence[1], evidence[3])
<1> DEFINE c == "corroborate"
           e == evidence
           Claim == [value : Int, provenance : STRING]
<1>1. outcome = dispatch(c, e, ready) /\ Shaped(c, e) BY VerdictOnShapedEvidence DEF ShapedCommands
<1>2. e[1] \in Claim /\ e[2] \in Claim /\ e[3] \in Int
  <2>1. Shapes(c) = <<Claim, Claim, Int>> BY Zenon DEF Shapes
  <2> HIDE DEF Claim
  <2>2. Len(Shapes(c)) = 3 BY <2>1
  <2>3. DOMAIN e = 1..3 /\ \A i \in 1..3 : e[i] \in Shapes(c)[i] BY <1>1, <2>2, ShapedAt
  <2>4. e[1] \in Shapes(c)[1] /\ e[2] \in Shapes(c)[2] /\ e[3] \in Shapes(c)[3] BY <2>3
  <2> QED BY <2>1, <2>4
<1>3. dispatch(c, e, ready) = evidence_report(c, e, ready) BY Routes DEF EvidenceCommands
<1>4. evidence_report(c, e, ready) = Completed(corroborate(e[1], e[2], e[3])) BY Zenon DEF evidence_report
<1>5. report = corroborate(e[1], e[2], e[3]) BY <1>1, <1>3, <1>4, ReportOf DEF report
<1>6. e[1].value \in Int /\ e[2].value \in Int BY <1>2
<1> QED BY <1>2, <1>5, <1>6, ClaimsCommute

(* Each of the nine algorithms returns what its reference definition says, *)
(* on whatever the command gathered.                                       *)
THEOREM ReferencesAgree == Spec => []AgreesWithReference
<1>1. MachineInv => AgreesWithReference
  <2> SUFFICES ASSUME MachineInv PROVE AgreesWithReference OBVIOUS
  <2>1. ASSUME NEW c, Reports(c)
        PROVE  /\ command = c /\ outcome.exit = 0 /\ outcome = dispatch(c, evidence, ready)
               /\ report = dispatch(c, evidence, ready).report
               /\ dispatch(c, evidence, ready).exit = 0
    BY <2>1, VerdictOnShapedEvidence DEF Reports, report
  <2>2. Reports("burst-analysis") => BurstsAreMaximalRuns(report.normal) BY <2>1, BurstsAndDepths
  <2>3. Reports("media-quality") => FreezeRiskCoversTheGap
    <3> SUFFICES ASSUME Reports("media-quality") PROVE FreezeRiskCoversTheGap OBVIOUS
    <3> DEFINE c == "media-quality"
    <3>1. /\ dispatch(c, evidence, ready).exit = 0 /\ report = dispatch(c, evidence, ready).report
          /\ command = c /\ outcome.exit = 0
      BY <2>1
    <3>2. /\ evidence \in Seq(Values) /\ Len(evidence) >= 3
          /\ \A i \in 4..Len(evidence) : evidence[i] \in Int
      BY <3>1, EchoesAreNumbers
    <3>3. report.freeze = "Low" => CoversGap(report.burst.bursts, evidence[1]) BY <3>1, <3>2, FreezeCoversTheGap
    <3> QED BY <3>3, Zenon DEF CoversGap, FreezeRiskCoversTheGap
  <2>4. Reports("packet-loss") /\ ready => LossPatternIsTheLongestRun
    <3> SUFFICES ASSUME Reports("packet-loss"), ready PROVE LossPatternIsTheLongestRun OBVIOUS
    <3>1. ready = TRUE BY DEF MachineInv
    <3> QED BY <2>1, <3>1, PatternIsTheLongestRun
  <2>5. Reports("mtu") => SearchFindsThePathMtu BY <2>1, SearchEndsAtThePathMtu
  <2>6. Reports("capacity-knee") => KneeIgnoresExecutionOrder BY <2>1, KneeIsOfTheRates
  <2>7. Reports("thresholds") => ThresholdsDoNotFlap BY <2>1, HysteresisHolds
  <2>8. Reports("resilience") => LostSessionsStayedDead BY <2>1, LostSessionsAreCounted
  <2>9. Reports("circuit-compare") => DigestIgnoresIngestOrder BY <2>1, DigestIsOfThePhases
  <2>10. Reports("corroborate") => report = corroborate(evidence[2], evidence[1], evidence[3])
    BY <2>1, CorroborationIsSymmetric
  <2> QED BY <2>2, <2>3, <2>4, <2>5, <2>6, <2>7, <2>8, <2>9, <2>10, Zenon DEF AgreesWithReference
<1> QED BY <1>1, MachineInvariant, PTL

=============================================================================

-------------------------- MODULE LoadGuard_proofs --------------------------
(***************************************************************************)
(* Proofs about LoadGuard and about the NAT session-rate probe that drives *)
(* it, for every set of budgets, radio snapshots, counter readings and     *)
(* ticks, and every number of radio samples.                               *)
(***************************************************************************)
EXTENDS NatProbe, TLAPS

-----------------------------------------------------------------------------
(* The parts of the inductive invariant, besides TypeOK.                   *)

(* A run that got past LoadGuard::new has a budget that validates.         *)
Validated == pc \notin {"new", "refused"} => validate(budget) = "Ok"

(* The ramp step being driven is one of the schedule's.                    *)
StepInSchedule == pc \in PhasePcs => step \in 1 .. budget.ramp

(* Every snapshot anyone obtained is where the verdict will look for it,   *)
(* or in the hands of the radio thread, which is joined before.            *)
TimelineComplete ==
  /\ pc \in {"new", "refused", "before"} => drawn = {} /\ radioPc = "unborn"
  /\ pc \notin {"new", "refused", "before", "done"} =>
       drawn \subseteq {before.radio} \cup Range(during)
                       \cup (IF radioPc = "push" THEN {held} ELSE {})
  /\ pc \in {"after", "done"} => radioPc = "exited"

(* A report called Valid was judged on the timeline as it stands, names    *)
(* the reason the phase stopped for, and holds a ratio only if Valid.      *)
ReportFollows ==
  /\ report # None => pc = "done"
  /\ pc = "done" =>
       /\ report.stopReason = stopReason
       /\ report.derived # None => report.validity = "Valid"
       /\ drawn \subseteq {before.radio, report.after} \cup Range(during)
       /\ report.validity = "Valid" =>
            /\ before.radio.associated /\ report.after.associated /\ ~synthetic
            /\ ~roamed(before.radio, during, report.after)
            /\ weakest_rf(before.radio, during, report.after) \notin {"Weak", "Unstable"}

(* Whoever cancelled is noticed before the next tick.                      *)
CancelSeen ==
  /\ lateTicks <= 1
  /\ lateTicks = 1 => cancel /\ pc # "tick"

(* A breach was noticed by the tick that reported it.                      *)
BreachSeen ==
  breached => /\ pc \in {"ended", "join", "after", "done"}
              /\ stopReason \in {"AbortEndpointError", "AbortGatewayLatency", "AbortLoss"}

(* The clock at any point of the phase: the steps already driven were      *)
(* filled, and what exceeds the schedule was spent inside ticks.  It takes *)
(* both upper bounds: a tick may overshoot the step, and a sleep may not.  *)
ClockKept ==
  /\ pc \in {"new", "before"} =>
       elapsed = 0 /\ inStep = 0 /\ blocked = 0 /\ stopReason = "Completed"
  /\ pc \in PhasePcs =>
       /\ stopReason = "Completed"
       /\ elapsed >= (step - 1) * stepDuration + inStep
       /\ elapsed <= (step - 1) * stepDuration + inStep + blocked
       /\ elapsed <= step * stepDuration + blocked
  /\ pc \in {"ended", "join", "after", "done"} /\ stopReason = "Completed" =>
       /\ elapsed >= budget.ramp * stepDuration
       /\ elapsed <= budget.ramp * stepDuration + blocked

(* A snapshot that did not come from the radio was declared synthetic, or  *)
(* it is the fallback and on record.                                       *)
SubstitutesSeen ==
  /\ pc \in {"new", "refused", "before"} => ~unmeasured
  /\ unmeasured => synthetic \/ RadioFallback \in drawn

GuardInv == /\ TypeOK /\ Validated /\ StepInSchedule /\ TimelineComplete
            /\ ReportFollows /\ CancelSeen /\ BreachSeen
            /\ ClockKept /\ SubstitutesSeen

-----------------------------------------------------------------------------
(* Facts about the operators.                                              *)

LEMMA ValidatedBudget ==
  ASSUME NEW b \in Budgets, validate(b) = "Ok"
  PROVE  /\ b.ramp \in Nat \ {0}
         /\ b.rate \in Int /\ b.rate <= caps(b.mode).rate
         /\ b.duration \in Nat /\ b.duration <= caps(b.mode).duration
         /\ b.concurrency \in Nat /\ b.concurrency <= caps(b.mode).concurrency
         /\ caps(b.mode).rate \in Nat
<1>1. /\ b.mode \in RunModes /\ b.rate \in Int /\ b.duration \in Nat
      /\ b.concurrency \in Nat /\ b.ramp \in Nat
  BY BudgetAssumption
<1>2. /\ caps(b.mode).rate \in Nat /\ caps(b.mode).duration \in Nat
      /\ caps(b.mode).concurrency \in Nat
  BY <1>1 DEF caps, Modes, RunModes
<1> QED  BY <1>1, <1>2 DEF validate

(* A step of the ramp lasts some number of clock units.                    *)
LEMMA StepDurationNat ==
  ASSUME budget \in Budgets, validate(budget) = "Ok"
  PROVE  stepDuration \in Nat
<1>1. budget.ramp \in Nat \ {0} /\ budget.duration \in Nat
  BY ValidatedBudget
<1>2. phase_seconds(budget) \in Nat
  BY <1>1 DEF phase_seconds
<1>3. UnitsPerSecond * phase_seconds(budget) \in Nat
  BY <1>2, ClockAssumption
<1> QED  BY <1>1, <1>3 DEF stepDuration

LEMMA RampLength ==
  ASSUME NEW b, b.ramp \in Nat, b.rate \in Int
  PROVE  Len(ramp_schedule(b)) = b.ramp /\ DOMAIN ramp_schedule(b) = 1 .. b.ramp
<1>1. ramp_schedule(b) \in Seq(Int)
  BY DEF ramp_schedule
<1> QED  BY <1>1 DEF ramp_schedule

LEMMA SnapshotFast ==
  ASSUME NEW s \in RadioSnapshot
  PROVE  snapshot_fast(s) \in RadioSnapshot
BY DEF snapshot_fast, RadioSnapshot

LEMMA ClassifyRange == \A s : classify_rf(s) \in {"Unknown", "Weak", "Unstable", "Strong"}
BY DEF classify_rf

(* weakest_rf is at least as weak as every snapshot of the timeline.       *)
LEMMA WeakestIsWeakest ==
  ASSUME NEW b, NEW d, NEW a, NEW s \in Range(d) \cup {a, b},
         weakest_rf(b, d, a) \notin {"Weak", "Unstable"}
  PROVE  classify_rf(s) \notin {"Weak", "Unstable"}
<1> DEFINE rf == {classify_rf(x) : x \in Range(d) \cup {a, b}}
<1> DEFINE top(q) == \A r \in rf : RfKey[r] <= RfKey[q]
<1>1. rf \subseteq {"Unknown", "Weak", "Unstable", "Strong"} /\ classify_rf(s) \in rf
  BY ClassifyRange
<1>2. \A r \in rf : RfKey[r] = (IF r = "Strong" THEN 0 ELSE IF r = "Unknown" THEN 1
                               ELSE IF r = "Unstable" THEN 2 ELSE 3)
  BY <1>1 DEF RfKey
<1>3. weakest_rf(b, d, a) = CHOOSE q \in rf : top(q)
  BY DEF weakest_rf
<1> HIDE DEF rf
<1>4. ASSUME "Weak" \in rf PROVE FALSE
  <2>1. top("Weak")
    BY <1>1, <1>2, <1>4
  <2>2. (CHOOSE q \in rf : top(q)) \in rf /\ top(CHOOSE q \in rf : top(q))
    <3> HIDE DEF top
    <3> QED  BY <1>4, <2>1
  <2>3. weakest_rf(b, d, a) \in rf /\ RfKey[weakest_rf(b, d, a)] >= 3
    BY <1>2, <1>3, <1>4, <2>2
  <2>4. PICK q \in rf : q = weakest_rf(b, d, a)
    BY <2>3
  <2>5. q \in {"Unknown", "Strong"}
    BY <1>1, <2>4
  <2>6. RfKey[q] <= 1
    BY <2>5 DEF RfKey
  <2>7. RfKey[q] \in Int /\ RfKey[q] >= 2
    BY <1>2, <2>3, <2>4, <2>5 DEF RfKey
  <2> QED  BY <2>6, <2>7
<1>5. ASSUME "Unstable" \in rf PROVE FALSE
  <2>1. top("Unstable")
    BY <1>1, <1>2, <1>4, <1>5
  <2>2. (CHOOSE q \in rf : top(q)) \in rf /\ top(CHOOSE q \in rf : top(q))
    <3> HIDE DEF top
    <3> QED  BY <1>5, <2>1
  <2>3. weakest_rf(b, d, a) \in rf /\ RfKey[weakest_rf(b, d, a)] >= 2
    BY <1>2, <1>3, <1>5, <2>2
  <2>4. PICK q \in rf : q = weakest_rf(b, d, a)
    BY <2>3
  <2>5. q \in {"Unknown", "Strong"}
    BY <1>1, <2>4
  <2>6. RfKey[q] <= 1
    BY <2>5 DEF RfKey
  <2>7. RfKey[q] \in Int /\ RfKey[q] >= 2
    BY <1>2, <2>3, <2>4, <2>5 DEF RfKey
  <2> QED  BY <2>6, <2>7
<1> QED  BY <1>1, <1>4, <1>5

(* What the cascade has ruled out when it answers Valid.                   *)
LEMMA ValidMeans ==
  ASSUME NEW b, NEW d, NEW a, NEW u, validity(b, d, a, u) = "Valid"
  PROVE  /\ b.associated /\ a.associated /\ ~synthetic
         /\ ~roamed(b, d, a)
         /\ weakest_rf(b, d, a) \notin {"Weak", "Unstable"}
BY DEF validity

-----------------------------------------------------------------------------
(* Initially.                                                              *)
LEMMA InitGuardInv == Init => GuardInv
<1> SUFFICES ASSUME Init PROVE GuardInv
  OBVIOUS
<1>1. TypeOK
  <2>1. synthetic \in BOOLEAN
    BY RadioAssumption DEF Init
  <2>2. during \in Seq(RadioSnapshot) /\ drawn \subseteq RadioSnapshot
    BY DEF Init
  <2> QED  BY <2>1, <2>2 DEF Init, TypeOK, PhasePcs
<1>2. Validated /\ StepInSchedule /\ TimelineComplete /\ ReportFollows
      /\ CancelSeen /\ BreachSeen /\ ClockKept /\ SubstitutesSeen
  BY DEF Init, Validated, StepInSchedule, TimelineComplete, ReportFollows,
         CancelSeen, BreachSeen, ClockKept, SubstitutesSeen, PhasePcs
<1> QED  BY <1>1, <1>2 DEF GuardInv

-----------------------------------------------------------------------------
(* Types.                                                                  *)
LEMMA TypeStep ==
  ASSUME GuardInv, [Next]_vars
  PROVE  TypeOK'
<1> USE DEF GuardInv
<1>1. CASE New
  BY <1>1 DEF New, TypeOK, PhasePcs, sampler, ghosts
<1>2. CASE Begin
  <2>1. PICK s \in Radios \cup {RadioFallback}, c \in CounterSamples, ok \in BOOLEAN :
               /\ SampleRadio(s, ok)
               /\ before' = [radio |-> s, counters |-> c]
               /\ drawn' = {s}
    BY <1>2 DEF Begin
  <2>2. s \in RadioSnapshot /\ c \in [rx : Nat, tx : Nat]
    BY RadioAssumption, CounterAssumption DEF ZeroCounters, CounterSamples
  <2>3. unmeasured' \in BOOLEAN
    BY <2>1 DEF SampleRadio, TypeOK
  <2> QED  BY <1>2, <2>1, <2>2, <2>3 DEF Begin, TypeOK, PhasePcs
<1>3. CASE NextStep
  BY <1>3 DEF NextStep, TypeOK, PhasePcs, sampler, ghosts
<1>4. CASE CheckCancel
  BY <1>4 DEF CheckCancel, Stop, TypeOK, PhasePcs, sampler, ghosts
<1>5. ASSUME NEW t \in Ticks, Tick(t) PROVE TypeOK'
  <2>1. t.took \in Nat /\ t.bytes \in Nat
    BY TickAssumption
  <2>2. tickVerdict(t) \in {"Continue", "AbortEndpointError", "AbortGatewayLatency", "AbortLoss"}
    BY DEF tickVerdict
  <2>3. breached' \in BOOLEAN
    BY <1>5 DEF Tick
  <2>4. /\ bytes' \in Nat /\ inStep' \in Nat /\ elapsed' \in Nat
        /\ blocked' \in Nat /\ lateTicks' \in Nat
    <3>1. /\ bytes' = bytes + t.bytes /\ inStep' = inStep + t.took
          /\ elapsed' = elapsed + t.took /\ blocked' = blocked + t.took
          /\ lateTicks' \in {lateTicks, lateTicks + 1}
      BY <1>5 DEF Tick
    <3>2. /\ bytes \in Nat /\ inStep \in Nat /\ elapsed \in Nat
          /\ blocked \in Nat /\ lateTicks \in Nat
      BY DEF TypeOK
    <3> QED  BY <2>1, <3>1, <3>2
  <2>5. pc = "tick" /\ pc' \in {"association", "ended"}
        /\ stopReason' \in {stopReason, "AbortEndpointError", "AbortGatewayLatency", "AbortLoss"}
    BY <1>5, <2>2 DEF Tick, Stop
  <2> QED  BY <1>5, <2>3, <2>4, <2>5 DEF Tick, TypeOK, PhasePcs, sampler
<1>6. CASE CheckAssociation
  BY <1>6 DEF CheckAssociation, Stop, TypeOK, PhasePcs, sampler, ghosts
<1>7. CASE Sleep
  <2>1. stepDuration \in Nat
    BY <1>7, StepDurationNat DEF Sleep, Validated, TypeOK
  <2>2. inStep < stepDuration => sleepFor \in Nat
    BY <2>1, ClockAssumption DEF sleepFor, TypeOK
  <2>3. inStep' \in Nat /\ elapsed' \in Nat
    BY <1>7, <2>2 DEF Sleep, TypeOK
  <2> QED  BY <1>7, <2>3 DEF Sleep, TypeOK, PhasePcs, sampler, ghosts
<1>8. CASE StopRadio
  BY <1>8 DEF StopRadio, TypeOK, PhasePcs, ghosts
<1>9. CASE Join
  BY <1>9 DEF Join, TypeOK, PhasePcs, sampler, ghosts
<1>10. CASE Conclude
  <2>1. PICK s \in Radios \cup {RadioFallback}, c \in CounterSamples, ok \in BOOLEAN :
               /\ SampleRadio(s, ok)
               /\ drawn' = drawn \cup {s}
    BY <1>10 DEF Conclude
  <2>2. s \in RadioSnapshot
    BY RadioAssumption
  <2>3. unmeasured' \in BOOLEAN
    BY <2>1 DEF SampleRadio, TypeOK
  <2> QED  BY <1>10, <2>1, <2>2, <2>3 DEF Conclude, TypeOK, PhasePcs, sampler
<1>11. CASE RadioTop \/ RadioWake
  <2>1. radioPc' \in {"asleep", "sampling", "exited"}
        /\ UNCHANGED <<driver, radioStop, held, during, cancel, ghosts>>
    BY <1>11 DEF RadioTop, RadioWake
  <2> QED  BY <2>1 DEF TypeOK, driver, ghosts
<1>12. CASE RadioSample
  <2>1. PICK s \in Radios \cup {RadioFallback}, ok \in BOOLEAN :
               SampleRadio(s, ok) /\ held' = IF ok THEN snapshot_fast(s) ELSE s
    BY <1>12 DEF RadioSample
  <2>2. held' \in RadioSnapshot
    BY <2>1, RadioAssumption, SnapshotFast
  <2>3. unmeasured' \in BOOLEAN
    BY <2>1 DEF SampleRadio, TypeOK
  <2> QED  BY <1>12, <2>2, <2>3 DEF RadioSample, TypeOK, driver
<1>13. CASE RadioPush
  <2>1. during' \in Seq(RadioSnapshot)
    BY <1>13 DEF RadioPush, TypeOK
  <2> QED  BY <1>13, <2>1 DEF RadioPush, TypeOK, driver, ghosts
<1>14. CASE OperatorCancel
  BY <1>14 DEF OperatorCancel, driver, sampler, ghosts, TypeOK
<1>15. CASE Finished \/ UNCHANGED vars
  <2>1. UNCHANGED vars
    BY <1>15 DEF Finished
  <2> QED  BY <2>1 DEF vars, driver, sampler, ghosts, TypeOK
<1> QED  BY <1>1, <1>2, <1>3, <1>4, <1>5, <1>6, <1>7, <1>8, <1>9, <1>10, <1>11,
            <1>12, <1>13, <1>14, <1>15 DEF Next, Drive, RadioThread

-----------------------------------------------------------------------------
(* Control: the budget, the schedule, the operator and the thresholds.     *)
LEMMA ControlStep ==
  ASSUME GuardInv, [Next]_vars
  PROVE  Validated' /\ StepInSchedule' /\ CancelSeen' /\ BreachSeen'
<1> USE DEF GuardInv
<1>1. CASE New
  BY <1>1 DEF New, Validated, StepInSchedule, CancelSeen, BreachSeen, PhasePcs, ghosts
<1>2. CASE Begin
  <2>1. budget.ramp \in Nat \ {0}
    BY <1>2, ValidatedBudget DEF Begin, Validated, TypeOK
  <2>2. /\ pc = "before" /\ pc' = "loop" /\ step' = 1
        /\ UNCHANGED <<budget, stopReason, cancel, lateTicks, breached>>
    BY <1>2 DEF Begin
  <2> QED  BY <2>1, <2>2 DEF Validated, StepInSchedule, CancelSeen, BreachSeen, PhasePcs
<1>3. CASE NextStep
  <2>1. /\ pc = "loop" /\ step' = step + 1
        /\ pc' = IF step < Len(ramp_schedule(budget)) THEN "loop" ELSE "ended"
        /\ UNCHANGED <<budget, stopReason, cancel, lateTicks, breached>>
    BY <1>3 DEF NextStep, ghosts
  <2>2. budget.ramp \in Nat /\ budget.rate \in Int
    BY <2>1, ValidatedBudget DEF Validated, TypeOK
  <2>3. Len(ramp_schedule(budget)) = budget.ramp
    BY <2>2, RampLength
  <2>4. step \in 1 .. budget.ramp
    BY <2>1 DEF StepInSchedule, PhasePcs
  <2> QED  BY <2>1, <2>2, <2>3, <2>4
           DEF Validated, StepInSchedule, CancelSeen, BreachSeen, PhasePcs
<1>4. CASE CheckCancel
  <2>1. /\ pc = "loop" /\ pc' = IF cancel THEN "ended" ELSE "tick"
        /\ UNCHANGED <<budget, step, cancel, lateTicks, breached>>
    BY <1>4 DEF CheckCancel, Stop, ghosts
  <2>2. ~breached
    BY <2>1 DEF BreachSeen
  <2> QED  BY <2>1, <2>2 DEF Validated, StepInSchedule, CancelSeen, BreachSeen, PhasePcs
<1>5. ASSUME NEW t \in Ticks, Tick(t)
      PROVE  Validated' /\ StepInSchedule' /\ CancelSeen' /\ BreachSeen'
  <2>1. /\ pc = "tick" /\ pc' \in {"association", "ended"} /\ UNCHANGED <<budget, step, cancel>>
        /\ lateTicks' = IF cancel THEN lateTicks + 1 ELSE lateTicks
    BY <1>5 DEF Tick, Stop
  <2>2. CancelSeen'
    <3>1. lateTicks = 0
      BY <2>1 DEF CancelSeen, TypeOK
    <3> QED  BY <2>1, <3>1 DEF CancelSeen
  <2>3. BreachSeen'
    <3>1. ~breached
      BY <2>1 DEF BreachSeen
    <3>2. CASE tickVerdict(t) = "Continue"
      <4>1. ~breached'
        BY <1>5, <3>1, <3>2 DEF Tick, tickVerdict
      <4> QED  BY <4>1 DEF BreachSeen
    <3>3. CASE tickVerdict(t) # "Continue"
      <4>1. pc' = "ended" /\ stopReason' = tickVerdict(t)
        BY <1>5, <3>3 DEF Tick, Stop
      <4> QED  BY <3>3, <4>1 DEF BreachSeen, tickVerdict
    <3> QED  BY <3>2, <3>3
  <2> QED  BY <2>1, <2>2, <2>3 DEF Validated, StepInSchedule, PhasePcs
<1>6. CASE CheckAssociation
  <2>1. /\ pc = "association" /\ pc' \in {"sleep", "ended"}
        /\ UNCHANGED <<budget, step, cancel, lateTicks, breached>>
    BY <1>6 DEF CheckAssociation, Stop, ghosts
  <2>2. ~breached
    BY <2>1 DEF BreachSeen
  <2> QED  BY <2>1, <2>2 DEF Validated, StepInSchedule, CancelSeen, BreachSeen, PhasePcs
<1>7. CASE Sleep
  <2>1. /\ pc = "sleep" /\ pc' = "loop"
        /\ UNCHANGED <<budget, step, stopReason, cancel, lateTicks, breached>>
    BY <1>7 DEF Sleep, ghosts
  <2> QED  BY <2>1 DEF Validated, StepInSchedule, CancelSeen, BreachSeen, PhasePcs
<1>8. CASE StopRadio \/ Join \/ Conclude
  <2>1. /\ pc \in {"ended", "join", "after"} /\ pc' \in {"join", "after", "done"}
        /\ UNCHANGED <<budget, step, stopReason, cancel, lateTicks, breached>>
    BY <1>8 DEF StopRadio, Join, Conclude, ghosts
  <2> QED  BY <2>1 DEF Validated, StepInSchedule, CancelSeen, BreachSeen, PhasePcs
<1>9. CASE RadioThread \/ OperatorCancel \/ Finished \/ UNCHANGED vars
  <2>1. /\ UNCHANGED <<pc, budget, step, stopReason, lateTicks, breached>>
        /\ cancel' = cancel \/ cancel' = TRUE
    BY <1>9 DEF RadioThread, RadioTop, RadioWake, RadioSample, RadioPush, OperatorCancel,
                Finished, vars, driver, ghosts
  <2> QED  BY <2>1 DEF Validated, StepInSchedule, CancelSeen, BreachSeen
<1> QED  BY <1>1, <1>2, <1>3, <1>4, <1>5, <1>6, <1>7, <1>8, <1>9 DEF Next, Drive

-----------------------------------------------------------------------------
(* The timeline and the report.                                            *)

LEMMA RangeAppend ==
  ASSUME NEW S, NEW d \in Seq(S), NEW x \in S
  PROVE  Range(Append(d, x)) = Range(d) \cup {x}
<1>1. /\ DOMAIN d = 1 .. Len(d) /\ Len(d) \in Nat
      /\ DOMAIN Append(d, x) = 1 .. Len(d) + 1
      /\ \A i \in 1 .. Len(d) : Append(d, x)[i] = d[i]
      /\ Append(d, x)[Len(d) + 1] = x
  OBVIOUS
<1>2. ASSUME NEW y \in Range(Append(d, x)) PROVE y \in Range(d) \cup {x}
  <2>1. PICK i \in 1 .. Len(d) + 1 : y = Append(d, x)[i]
    BY <1>1, <1>2 DEF Range
  <2>2. i \in 1 .. Len(d) \/ i = Len(d) + 1
    BY <1>1, <2>1
  <2> QED  BY <1>1, <2>1, <2>2 DEF Range
<1>3. ASSUME NEW y \in Range(d) PROVE y \in Range(Append(d, x))
  <2>1. PICK i \in 1 .. Len(d) : y = d[i]
    BY <1>1, <1>3 DEF Range
  <2>2. i \in 1 .. Len(d) + 1 /\ y = Append(d, x)[i]
    BY <1>1, <2>1
  <2> QED  BY <1>1, <2>2 DEF Range
<1>4. x \in Range(Append(d, x))
  <2>1. Len(d) + 1 \in 1 .. Len(d) + 1
    BY <1>1
  <2> QED  BY <1>1, <2>1 DEF Range
<1> QED  BY <1>2, <1>3, <1>4

(* The radio thread runs only between Begin and Join.                      *)
LEMMA RadioAwake ==
  ASSUME GuardInv, radioPc \notin {"unborn", "exited"}
  PROVE  pc \notin {"new", "refused", "before", "after", "done"}
BY DEF GuardInv, TimelineComplete

LEMMA TimelineStep ==
  ASSUME GuardInv, [Next]_vars
  PROVE  TimelineComplete' /\ ReportFollows'
<1> USE DEF GuardInv
<1>1. CASE New
  <2>1. /\ pc = "new" /\ pc' \in {"before", "refused"}
        /\ UNCHANGED <<drawn, radioPc, report>>
    BY <1>1 DEF New, sampler, ghosts
  <2> QED  BY <2>1 DEF TimelineComplete, ReportFollows
<1>2. CASE Begin
  <2>1. PICK s \in Radios \cup {RadioFallback}, c \in CounterSamples :
          before' = [radio |-> s, counters |-> c] /\ drawn' = {s}
    BY <1>2 DEF Begin
  <2>2. pc = "before" /\ pc' = "loop" /\ report' = report
    BY <1>2 DEF Begin
  <2>3. drawn' \subseteq {before'.radio}
    BY <2>1
  <2> QED  BY <2>2, <2>3 DEF TimelineComplete, ReportFollows
<1>3. CASE NextStep \/ CheckCancel \/ (\E t \in Ticks : Tick(t)) \/ CheckAssociation
           \/ Sleep \/ StopRadio
  <2>1. /\ pc \in PhasePcs \cup {"ended"} /\ pc' \in PhasePcs \cup {"ended", "join"}
        /\ UNCHANGED <<before, radioPc, held, during, report, drawn>>
    BY <1>3 DEF NextStep, CheckCancel, Tick, CheckAssociation, Sleep, StopRadio, Stop,
                PhasePcs, sampler, ghosts
  <2> QED  BY <2>1 DEF TimelineComplete, ReportFollows, PhasePcs
<1>4. CASE Join
  <2>1. /\ pc = "join" /\ pc' = "after" /\ radioPc = "exited"
        /\ UNCHANGED <<before, radioPc, held, during, report, drawn>>
    BY <1>4 DEF Join, sampler, ghosts
  <2> QED  BY <2>1 DEF TimelineComplete, ReportFollows
<1>5. CASE Conclude
  <2>1. PICK s \in Radios \cup {RadioFallback}, c \in CounterSamples :
          /\ drawn' = drawn \cup {s}
          /\ report'.after = s /\ report'.stopReason = stopReason
          /\ report'.derived # None => report'.validity = "Valid"
          /\ report'.validity =
               validity(before.radio, during, s, usable_delta_from(c, before.counters))
    BY <1>5 DEF Conclude, compute_derived_ratio
  <2>2. /\ pc = "after" /\ pc' = "done" /\ radioPc = "exited"
        /\ UNCHANGED <<before, radioPc, held, during, stopReason, synthetic>>
    BY <1>5 DEF Conclude, sampler, TimelineComplete
  <2>3. drawn' \subseteq {before'.radio, report'.after} \cup Range(during')
    <3>1. drawn \subseteq {before.radio} \cup Range(during)
      BY <2>2 DEF TimelineComplete
    <3> QED  BY <2>1, <2>2, <3>1
  <2>4. ASSUME report'.validity = "Valid"
        PROVE  /\ before.radio.associated /\ s.associated /\ ~synthetic
               /\ ~roamed(before.radio, during, s)
               /\ weakest_rf(before.radio, during, s) \notin {"Weak", "Unstable"}
    BY <2>1, <2>4, ValidMeans
  <2>5. ReportFollows'
    BY <2>1, <2>2, <2>3, <2>4 DEF ReportFollows
  <2> QED  BY <2>2, <2>5 DEF TimelineComplete
<1>6. CASE RadioTop \/ RadioWake
  <2>1. /\ radioPc \in {"top", "asleep"} /\ radioPc' \in {"asleep", "sampling", "exited"}
        /\ UNCHANGED <<pc, before, held, during, report, drawn, stopReason, synthetic>>
    BY <1>6 DEF RadioTop, RadioWake, driver, ghosts
  <2> QED  BY <2>1, RadioAwake DEF TimelineComplete, ReportFollows
<1>7. CASE RadioSample
  <2>1. /\ radioPc = "sampling" /\ radioPc' = "push" /\ drawn' = drawn \cup {held'}
        /\ UNCHANGED <<pc, before, during, report>>
    BY <1>7 DEF RadioSample, driver
  <2> QED  BY <2>1, RadioAwake DEF TimelineComplete, ReportFollows
<1>8. CASE RadioPush
  <2>1. /\ radioPc = "push" /\ radioPc' = "top" /\ during' = Append(during, held)
        /\ UNCHANGED <<pc, before, report, drawn>>
    BY <1>8 DEF RadioPush, driver, ghosts
  <2>2. Range(during') = Range(during) \cup {held}
    BY <2>1, RangeAppend DEF TypeOK
  <2> QED  BY <2>1, <2>2, RadioAwake DEF TimelineComplete, ReportFollows
<1>9. CASE OperatorCancel \/ Finished \/ UNCHANGED vars
  <2>1. UNCHANGED <<pc, before, radioPc, held, during, report, drawn, stopReason,
                    synthetic>>
    BY <1>9 DEF OperatorCancel, Finished, vars, driver, sampler, ghosts
  <2> QED  BY <2>1 DEF TimelineComplete, ReportFollows
<1> QED  BY <1>1, <1>2, <1>3, <1>4, <1>5, <1>6, <1>7, <1>8, <1>9
         DEF Next, Drive, RadioThread

-----------------------------------------------------------------------------
(* The clock.                                                              *)

LEMMA Distribute ==
  ASSUME NEW k \in Int, NEW d \in Nat
  PROVE  /\ (k - 1) * d \in Int /\ k * d \in Int
         /\ k * d = (k - 1) * d + d
         /\ (k + 1 - 1) * d = k * d /\ (k + 1) * d = k * d + d
OBVIOUS

LEMMA ClockStep ==
  ASSUME GuardInv, [Next]_vars
  PROVE  ClockKept'
<1> USE DEF GuardInv
<1>1. CASE New
  <2>1. /\ pc = "new" /\ pc' \in {"before", "refused"}
        /\ UNCHANGED <<elapsed, inStep, blocked, stopReason>>
    BY <1>1 DEF New, ghosts
  <2> QED  BY <2>1 DEF ClockKept, PhasePcs
<1>2. CASE Begin
  <2>1. /\ pc = "before" /\ pc' = "loop" /\ step' = 1
        /\ UNCHANGED <<budget, elapsed, inStep, blocked, stopReason>>
    BY <1>2 DEF Begin
  <2>2. stepDuration \in Nat /\ stepDuration' = stepDuration
    BY <2>1, StepDurationNat DEF Validated, TypeOK, stepDuration
  <2> QED  BY <2>1, <2>2 DEF ClockKept, PhasePcs
<1>3. CASE NextStep
  <2>1. /\ pc = "loop" /\ inStep >= stepDuration /\ step' = step + 1 /\ inStep' = 0
        /\ pc' = IF step < Len(ramp_schedule(budget)) THEN "loop" ELSE "ended"
        /\ UNCHANGED <<budget, elapsed, blocked, stopReason>>
    BY <1>3 DEF NextStep, ghosts
  <2>2. /\ stepDuration \in Nat /\ stepDuration' = stepDuration
        /\ budget.ramp \in Nat /\ budget.rate \in Int
    BY <2>1, StepDurationNat, ValidatedBudget DEF Validated, TypeOK, stepDuration
  <2>3. Len(ramp_schedule(budget)) = budget.ramp
    BY <2>2, RampLength
  <2>4. step \in 1 .. budget.ramp
    BY <2>1 DEF StepInSchedule, PhasePcs
  <2>5. step \in Int /\ inStep \in Nat /\ elapsed \in Nat /\ blocked \in Nat
    BY DEF TypeOK
  <2>6. /\ stopReason = "Completed"
        /\ elapsed >= (step - 1) * stepDuration + inStep
        /\ elapsed <= step * stepDuration + blocked
    BY <2>1 DEF ClockKept, PhasePcs
  <2> DEFINE d == stepDuration
  <2>7. /\ (step - 1) * d \in Int /\ step * d \in Int
        /\ step * d = (step - 1) * d + d
        /\ (step + 1 - 1) * d = step * d /\ (step + 1) * d = step * d + d
    BY <2>2, <2>5, Distribute
  <2>8. elapsed >= step * d /\ elapsed <= step * d + blocked
    BY <2>1, <2>2, <2>5, <2>6, <2>7
  <2>9. CASE pc' = "loop"
    <3>1. /\ elapsed' >= (step' - 1) * stepDuration' + inStep'
          /\ elapsed' <= (step' - 1) * stepDuration' + inStep' + blocked'
          /\ elapsed' <= step' * stepDuration' + blocked'
      BY <2>1, <2>2, <2>5, <2>7, <2>8
    <3> QED  BY <2>1, <2>6, <2>9, <3>1 DEF ClockKept, PhasePcs
  <2>10. CASE pc' = "ended"
    <3>1. step = budget.ramp
      BY <2>1, <2>2, <2>3, <2>4, <2>10
    <3> QED  BY <2>1, <2>2, <2>8, <2>10, <3>1 DEF ClockKept, PhasePcs
  <2> QED  BY <2>1, <2>9, <2>10
<1>4. CASE CheckCancel
  <2>1. /\ pc = "loop" /\ UNCHANGED <<budget, step, inStep, elapsed, blocked>>
        /\ \/ pc' = "ended" /\ stopReason' = "OperatorCancelled"
           \/ pc' = "tick" /\ stopReason' = stopReason
    BY <1>4 DEF CheckCancel, Stop, ghosts
  <2>2. stepDuration' = stepDuration
    BY <2>1 DEF stepDuration
  <2> QED  BY <2>1, <2>2 DEF ClockKept, PhasePcs
<1>5. ASSUME NEW t \in Ticks, Tick(t) PROVE ClockKept'
  <2>1. /\ pc = "tick" /\ UNCHANGED <<budget, step>>
        /\ inStep' = inStep + t.took /\ elapsed' = elapsed + t.took
        /\ blocked' = blocked + t.took
        /\ \/ pc' = "ended" /\ stopReason' = tickVerdict(t)
           \/ pc' = "association" /\ stopReason' = stopReason
    BY <1>5 DEF Tick, Stop
  <2>2. tickVerdict(t) # "Completed"
    BY DEF tickVerdict
  <2>3. CASE pc' = "ended" /\ stopReason' = tickVerdict(t)
    BY <2>2, <2>3 DEF ClockKept, PhasePcs
  <2>4. CASE pc' = "association" /\ stopReason' = stopReason
    <3>1. /\ t.took \in Nat /\ step \in Int /\ inStep \in Nat /\ elapsed \in Nat
          /\ blocked \in Nat
      BY TickAssumption DEF TypeOK
    <3>2. stepDuration \in Nat /\ stepDuration' = stepDuration
      BY <2>1, StepDurationNat DEF Validated, TypeOK, stepDuration
    <3>3. (step - 1) * stepDuration \in Int /\ step * stepDuration \in Int
      BY <3>1, <3>2, Distribute
    <3>4. /\ stopReason = "Completed"
          /\ elapsed >= (step - 1) * stepDuration + inStep
          /\ elapsed <= (step - 1) * stepDuration + inStep + blocked
          /\ elapsed <= step * stepDuration + blocked
      BY <2>1 DEF ClockKept, PhasePcs
    <3>5. /\ elapsed' >= (step - 1) * stepDuration + inStep'
          /\ elapsed' <= (step - 1) * stepDuration + inStep' + blocked'
          /\ elapsed' <= step * stepDuration + blocked'
      BY <2>1, <3>1, <3>3, <3>4
    <3> QED  BY <2>1, <2>4, <3>2, <3>4, <3>5 DEF ClockKept, PhasePcs
  <2> QED  BY <2>1, <2>3, <2>4
<1>6. CASE CheckAssociation
  <2>1. /\ pc = "association" /\ UNCHANGED <<budget, step, inStep, elapsed, blocked>>
        /\ \/ pc' = "ended" /\ stopReason' = "AbortAssociationChange"
           \/ pc' = "sleep" /\ stopReason' = stopReason
    BY <1>6 DEF CheckAssociation, Stop, ghosts
  <2>2. stepDuration' = stepDuration
    BY <2>1 DEF stepDuration
  <2> QED  BY <2>1, <2>2 DEF ClockKept, PhasePcs
<1>7. CASE Sleep
  <2> DEFINE slept == IF inStep < stepDuration THEN sleepFor ELSE 0
  <2>1. /\ pc = "sleep" /\ pc' = "loop" /\ UNCHANGED <<budget, step, blocked, stopReason>>
        /\ inStep' = inStep + slept /\ elapsed' = elapsed + slept
    BY <1>7 DEF Sleep, ghosts
  <2>2. stepDuration \in Nat /\ stepDuration' = stepDuration
    BY <2>1, StepDurationNat DEF Validated, TypeOK, stepDuration
  <2>3. step \in Int /\ inStep \in Nat /\ elapsed \in Nat /\ blocked \in Nat
    BY DEF TypeOK
  <2>4. slept \in Nat /\ (slept = 0 \/ inStep + slept <= stepDuration)
    BY <2>2, <2>3, ClockAssumption DEF sleepFor
  <2>5. /\ (step - 1) * stepDuration \in Int
        /\ step * stepDuration = (step - 1) * stepDuration + stepDuration
    BY <2>2, <2>3, Distribute
  <2>6. /\ stopReason = "Completed"
        /\ elapsed >= (step - 1) * stepDuration + inStep
        /\ elapsed <= (step - 1) * stepDuration + inStep + blocked
        /\ elapsed <= step * stepDuration + blocked
    BY <2>1 DEF ClockKept, PhasePcs
  <2> HIDE DEF slept
  <2>7. /\ elapsed' >= (step - 1) * stepDuration + inStep'
        /\ elapsed' <= (step - 1) * stepDuration + inStep' + blocked
        /\ elapsed' <= step * stepDuration + blocked
    BY <2>1, <2>2, <2>3, <2>4, <2>5, <2>6
  <2> QED  BY <2>1, <2>2, <2>6, <2>7 DEF ClockKept, PhasePcs
<1>8. CASE StopRadio \/ Join \/ Conclude
  <2>1. /\ pc \in {"ended", "join", "after"} /\ pc' \in {"join", "after", "done"}
        /\ UNCHANGED <<budget, elapsed, blocked, stopReason>>
    BY <1>8 DEF StopRadio, Join, Conclude, ghosts
  <2>2. stepDuration' = stepDuration
    BY <2>1 DEF stepDuration
  <2> QED  BY <2>1, <2>2 DEF ClockKept, PhasePcs
<1>9. CASE RadioThread \/ OperatorCancel \/ Finished \/ UNCHANGED vars
  <2>1. UNCHANGED <<pc, budget, step, inStep, elapsed, blocked, stopReason>>
    BY <1>9 DEF RadioThread, RadioTop, RadioWake, RadioSample, RadioPush, OperatorCancel,
                Finished, vars, driver, ghosts
  <2>2. stepDuration' = stepDuration
    BY <2>1 DEF stepDuration
  <2> QED  BY <2>1, <2>2 DEF ClockKept
<1> QED  BY <1>1, <1>2, <1>3, <1>4, <1>5, <1>6, <1>7, <1>8, <1>9 DEF Next, Drive

(* No reading is replaced without a trace.                                 *)
LEMMA SubstituteStep ==
  ASSUME GuardInv, [Next]_vars
  PROVE  SubstitutesSeen'
<1> USE DEF GuardInv
<1>1. CASE New
  BY <1>1 DEF New, ghosts, SubstitutesSeen
<1>2. CASE Begin
  <2>1. PICK s \in Radios \cup {RadioFallback}, ok \in BOOLEAN :
          /\ unmeasured' = (unmeasured \/ synthetic \/ ~ok)
          /\ ~ok => s = RadioFallback
          /\ drawn' = {s}
    BY <1>2 DEF Begin, SampleRadio
  <2>2. ~unmeasured /\ pc' = "loop" /\ synthetic' = synthetic
    BY <1>2 DEF Begin, SubstitutesSeen
  <2> QED  BY <2>1, <2>2 DEF SubstitutesSeen
<1>3. CASE Conclude
  <2>1. PICK s \in Radios \cup {RadioFallback}, ok \in BOOLEAN :
          /\ unmeasured' = (unmeasured \/ synthetic \/ ~ok)
          /\ ~ok => s = RadioFallback
          /\ drawn' = drawn \cup {s}
    BY <1>3 DEF Conclude, SampleRadio
  <2>2. pc' = "done" /\ synthetic' = synthetic
    BY <1>3 DEF Conclude
  <2> QED  BY <2>1, <2>2 DEF SubstitutesSeen
<1>4. CASE RadioSample
  <2>1. PICK s \in Radios \cup {RadioFallback}, ok \in BOOLEAN :
          /\ unmeasured' = (unmeasured \/ synthetic \/ ~ok)
          /\ ~ok => held' = RadioFallback
    BY <1>4 DEF RadioSample, SampleRadio
  <2>2. drawn' = drawn \cup {held'} /\ UNCHANGED <<pc, synthetic>>
    BY <1>4 DEF RadioSample, driver
  <2>3. pc \notin {"new", "refused", "before"}
    BY <1>4, RadioAwake DEF RadioSample
  <2> QED  BY <2>1, <2>2, <2>3 DEF SubstitutesSeen
<1>5. CASE \/ NextStep \/ CheckCancel \/ (\E t \in Ticks : Tick(t))
           \/ CheckAssociation \/ Sleep \/ StopRadio \/ Join
  <2>1. /\ UNCHANGED <<synthetic, drawn, unmeasured>>
        /\ pc' \notin {"new", "refused", "before"}
    BY <1>5 DEF NextStep, CheckCancel, Tick, CheckAssociation, Sleep, StopRadio, Join,
                Stop, ghosts
  <2> QED  BY <2>1 DEF SubstitutesSeen
<1>6. CASE RadioTop \/ RadioWake \/ RadioPush \/ OperatorCancel \/ Finished \/ UNCHANGED vars
  <2>1. UNCHANGED <<pc, synthetic, drawn, unmeasured>>
    BY <1>6 DEF RadioTop, RadioWake, RadioPush, OperatorCancel, Finished, vars,
                driver, ghosts
  <2> QED  BY <2>1 DEF SubstitutesSeen
<1> QED  BY <1>1, <1>2, <1>3, <1>4, <1>5, <1>6 DEF Next, Drive, RadioThread

-----------------------------------------------------------------------------
LEMMA GuardStepInv ==
  ASSUME GuardInv, [Next]_vars
  PROVE  GuardInv'
BY TypeStep, ControlStep, TimelineStep, ClockStep, SubstituteStep DEF GuardInv

LEMMA GuardInvariant == Spec => []GuardInv
<1>1. GuardInv /\ [Next]_vars => GuardInv'
  BY GuardStepInv
<1> QED  BY InitGuardInv, <1>1, PTL DEF Spec

(* Every variable keeps its type in every run of LoadGuard::run.           *)
THEOREM TypeCorrect == Spec => []TypeOK
<1>1. GuardInv => TypeOK
  BY DEF GuardInv
<1> QED  BY GuardInvariant, <1>1, PTL

LEMMA SteadyWhenValid == GuardInv => ValidMeansSteadyLink
<1>1. ASSUME GuardInv, Published, report.validity = "Valid", NEW s \in drawn
      PROVE  /\ s.associated
             /\ association_fingerprint(s) = association_fingerprint(before.radio)
             /\ classify_rf(s) \notin {"Weak", "Unstable"}
  <2> DEFINE b == before.radio
             a == report.after
  <2>1. /\ pc = "done" /\ s \in Range(during) \cup {a, b}
        /\ b.associated /\ ~roamed(b, during, a)
        /\ weakest_rf(b, during, a) \notin {"Weak", "Unstable"}
    BY <1>1 DEF GuardInv, ReportFollows, Published
  <2>2. association_fingerprint(s) = association_fingerprint(b)
    BY <2>1 DEF roamed
  <2>3. b \in RadioSnapshot /\ s \in RadioSnapshot
    BY <1>1, <2>1 DEF GuardInv, TypeOK
  <2>4. association_fingerprint(b) = <<b.band, b.channel>>
    BY <2>1 DEF association_fingerprint
  <2>5. <<b.band, b.channel>> \in (STRING \cup {None}) \X (Nat \cup {None})
    BY <2>3 DEF RadioSnapshot
  <2>6. association_fingerprint(s) # None
    BY <2>2, <2>4, <2>5, RadioAssumption
  <2>7. s.associated
    BY <2>6 DEF association_fingerprint
  <2>8. classify_rf(s) \notin {"Weak", "Unstable"}
    BY <2>1, WeakestIsWeakest
  <2> QED  BY <2>2, <2>7, <2>8
<1> QED  BY <1>1 DEF ValidMeansSteadyLink

(* A run is Valid only if every snapshot the two threads ever obtained     *)
(* shows the baseline association on a usable signal, wherever the radio   *)
(* thread was when the phase ended.                                        *)
THEOREM SteadyLink == Spec => []ValidMeansSteadyLink
BY GuardInvariant, SteadyWhenValid, PTL

(* A ratio rests on radio readings alone, provided the source's substitute *)
(* for a failed read is not associated: RadioUnavailable then catches it   *)
(* whichever thread drew it.  (The command line's substitute is, and the   *)
(* property fails there.)                                                  *)
THEOREM MeasuredOnly ==
  ASSUME ~RadioFallback.associated
  PROVE  Spec => []DerivedIsMeasured
<1>1. ASSUME GuardInv, Published, report.derived # None PROVE ~unmeasured
  <2>1. pc = "done" /\ report.validity = "Valid" /\ ~synthetic
    BY <1>1 DEF GuardInv, ReportFollows, Published
  <2>2. \A s \in drawn : s.associated
    BY <1>1, <2>1, SteadyWhenValid DEF ValidMeansSteadyLink
  <2>3. unmeasured => RadioFallback \in drawn
    BY <1>1, <2>1 DEF GuardInv, SubstitutesSeen
  <2> QED  BY <2>2, <2>3
<1>2. GuardInv => DerivedIsMeasured
  BY <1>1 DEF DerivedIsMeasured
<1> QED  BY GuardInvariant, <1>2, PTL

(* A completed phase fills its schedule and exceeds it by no more than its *)
(* ticks blocked, for every ramp, sample interval and tick length.         *)
THEOREM ScheduleFilled == Spec => []OverrunOnlyFromTicks
<1>1. GuardInv => OverrunOnlyFromTicks
  BY DEF GuardInv, ReportFollows, ClockKept, Published, OverrunOnlyFromTicks
<1> QED  BY GuardInvariant, <1>1, PTL

(* At most one tick starts after the operator's cancel, whenever it falls. *)
THEOREM OneLateTick == Spec => []AtMostOneLateTick
<1>1. GuardInv => AtMostOneLateTick
  BY DEF GuardInv, CancelSeen, AtMostOneLateTick
<1> QED  BY GuardInvariant, <1>1, PTL

(* The tick that breaches a threshold is the last one, and the report      *)
(* names the breach.                                                       *)
THEOREM BreachStops == Spec => []BreachEndsPhase
<1>1. GuardInv => BreachEndsPhase
  BY DEF GuardInv, BreachSeen, BreachEndsPhase, PhasePcs
<1> QED  BY GuardInvariant, <1>1, PTL

(* No tick of any ramp step is offered more than the mode's cap.           *)
THEOREM RateCapped == Spec => []RateWithinCap
<1>1. ASSUME GuardInv, pc = "tick"
      PROVE  /\ step \in DOMAIN ramp_schedule(budget)
             /\ ramp_schedule(budget)[step] <= budget.ramp * caps(budget.mode).rate
             /\ budget.concurrency <= caps(budget.mode).concurrency
  <2>1. budget \in Budgets /\ validate(budget) = "Ok" /\ step \in 1 .. budget.ramp
    BY <1>1 DEF GuardInv, TypeOK, Validated, StepInSchedule, PhasePcs
  <2> DEFINE cap == caps(budget.mode).rate
  <2>2. /\ budget.ramp \in Nat /\ budget.rate \in Int /\ budget.rate <= cap /\ cap \in Nat
        /\ budget.concurrency <= caps(budget.mode).concurrency
    BY <2>1, ValidatedBudget
  <2>3. DOMAIN ramp_schedule(budget) = 1 .. budget.ramp
    BY <2>2, RampLength
  <2>4. ramp_schedule(budget)[step] = budget.rate * step
    BY <2>1, <2>3 DEF ramp_schedule
  <2>5. \A r \in Int, c, k, n \in Nat : r <= c /\ k <= n => r * k <= n * c
    <3>1. \A r \in Int, c, k \in Nat : r <= c => r * k <= c * k
      OBVIOUS
    <3>2. \A c, k, n \in Nat : k <= n => c * k <= n * c
      OBVIOUS
    <3> QED  BY <3>1, <3>2
  <2>6. budget.rate * step <= budget.ramp * cap
    <3> HIDE DEF cap
    <3> QED  BY <2>1, <2>2, <2>5
  <2> QED  BY <2>1, <2>2, <2>3, <2>4, <2>6
<1>2. GuardInv => RateWithinCap
  BY <1>1 DEF RateWithinCap
<1> QED  BY GuardInvariant, <1>2, PTL

-----------------------------------------------------------------------------
(* The guard implements EvidenceGate.                                      *)

LEMMA GatePhases ==
  /\ pc \in {"new", "before"} => gatePhase = "idle"
  /\ pc \in PhasePcs => gatePhase = "loading"
  /\ pc \in {"ended", "join", "after"} => gatePhase = "settling"
  /\ pc \in {"done", "refused"} => gatePhase = "published"
BY DEF gatePhase, PhasePcs

LEMMA GateBooleans == heldSteady \in BOOLEAN /\ ratioPublished \in BOOLEAN
BY DEF heldSteady, ratioPublished, Published

(* More snapshots never make the evidence clean again.                     *)
LEMMA SteadyOnlyLost ==
  ASSUME drawn \subseteq drawn', before' = before
  PROVE  heldSteady' => heldSteady
BY DEF heldSteady

LEMMA GateInitially == Init => Gate!GateInit
<1> SUFFICES ASSUME Init PROVE Gate!GateInit
  OBVIOUS
<1>1. gatePhase = "idle" /\ heldSteady = TRUE /\ ratioPublished = FALSE
  BY GatePhases DEF Init, heldSteady, ratioPublished, Published
<1> QED  BY <1>1 DEF Gate!GateInit

(* Every step is a step of the gate or leaves it alone.                    *)
LEMMA GateStep ==
  ASSUME GuardInv, GuardInv', [Next]_vars
  PROVE  [Gate!GateNext]_(Gate!gate)
<1> DEFINE same == UNCHANGED <<gatePhase, heldSteady, ratioPublished>>
<1>0. same => [Gate!GateNext]_(Gate!gate)
  BY DEF Gate!gate
<1>1. CASE New
  <2>1. pc = "new" /\ pc' \in {"before", "refused"} /\ UNCHANGED <<before, drawn, report>>
    BY <1>1 DEF New, ghosts
  <2>2. UNCHANGED <<heldSteady, ratioPublished>>
    BY <2>1 DEF heldSteady, ratioPublished, Published
  <2>3. gatePhase = "idle" /\ gatePhase' \in {"idle", "published"}
    <3>1. pc' = "before" => gatePhase' = "idle"
      BY DEF gatePhase, PhasePcs
    <3>2. pc' = "refused" => gatePhase' = "published"
      BY DEF gatePhase, PhasePcs
    <3> QED  BY <2>1, <3>1, <3>2, GatePhases
  <2>4. CASE gatePhase' = "idle"
    BY <1>0, <2>2, <2>3, <2>4
  <2>5. CASE gatePhase' = "published"
    BY <2>2, <2>3, <2>5 DEF Gate!GateNext, Gate!Refuse
  <2> QED  BY <2>3, <2>4, <2>5
<1>2. CASE Begin
  <2>1. pc = "before" /\ pc' = "loop" /\ report' = report
    BY <1>2 DEF Begin
  <2>2. ratioPublished' = ratioPublished /\ heldSteady' \in BOOLEAN
    BY <2>1 DEF ratioPublished, Published, heldSteady
  <2>3. gatePhase = "idle" /\ gatePhase' = "loading"
    BY <2>1 DEF gatePhase, PhasePcs
  <2> QED  BY <2>2, <2>3 DEF Gate!GateNext, Gate!Start
<1>3. CASE \/ NextStep \/ CheckCancel \/ (\E t \in Ticks : Tick(t)) \/ CheckAssociation
           \/ Sleep
  <2>1. /\ pc \in PhasePcs /\ pc' \in PhasePcs \cup {"ended"}
        /\ UNCHANGED <<before, drawn, report>>
    BY <1>3 DEF NextStep, CheckCancel, Tick, CheckAssociation, Sleep, Stop, PhasePcs, ghosts
  <2>2. UNCHANGED <<heldSteady, ratioPublished>>
    BY <2>1 DEF heldSteady, ratioPublished, Published
  <2>3. CASE pc' \in PhasePcs
    <3>1. gatePhase' = gatePhase
      BY <2>1, <2>3 DEF gatePhase, PhasePcs
    <3> QED  BY <1>0, <2>2, <3>1
  <2>4. CASE pc' = "ended"
    <3>1. gatePhase = "loading" /\ gatePhase' = "settling"
      BY <2>1, <2>4 DEF gatePhase, PhasePcs
    <3> QED  BY <2>2, <3>1 DEF Gate!GateNext, Gate!Settle
  <2> QED  BY <2>1, <2>3, <2>4
<1>4. CASE StopRadio \/ Join
  <2>1. /\ pc \in {"ended", "join"} /\ pc' \in {"join", "after"}
        /\ UNCHANGED <<before, drawn, report>>
    BY <1>4 DEF StopRadio, Join, ghosts
  <2>2. UNCHANGED <<heldSteady, ratioPublished>>
    BY <2>1 DEF heldSteady, ratioPublished, Published
  <2>3. gatePhase' = gatePhase
    BY <2>1 DEF gatePhase, PhasePcs
  <2> QED  BY <1>0, <2>2, <2>3
<1>5. CASE Conclude
  <2>1. pc = "after" /\ pc' = "done" /\ before' = before /\ drawn \subseteq drawn'
    BY <1>5 DEF Conclude
  <2>2. gatePhase = "settling" /\ gatePhase' = "published"
    BY <2>1 DEF gatePhase, PhasePcs
  <2>3. heldSteady' \in {heldSteady, FALSE}
    BY <2>1, SteadyOnlyLost DEF heldSteady
  <2>4. ASSUME ratioPublished' PROVE heldSteady'
    <3>1. Published' /\ report'.validity = "Valid"
      BY <2>1, <2>4 DEF ratioPublished, GuardInv, ReportFollows
    <3>2. ValidMeansSteadyLink'
      BY SteadyWhenValid, PTL
    <3> QED  BY <3>1, <3>2 DEF ValidMeansSteadyLink, heldSteady
  <2>5. ratioPublished' \in {FALSE, heldSteady'}
    BY <2>4 DEF ratioPublished, Published, heldSteady
  <2> QED  BY <2>2, <2>3, <2>5 DEF Gate!GateNext, Gate!Publish
<1>6. CASE RadioSample
  <2>1. /\ UNCHANGED <<pc, before, report>> /\ drawn \subseteq drawn'
        /\ radioPc = "sampling"
    BY <1>6 DEF RadioSample, driver
  <2>2. pc \in PhasePcs \cup {"ended", "join"}
    BY <2>1, RadioAwake DEF GuardInv, TypeOK
  <2>3. gatePhase \in {"loading", "settling"}
    BY <2>2, GatePhases
  <2>4. gatePhase' = gatePhase /\ ratioPublished' = ratioPublished
    BY <2>1 DEF gatePhase, ratioPublished, Published
  <2>5. heldSteady' = heldSteady \/ heldSteady' = FALSE
    BY <2>1, SteadyOnlyLost DEF heldSteady
  <2>6. CASE heldSteady' = heldSteady
    BY <1>0, <2>4, <2>6
  <2>7. CASE heldSteady' = FALSE
    BY <2>3, <2>4, <2>7 DEF Gate!GateNext, Gate!Observe
  <2> QED  BY <2>5, <2>6, <2>7
<1>7. CASE RadioTop \/ RadioWake \/ RadioPush \/ OperatorCancel \/ Finished \/ UNCHANGED vars
  <2>1. UNCHANGED <<pc, before, drawn, report>>
    BY <1>7 DEF RadioTop, RadioWake, RadioPush, OperatorCancel, Finished, vars,
                driver, ghosts
  <2>2. same
    BY <2>1 DEF gatePhase, heldSteady, ratioPublished, Published
  <2> QED  BY <1>0, <2>2
<1> QED  BY <1>1, <1>2, <1>3, <1>4, <1>5, <1>6, <1>7 DEF Next, Drive, RadioThread

(* LoadGuard::run implements the gate: whatever the two threads and the    *)
(* operator interleave to, a ratio comes out only at the end, and only if  *)
(* no snapshot spoke against it.                                           *)
THEOREM GateImplemented == Spec => ImplementsEvidenceGate
<1>1. GuardInv /\ GuardInv' /\ [Next]_vars => [Gate!GateNext]_(Gate!gate)
  BY GateStep
<1> QED  BY GateInitially, GuardInvariant, <1>1, PTL
         DEF Spec, ImplementsEvidenceGate, Gate!Spec

-----------------------------------------------------------------------------
(* The NAT session-rate probe.                                             *)

ProbeType ==
  /\ authorized \in BOOLEAN /\ stop \in BOOLEAN
  /\ watcher \in {"unborn", "polling", "exited"}
  /\ counts \in [Outcomes -> Nat]
  /\ attempted \in Nat /\ open \in Nat

(* Nothing is attempted before the statement and the budget were accepted. *)
ProbeGated ==
  /\ pc \notin {"new", "refused"} => authorized
  /\ pc \in {"new", "refused", "before"} => attempted = 0

Total(c) == c["Created"] + c["RemoteRefused"] + c["RemoteTimedOut"]
            + c["LocalResourceExhausted"] + c["OtherLocalError"]

(* The probe's books balance until the guard returns and drops the phase.  *)
BooksBalance ==
  /\ attempted = Total(counts)
  /\ pc # "done" => open = counts["Created"]

NatInv == GuardInv /\ ProbeType /\ ProbeGated /\ BooksBalance

(* Every step of the probe is a step of the guard, except two: the refusal *)
(* without a statement, and the watcher, which raises the flag whatever    *)
(* the driving thread is doing.                                            *)
LEMMA ProbeStepsGuard ==
  ASSUME NatNext
  PROVE  \/ [Next]_vars
         \/ /\ pc = "new" /\ pc' = "refused"
            /\ UNCHANGED <<budget, synthetic, before, step, inStep, elapsed, bytes,
                           stopReason, report, sampler, cancel, ghosts>>
         \/ cancel' = TRUE /\ UNCHANGED <<driver, sampler, ghosts>>
<1>1. CASE Authorize
  BY <1>1 DEF Authorize, Next, Drive
<1>2. CASE BeginProbe
  BY <1>2 DEF BeginProbe, Next, Drive
<1>3. CASE GuardStep
  BY <1>3 DEF GuardStep, Next, Drive
<1>4. CASE ConcludeProbe
  BY <1>4 DEF ConcludeProbe, Next, Drive
<1>5. CASE \E t \in Ticks, o \in Outcomes : SessionTick(t, o)
  BY <1>5 DEF SessionTick, Next, Drive
<1>6. CASE RadioThread \/ Finished
  BY <1>6 DEF Next
<1>7. CASE Watch
  BY <1>7 DEF Watch
<1> QED  BY <1>1, <1>2, <1>3, <1>4, <1>5, <1>6, <1>7 DEF NatNext, DriveProbe

(* The guard's invariant survives the two steps that are not its own.      *)
LEMMA ProbeKeepsGuardInv ==
  ASSUME GuardInv, NatNext
  PROVE  GuardInv'
<1>1. CASE [Next]_vars
  BY <1>1, GuardStepInv
<1>2. CASE /\ pc = "new" /\ pc' = "refused"
           /\ UNCHANGED <<budget, synthetic, before, step, inStep, elapsed, bytes,
                          stopReason, report, sampler, cancel, ghosts>>
  <2>1. TypeOK' /\ Validated' /\ StepInSchedule' /\ CancelSeen' /\ BreachSeen'
    BY <1>2 DEF GuardInv, TypeOK, Validated, StepInSchedule, CancelSeen, BreachSeen,
                PhasePcs, sampler, ghosts
  <2>2. TimelineComplete' /\ ReportFollows' /\ ClockKept' /\ SubstitutesSeen'
    BY <1>2 DEF GuardInv, TimelineComplete, ReportFollows, ClockKept, SubstitutesSeen,
                PhasePcs, sampler, ghosts
  <2> QED  BY <2>1, <2>2 DEF GuardInv
<1>3. CASE cancel' = TRUE /\ UNCHANGED <<driver, sampler, ghosts>>
  <2>1. /\ UNCHANGED <<pc, budget, synthetic, before, step, inStep, elapsed, bytes,
                       stopReason, report>>
        /\ UNCHANGED <<radioPc, radioStop, held, during>>
        /\ UNCHANGED <<drawn, unmeasured, blocked, lateTicks, breached>>
    BY <1>3 DEF driver, sampler, ghosts
  <2>2. TypeOK' /\ Validated' /\ StepInSchedule' /\ CancelSeen' /\ BreachSeen'
    BY <1>3, <2>1 DEF GuardInv, TypeOK, Validated, StepInSchedule, CancelSeen, BreachSeen
  <2>3. TimelineComplete' /\ ReportFollows' /\ SubstitutesSeen'
    BY <2>1 DEF GuardInv, TimelineComplete, ReportFollows, SubstitutesSeen
  <2>4. ClockKept'
    BY <2>1 DEF GuardInv, ClockKept, stepDuration
  <2> QED  BY <2>2, <2>3, <2>4 DEF GuardInv
<1> QED  BY <1>1, <1>2, <1>3, ProbeStepsGuard

LEMMA ProbeStep ==
  ASSUME NatInv, NatNext
  PROVE  ProbeType' /\ ProbeGated' /\ BooksBalance'
<1> USE DEF NatInv
<1>1. CASE Authorize
  <2>1. /\ pc = "new" /\ pc' \in {"before", "refused"} /\ (pc' = "before" => authorized)
        /\ UNCHANGED <<authorized, stop, watcher, counts, attempted, open>>
    BY <1>1 DEF Authorize, New, probe
  <2> QED  BY <2>1 DEF ProbeType, ProbeGated, BooksBalance
<1>2. CASE BeginProbe
  <2>1. /\ pc = "before" /\ pc' = "loop" /\ watcher' = "polling"
        /\ UNCHANGED <<authorized, stop, counts, attempted, open>>
    BY <1>2 DEF BeginProbe, Begin
  <2> QED  BY <2>1 DEF ProbeType, ProbeGated, BooksBalance
<1>3. CASE GuardStep
  <2>1. /\ pc \in PhasePcs \cup {"ended", "join"}
        /\ pc' \in PhasePcs \cup {"ended", "join", "after"}
        /\ UNCHANGED <<authorized, stop, watcher, counts, attempted, open>>
    BY <1>3 DEF GuardStep, NextStep, CheckCancel, CheckAssociation, Sleep, StopRadio, Join,
                Stop, PhasePcs, probe
  <2> QED  BY <2>1 DEF ProbeType, ProbeGated, BooksBalance, PhasePcs
<1>4. CASE ConcludeProbe
  <2>1. /\ pc = "after" /\ pc' = "done" /\ open' = 0
        /\ UNCHANGED <<authorized, stop, watcher, counts, attempted>>
    BY <1>4 DEF ConcludeProbe, Conclude
  <2> QED  BY <2>1 DEF ProbeType, ProbeGated, BooksBalance
<1>5. ASSUME NEW t \in Ticks, NEW o \in Outcomes, SessionTick(t, o)
      PROVE  ProbeType' /\ ProbeGated' /\ BooksBalance'
  <2>1. /\ pc = "tick" /\ pc' \in {"association", "ended"}
        /\ attempted' = attempted + 1 /\ counts' = [counts EXCEPT ![o] = @ + 1]
        /\ open' = IF o = "Created" THEN open + 1 ELSE open
        /\ stop' = (stop \/ raisesStop(o)) /\ UNCHANGED <<authorized, watcher>>
    BY <1>5 DEF SessionTick, CountOutcome, Tick, Stop
  <2>2. counts \in [Outcomes -> Nat] /\ attempted \in Nat /\ open \in Nat
    BY DEF ProbeType
  <2>3. /\ counts' \in [Outcomes -> Nat]
        /\ \A x \in Outcomes : counts'[x] = IF x = o THEN counts[x] + 1 ELSE counts[x]
    BY <2>1, <2>2
  <2>4. stop' \in BOOLEAN
    BY <2>1 DEF raisesStop, ProbeType
  <2>5. ProbeType'
    BY <2>1, <2>2, <2>3, <2>4 DEF ProbeType
  <2>6. ProbeGated'
    BY <2>1 DEF ProbeGated
  <2>7. Total(counts') = Total(counts) + 1
    BY <2>2, <2>3 DEF Total, Outcomes
  <2>8. "Created" \in Outcomes /\ open = counts["Created"]
    BY <2>1 DEF Outcomes, BooksBalance
  <2>9. open' = counts'["Created"]
    BY <2>1, <2>2, <2>3, <2>8
  <2> QED  BY <2>1, <2>2, <2>5, <2>6, <2>7, <2>9 DEF BooksBalance
<1>6. CASE (RadioThread \/ Finished) /\ UNCHANGED probe
  <2>1. UNCHANGED <<pc, authorized, stop, watcher, counts, attempted, open>>
    BY <1>6 DEF RadioThread, RadioTop, RadioWake, RadioSample, RadioPush, Finished,
                vars, driver, probe
  <2> QED  BY <2>1 DEF ProbeType, ProbeGated, BooksBalance
<1>7. CASE Watch
  <2>1. watcher' = "exited" /\ UNCHANGED <<pc, authorized, stop, counts, attempted, open>>
    BY <1>7 DEF Watch, driver
  <2> QED  BY <2>1 DEF ProbeType, ProbeGated, BooksBalance
<1> QED  BY <1>1, <1>2, <1>3, <1>4, <1>5, <1>6, <1>7 DEF NatNext, DriveProbe

LEMMA NatInvariant == NatSpec => []NatInv
<1>1. NatInit => NatInv
  <2> SUFFICES ASSUME NatInit PROVE NatInv
    OBVIOUS
  <2>1. GuardInv /\ pc = "new"
    BY InitGuardInv DEF NatInit, Init
  <2>2. ProbeType
    BY DEF NatInit, ProbeType, Outcomes
  <2>3. ProbeGated /\ BooksBalance
    BY <2>1 DEF NatInit, ProbeGated, BooksBalance, Total, Outcomes
  <2> QED  BY <2>1, <2>2, <2>3 DEF NatInv
<1>2. NatInv /\ [NatNext]_natVars => NatInv'
  <2>1. ASSUME NatInv, NatNext PROVE NatInv'
    BY <2>1, ProbeKeepsGuardInv, ProbeStep DEF NatInv
  <2>2. ASSUME NatInv, UNCHANGED natVars PROVE NatInv'
    <3>1. UNCHANGED vars /\ UNCHANGED <<pc, authorized, stop, watcher, counts, attempted, open>>
      BY <2>2 DEF natVars, vars, driver, probe
    <3>2. GuardInv'
      BY <2>2, <3>1, GuardStepInv DEF NatInv
    <3>3. ProbeType' /\ ProbeGated' /\ BooksBalance'
      BY <2>2, <3>1 DEF NatInv, ProbeType, ProbeGated, BooksBalance
    <3> QED  BY <3>2, <3>3 DEF NatInv
  <2> QED  BY <2>1, <2>2
<1> QED  BY <1>1, <1>2, PTL DEF NatSpec

(* Every attempt is counted under exactly one outcome, and the sessions    *)
(* held open are the ones reported as created.                             *)
THEOREM AttemptsBalanced == NatSpec => []AttemptsAccounted
<1>1. NatInv => AttemptsAccounted
  BY DEF NatInv, BooksBalance, AttemptsAccounted, Total, PhasePcs
<1> QED  BY NatInvariant, <1>1, PTL

(* No session is attempted without the statement and a budget within the   *)
(* caps of its mode.                                                       *)
THEOREM LoadIsAuthorized == NatSpec => []NoLoadWithoutAuthorization
<1>1. NatInv => NoLoadWithoutAuthorization
  BY DEF NatInv, GuardInv, Validated, ProbeGated, NoLoadWithoutAuthorization
<1> QED  BY NatInvariant, <1>1, PTL

(* The guard keeps its promises while the probe drives it and the watcher  *)
(* cancels it: the composition adds no behaviour that breaks them.         *)
THEOREM GuardKeptUnderProbe ==
  NatSpec => [](ValidMeansSteadyLink /\ AtMostOneLateTick /\ BreachEndsPhase
                /\ OverrunOnlyFromTicks)
<1>1. NatInv => ValidMeansSteadyLink
  BY SteadyWhenValid DEF NatInv
<1>2. NatInv => AtMostOneLateTick /\ BreachEndsPhase
  BY DEF NatInv, GuardInv, CancelSeen, AtMostOneLateTick, BreachSeen, BreachEndsPhase, PhasePcs
<1>3. NatInv => OverrunOnlyFromTicks
  BY DEF NatInv, GuardInv, ReportFollows, ClockKept, Published, OverrunOnlyFromTicks
<1> QED  BY NatInvariant, <1>1, <1>2, <1>3, PTL

=============================================================================

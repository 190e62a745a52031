----------------------------- MODULE LoadGuard ------------------------------
(***************************************************************************)
(* LoadGuard::run (load_guard/guard.rs): the thread that drives a load     *)
(* phase through its ramp, the background thread that samples the radio    *)
(* while it does, the operator who may cancel at any moment, and the       *)
(* verdict that decides whether a derived ratio may be published.          *)
(*                                                                         *)
(* The phase (a LoadPhase implementation), the radio and the interface     *)
(* counters are the environment: a tick, a snapshot or a counter reading   *)
(* is any member of a small set.  Time is counted in units of              *)
(* 1/UnitsPerSecond seconds and passes where the driving thread blocks: in *)
(* a tick and in the sleep that ends an iteration.                         *)
(***************************************************************************)
EXTENDS LoadBudget, Sequences, FiniteSets

CONSTANTS
  None,            \* Rust's Option::None
  Budgets,         \* the budgets a caller may ask for
  UnitsPerSecond,  \* the resolution of the model's clock
  SampleInterval,  \* LoadGuard::sample_interval, in clock units
  Radios,          \* what the full-detail radio source can read
  RadioFallback,   \* what a failed radio read is replaced by
  CounterReadings, \* what the interface counters can read
  Ticks,           \* what one call of LoadPhase::tick can do
  SyntheticModes,  \* the values radio_source_is_synthetic may have
  MaxSamples       \* bound: snapshots the radio thread takes in a run

ASSUME ClockAssumption ==
  /\ UnitsPerSecond \in Nat \ {0}
  /\ SampleInterval \in Nat \ {0}
  /\ MaxSamples \in Nat

ASSUME BudgetAssumption ==
  Budgets \subseteq [mode : RunModes, rate : Int, duration : Nat,
                     concurrency : Nat, ramp : Nat, maxLatency : Nat,
                     maxLoss : Nat]

-----------------------------------------------------------------------------
(* Radio snapshots (load_guard/radio.rs).                                  *)

RadioSnapshot == [associated : BOOLEAN, band : STRING \cup {None},
                  channel : Nat \cup {None}, rssi : Int \cup {None},
                  noise : Int \cup {None}]

Unavailable == [associated |-> FALSE, band |-> None, channel |-> None,
                rssi |-> None, noise |-> None]

(* What the cheap in-phase source reports of what the radio is doing.      *)
snapshot_fast(s) == [s EXCEPT !.rssi = None, !.noise = None]

association_fingerprint(s) ==
  IF s.associated THEN <<s.band, s.channel>> ELSE None

snr_db(s) == IF None \in {s.rssi, s.noise} THEN None ELSE s.rssi - s.noise

classify_rf(s) ==
  IF ~s.associated \/ s.rssi = None THEN "Unknown"
  ELSE IF s.rssi <= -75 THEN "Weak"
  ELSE IF snr_db(s) # None /\ snr_db(s) < 15 THEN "Unstable"
  ELSE "Strong"

ASSUME RadioAssumption ==
  /\ None \notin Int
  /\ None \notin (STRING \cup {None}) \X (Nat \cup {None})
  /\ Radios \subseteq RadioSnapshot
  /\ RadioFallback \in RadioSnapshot
  /\ SyntheticModes \subseteq BOOLEAN

(* Interface counters (load_guard/counters.rs), one number per direction.  *)
ZeroCounters == [rx |-> 0, tx |-> 0]

usable_delta_from(after, before) == \A d \in {"rx", "tx"} : after[d] >= before[d]

ASSUME CounterAssumption == CounterReadings \subseteq [rx : Nat, tx : Nat]

(* One call of LoadPhase::tick: how long it blocks, what it sent, and what *)
(* it observed of the endpoint, the gateway and the loss.                  *)
ASSUME TickAssumption ==
  Ticks \subseteq [took : Nat, bytes : Nat, endpointError : BOOLEAN,
                   latency : Nat \cup {None}, loss : Nat \cup {None}]

-----------------------------------------------------------------------------
VARIABLES
  pc,           \* the driving thread
  budget,       \* LoadGuard::budget
  synthetic,    \* LoadGuard::radio_source_is_synthetic
  cancel,       \* the operator's cancel flag
  before,       \* the radio snapshot and the counters before the phase
  step,         \* the ramp step being driven
  inStep,       \* step_start.elapsed()
  elapsed,      \* start.elapsed()
  bytes,        \* bytes_transferred
  stopReason,   \* stop_reason
  radioPc,      \* the radio thread
  radioStop,    \* radio_thread_stop
  held,         \* the snapshot the radio thread took and has not pushed
  during,       \* during_radio
  report,       \* the GuardReport, once there is one
  (* What happened, whether or not the code recorded it:                   *)
  drawn,        \* every snapshot any thread obtained
  unmeasured,   \* some snapshot did not come from the radio
  blocked,      \* time spent inside ticks
  lateTicks,    \* ticks started after the operator cancelled
  breached      \* a tick has reported something a threshold forbids

driver  == <<pc, budget, synthetic, before, step, inStep, elapsed, bytes,
             stopReason, report>>
sampler == <<radioPc, radioStop, held, during>>
ghosts  == <<drawn, unmeasured, blocked, lateTicks, breached>>
vars    == <<driver, sampler, cancel, ghosts>>

stepDuration == (UnitsPerSecond * phase_seconds(budget)) \div budget.ramp

Init ==
  /\ pc = "new"
  /\ budget \in Budgets
  /\ synthetic \in SyntheticModes
  /\ cancel = FALSE
  /\ before = None
  /\ step = 0 /\ inStep = 0 /\ elapsed = 0 /\ bytes = 0
  /\ stopReason = "Completed"
  /\ radioPc = "unborn" /\ radioStop = FALSE /\ held = None /\ during = <<>>
  /\ report = None
  /\ drawn = {} /\ unmeasured = FALSE
  /\ blocked = 0 /\ lateTicks = 0 /\ breached = FALSE

(* The operator's SIGINT handler stores the cancel flag at any moment.     *)
OperatorCancel ==
  /\ ~cancel
  /\ pc \notin {"done", "refused"}
  /\ cancel' = TRUE
  /\ UNCHANGED <<driver, sampler, ghosts>>

(* RadioSource::sample: what the source reads, or its fallback.  Under     *)
(* synthetic sources nothing that is returned was measured.                *)
SampleRadio(s, ok) ==
  /\ IF ok THEN s \in Radios ELSE s = RadioFallback
  /\ unmeasured' = (unmeasured \/ synthetic \/ ~ok)

(* CounterSource::sample: a failed read becomes all zeros.                 *)
CounterSamples == CounterReadings \cup {ZeroCounters}

(* LoadGuard::new refuses a budget that does not validate.                 *)
New ==
  /\ pc = "new"
  /\ pc' = IF validate(budget) = "Ok" THEN "before" ELSE "refused"
  /\ UNCHANGED <<budget, synthetic, before, step, inStep, elapsed, bytes,
                 stopReason, report, sampler, cancel, ghosts>>

(* The snapshots before the phase, the start of the radio thread and of    *)
(* the clock.                                                              *)
Begin ==
  /\ pc = "before"
  /\ \E s \in Radios \cup {RadioFallback}, c \in CounterSamples, ok \in BOOLEAN :
       /\ SampleRadio(s, ok)
       /\ before' = [radio |-> s, counters |-> c]
       /\ drawn' = {s}
  /\ radioPc' = "top"
  /\ step' = 1
  /\ pc' = "loop"
  /\ UNCHANGED <<budget, synthetic, inStep, elapsed, bytes, stopReason, report,
                 radioStop, held, during, cancel, blocked, lateTicks, breached>>

-----------------------------------------------------------------------------
(* The phase loop.                                                         *)

(* Leave the phase loop with a stop reason.                                *)
Stop(reason) ==
  /\ stopReason' = reason
  /\ pc' = "ended"

(* The head of an iteration: the step may be over, the operator may have   *)
(* cancelled.                                                              *)
NextStep ==
  /\ pc = "loop"
  /\ inStep >= stepDuration
  /\ step' = step + 1
  /\ inStep' = 0
  /\ pc' = IF step < Len(ramp_schedule(budget)) THEN "loop" ELSE "ended"
  /\ UNCHANGED <<budget, synthetic, before, elapsed, bytes, stopReason, report,
                 sampler, cancel, ghosts>>

(* Mutant: the flag is looked at only at the start of a step.              *)
CheckCancelOncePerStep ==
  /\ pc = "loop"
  /\ inStep < stepDuration
  /\ IF cancel /\ inStep = 0 THEN Stop("OperatorCancelled")
                             ELSE pc' = "tick" /\ UNCHANGED stopReason
  /\ UNCHANGED <<budget, synthetic, before, step, inStep, elapsed, bytes, report,
                 sampler, cancel, ghosts>>

CheckCancel ==
  /\ pc = "loop"
  /\ inStep < stepDuration
  /\ IF cancel THEN Stop("OperatorCancelled")
               ELSE pc' = "tick" /\ UNCHANGED stopReason
  /\ UNCHANGED <<budget, synthetic, before, step, inStep, elapsed, bytes, report,
                 sampler, cancel, ghosts>>

(* Mutant: loss is never compared with its threshold.                      *)
tickVerdictNoLoss(t) ==
  IF t.endpointError THEN "AbortEndpointError"
  ELSE IF t.latency # None /\ t.latency > budget.maxLatency THEN "AbortGatewayLatency"
  ELSE "Continue"

(* What the thresholds make of a tick, in the order the code asks.         *)
tickVerdict(t) ==
  IF t.endpointError THEN "AbortEndpointError"
  ELSE IF t.latency # None /\ t.latency > budget.maxLatency THEN "AbortGatewayLatency"
  ELSE IF t.loss # None /\ t.loss > budget.maxLoss THEN "AbortLoss"
  ELSE "Continue"

Tick(t) ==
  /\ pc = "tick"
  /\ bytes' = bytes + t.bytes
  /\ inStep' = inStep + t.took
  /\ elapsed' = elapsed + t.took
  /\ blocked' = blocked + t.took
  /\ lateTicks' = IF cancel THEN lateTicks + 1 ELSE lateTicks
  /\ breached' = (\/ breached
                  \/ t.endpointError
                  \/ t.latency # None /\ t.latency > budget.maxLatency
                  \/ t.loss # None /\ t.loss > budget.maxLoss)
  /\ IF tickVerdict(t) = "Continue"
     THEN pc' = "association" /\ UNCHANGED stopReason
     ELSE Stop(tickVerdict(t))
  /\ UNCHANGED <<budget, synthetic, before, step, report, sampler, cancel,
                 drawn, unmeasured>>

(* Only the latest in-phase snapshot is compared with the baseline.        *)
CheckAssociation ==
  /\ pc = "association"
  /\ IF /\ during # <<>>
        /\ association_fingerprint(during[Len(during)])
             # association_fingerprint(before.radio)
     THEN Stop("AbortAssociationChange")
     ELSE pc' = "sleep" /\ UNCHANGED stopReason
  /\ UNCHANGED <<budget, synthetic, before, step, inStep, elapsed, bytes, report,
                 sampler, cancel, ghosts>>

(* Mutant: the flat sleep the code's comment warns of.                     *)
sleepForFlat == SampleInterval

(* min(sample_interval, what remains of the step)                          *)
sleepFor ==
  IF SampleInterval < stepDuration - inStep THEN SampleInterval
                                            ELSE stepDuration - inStep

(* The end of an iteration.  With nothing left of the step the `break`     *)
(* goes to the next one, as the loop head would.                           *)
Sleep ==
  /\ pc = "sleep"
  /\ LET slept == IF inStep < stepDuration THEN sleepFor ELSE 0
     IN  /\ inStep' = inStep + slept
         /\ elapsed' = elapsed + slept
  /\ pc' = "loop"
  /\ UNCHANGED <<budget, synthetic, before, step, bytes, stopReason, report,
                 sampler, cancel, ghosts>>

-----------------------------------------------------------------------------
(* The radio thread.                                                       *)

(* The loop head, before the sleep.                                        *)
RadioTop ==
  /\ radioPc = "top"
  /\ radioPc' = IF radioStop THEN "exited" ELSE "asleep"
  /\ UNCHANGED <<driver, radioStop, held, during, cancel, ghosts>>

(* Waking up: the flag is read again before the radio is.                  *)
RadioWake ==
  /\ radioPc = "asleep"
  /\ IF radioStop
     THEN radioPc' = "exited"
     ELSE Len(during) < MaxSamples /\ radioPc' = "sampling"
  /\ UNCHANGED <<driver, radioStop, held, during, cancel, ghosts>>

RadioSample ==
  /\ radioPc = "sampling"
  /\ \E s \in Radios \cup {RadioFallback}, ok \in BOOLEAN :
       /\ SampleRadio(s, ok)
       /\ held' = IF ok THEN snapshot_fast(s) ELSE s
  /\ drawn' = drawn \cup {held'}
  /\ radioPc' = "push"
  /\ UNCHANGED <<driver, radioStop, during, cancel, blocked, lateTicks, breached>>

(* Mutant: the slot is cleared before it is pushed.                        *)
RadioPushCleared ==
  /\ radioPc = "push"
  /\ held' = None
  /\ during' = Append(during, held')
  /\ radioPc' = "top"
  /\ UNCHANGED <<driver, radioStop, cancel, ghosts>>

RadioPush ==
  /\ radioPc = "push"
  /\ during' = Append(during, held)
  /\ held' = None
  /\ radioPc' = "top"
  /\ UNCHANGED <<driver, radioStop, cancel, ghosts>>

-----------------------------------------------------------------------------
(* After the phase: stop the radio thread, join it, take the last          *)
(* snapshots and judge.                                                    *)

(* Mutant: the thread is joined without being told to stop.                *)
StopRadioUnsignalled ==
  /\ pc = "ended"
  /\ pc' = "join"
  /\ UNCHANGED <<budget, synthetic, before, step, inStep, elapsed, bytes,
                 stopReason, report, sampler, cancel, ghosts>>

StopRadio ==
  /\ pc = "ended"
  /\ radioStop' = TRUE
  /\ pc' = "join"
  /\ UNCHANGED <<budget, synthetic, before, step, inStep, elapsed, bytes,
                 stopReason, report, radioPc, held, during, cancel, ghosts>>

(* Mutant: the timeline is collected while the thread may still push.      *)
JoinWithoutWaiting ==
  /\ pc = "join"
  /\ pc' = "after"
  /\ UNCHANGED <<budget, synthetic, before, step, inStep, elapsed, bytes,
                 stopReason, report, sampler, cancel, ghosts>>

Join ==
  /\ pc = "join"
  /\ radioPc = "exited"
  /\ pc' = "after"
  /\ UNCHANGED <<budget, synthetic, before, step, inStep, elapsed, bytes,
                 stopReason, report, sampler, cancel, ghosts>>

(* RadioTimeline::roamed and ::weakest_rf over before, during, after.      *)
Range(s) == {s[i] : i \in DOMAIN s}

roamed(b, d, a) ==
  \E s \in Range(d) \cup {a} :
    association_fingerprint(s) # association_fingerprint(b)

band_changed(b, d, a) == \E s \in Range(d) \cup {a} : s.band # b.band

RfKey == [Strong |-> 0, Unknown |-> 1, Unstable |-> 2, Weak |-> 3]

weakest_rf(b, d, a) ==
  LET rf == {classify_rf(s) : s \in Range(d) \cup {a, b}}
  IN  CHOOSE q \in rf : \A r \in rf : RfKey[r] <= RfKey[q]

(* Only a phase that ran to completion is held to its budget.              *)
durationExceeded ==
  /\ stopReason = "Completed"
  /\ budget.duration > 0
  /\ 4 * elapsed > 5 * budget.duration * UnitsPerSecond

targetUndershoot ==
  /\ stopReason = "Completed"
  /\ target_bytes(budget) > 0
  /\ 10 * bytes < target_bytes(budget)

(* Mutant: an unavailable radio is only a roam if it comes and goes.       *)
validityUnavailableOk(b, d, a, usable) ==
  IF roamed(b, d, a)                    THEN "Roamed"
  ELSE IF ~usable                       THEN "CountersUnusable"
  ELSE IF durationExceeded              THEN "PhaseDurationExceeded"
  ELSE IF targetUndershoot              THEN "PhaseTargetUndershoot"
  ELSE IF weakest_rf(b, d, a) = "Weak"  THEN "WeakRf"
  ELSE IF weakest_rf(b, d, a) = "Unstable" THEN "UnstableRf"
  ELSE IF synthetic                     THEN "SyntheticRadioSource"
  ELSE "Valid"

(* The validity cascade: the first reason that applies.                    *)
validity(b, d, a, usable) ==
  IF ~b.associated \/ ~a.associated     THEN "RadioUnavailable"
  ELSE IF roamed(b, d, a)               THEN "Roamed"
  ELSE IF band_changed(b, d, a)         THEN "BandChanged"
  ELSE IF ~usable                       THEN "CountersUnusable"
  ELSE IF durationExceeded              THEN "PhaseDurationExceeded"
  ELSE IF targetUndershoot              THEN "PhaseTargetUndershoot"
  ELSE IF weakest_rf(b, d, a) = "Weak"  THEN "WeakRf"
  ELSE IF weakest_rf(b, d, a) = "Unstable" THEN "UnstableRf"
  ELSE IF synthetic                     THEN "SyntheticRadioSource"
  ELSE "Valid"

(* Mutant: the ratio is computed whatever the verdict.                     *)
derivedAnyway(v, sent, target) == IF target = 0 THEN None ELSE <<sent, target>>

(* compute_derived_ratio: bytes over target bytes, or nothing.             *)
compute_derived_ratio(v, sent, target) ==
  IF v # "Valid" \/ target = 0 THEN None ELSE <<sent, target>>

Conclude ==
  /\ pc = "after"
  /\ \E s \in Radios \cup {RadioFallback}, c \in CounterSamples, ok \in BOOLEAN :
       /\ SampleRadio(s, ok)
       /\ drawn' = drawn \cup {s}
       /\ LET usable == usable_delta_from(c, before.counters)
              v == validity(before.radio, during, s, usable)
          IN  report' = [stopReason |-> stopReason, validity |-> v,
                         usable |-> usable, after |-> s,
                         source |-> IF synthetic THEN "synthetic" ELSE "live",
                         derived |-> compute_derived_ratio(v, bytes,
                                                           target_bytes(budget))]
  /\ pc' = "done"
  /\ UNCHANGED <<budget, synthetic, before, step, inStep, elapsed, bytes,
                 stopReason, sampler, cancel, blocked, lateTicks, breached>>

Drive == \/ New \/ Begin \/ NextStep \/ CheckCancel \/ (\E t \in Ticks : Tick(t))
         \/ CheckAssociation \/ Sleep \/ StopRadio \/ Join \/ Conclude

RadioThread == RadioTop \/ RadioWake \/ RadioSample \/ RadioPush

(* A finished or refused run takes no further step of its own.             *)
Finished ==
  /\ pc \in {"done", "refused"}
  /\ UNCHANGED vars

Next == Drive \/ RadioThread \/ OperatorCancel \/ Finished

(* Both threads are scheduled; the operator need not ever cancel.          *)
Spec == Init /\ [][Next]_vars /\ WF_vars(Drive) /\ WF_vars(RadioThread)
-----------------------------------------------------------------------------
(* Properties.                                                             *)

PhasePcs == {"loop", "tick", "association", "sleep"}

(* Every variable has the type the code gives it.                          *)
TypeOK ==
  /\ pc \in {"new", "refused", "before", "ended", "join", "after", "done"}
            \cup PhasePcs
  /\ budget \in Budgets
  /\ synthetic \in BOOLEAN /\ cancel \in BOOLEAN
  /\ pc \in {"new", "refused", "before"}
     \/ before \in [radio : RadioSnapshot, counters : [rx : Nat, tx : Nat]]
  /\ step \in Nat /\ inStep \in Nat /\ elapsed \in Nat /\ bytes \in Nat
  /\ stopReason \in {"Completed", "OperatorCancelled", "AbortEndpointError",
                     "AbortGatewayLatency", "AbortLoss", "AbortAssociationChange"}
  /\ radioPc \in {"unborn", "top", "asleep", "sampling", "push", "exited"}
  /\ radioStop \in BOOLEAN
  /\ radioPc = "push" => held \in RadioSnapshot
  /\ during \in Seq(RadioSnapshot)
  /\ drawn \subseteq RadioSnapshot
  /\ unmeasured \in BOOLEAN /\ breached \in BOOLEAN
  /\ blocked \in Nat /\ lateTicks \in Nat

Published == report # None

(* A run is Valid only if every snapshot either thread ever obtained, the  *)
(* one in the radio thread's hands when the phase ended included, shows    *)
(* the baseline association on a usable signal (guard.rs 445-533).         *)
ValidMeansSteadyLink ==
  Published /\ report.validity = "Valid" =>
    \A s \in drawn :
      /\ s.associated
      /\ association_fingerprint(s) = association_fingerprint(before.radio)
      /\ classify_rf(s) \notin {"Weak", "Unstable"}

(* A ratio is published only if every radio snapshot behind it was read    *)
(* from the radio: "fabricated radio state cannot support" a conclusion    *)
(* (guard.rs 521-530), neither declared synthetic nor substituted for a    *)
(* failed read.                                                            *)
DerivedIsMeasured == Published /\ report.derived # None => ~unmeasured

(* After the operator cancelled, at most the one tick that had already     *)
(* passed the check is still started (guard.rs 414-420).                   *)
AtMostOneLateTick == lateTicks <= 1

(* Once a tick reported an endpoint error, or a latency or loss above the  *)
(* budget's threshold, no further load is offered and the report names it. *)
BreachEndsPhase ==
  breached => /\ pc \notin PhasePcs
              /\ stopReason \in {"AbortEndpointError", "AbortGatewayLatency",
                                 "AbortLoss"}

(* A completed phase fills its schedule, and overruns it by no more than   *)
(* the time its ticks blocked: the guard's own sleeping never makes a      *)
(* healthy run look too long (guard.rs 455-467).                           *)
OverrunOnlyFromTicks ==
  Published /\ report.stopReason = "Completed" =>
    /\ elapsed >= budget.ramp * stepDuration
    /\ elapsed <= budget.ramp * stepDuration + blocked

(* No tick is offered a rate above the cap of the budget's mode, whatever  *)
(* ramp step it belongs to (budget.rs 115-150).                            *)
RateWithinCap ==
  pc = "tick" =>
    /\ step \in DOMAIN ramp_schedule(budget)
    /\ ramp_schedule(budget)[step] <= budget.ramp * caps(budget.mode).rate
    /\ budget.concurrency <= caps(budget.mode).concurrency

(* Every run ends in a report or in a refusal: no thread waits for ever.   *)
EveryRunReports == <>(pc \in {"done", "refused"})

-----------------------------------------------------------------------------
(* What the guard promises, stated apart from how it keeps it.             *)

heldSteady ==
  \A s \in drawn :
    /\ s.associated
    /\ association_fingerprint(s) = association_fingerprint(before.radio)

gatePhase ==
  CASE pc \in {"new", "before"}          -> "idle"
    [] pc \in PhasePcs                   -> "loading"
    [] pc \in {"ended", "join", "after"} -> "settling"
    [] pc \in {"done", "refused"}        -> "published"

ratioPublished == Published /\ report.derived # None

Gate == INSTANCE EvidenceGate WITH
          phase <- gatePhase, clean <- heldSteady, figure <- ratioPublished

(* The guard implements EvidenceGate: a figure comes out only at the end   *)
(* and only if nothing observed on the way spoke against it.               *)
ImplementsEvidenceGate == Gate!Spec

=============================================================================

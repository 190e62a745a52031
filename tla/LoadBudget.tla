----------------------------- MODULE LoadBudget -----------------------------
(***************************************************************************)
(* The mandatory budget of a load phase (load_guard/budget.rs): what a     *)
(* caller asks for, the caps of the two run modes, the validation that     *)
(* refuses a budget, and the ramp the guard drives.                        *)
(*                                                                         *)
(* A budget is a record                                                    *)
(*   [mode, rate, duration, concurrency, ramp, maxLatency, maxLoss]        *)
(* with the rate in Mbit/s, the duration in seconds, the latency bound in  *)
(* ms and the loss bound in percent.  Byte volumes are counted in the      *)
(* volume one Mbit/s moves in one second (125000 bytes).                   *)
(***************************************************************************)
EXTENDS Integers

RunModes == {"LiveEvent", "Maintenance"}

Modes == [LiveEvent   |-> [rate |-> 50,   duration |-> 30,  concurrency |-> 2,
                           latency |-> 50,  loss |-> 2],
          Maintenance |-> [rate |-> 1000, duration |-> 300, concurrency |-> 16,
                           latency |-> 200, loss |-> 10]]

caps(mode) == Modes[mode]

(* LoadBudget::live_event and LoadBudget::maintenance, followed by the     *)
(* command line's own `budget.ramp_steps = args.ramp_steps`.               *)
NewBudget(mode, rate, duration, concurrency, ramp) ==
  [mode |-> mode, rate |-> rate, duration |-> duration,
   concurrency |-> concurrency, ramp |-> ramp,
   maxLatency |-> Modes[mode].latency, maxLoss |-> Modes[mode].loss]

(* Mutant: the rate is not compared with its cap.                          *)
validateNoRate(b) ==
  CASE b.duration > caps(b.mode).duration       -> "DurationExceedsCap"
    [] b.duration <= caps(b.mode).duration
       /\ b.concurrency > caps(b.mode).concurrency -> "ConcurrencyExceedsCap"
    [] b.duration <= caps(b.mode).duration
       /\ b.concurrency <= caps(b.mode).concurrency
       /\ b.ramp = 0                            -> "ZeroRamp"
    [] OTHER                                    -> "Ok"

(* LoadBudget::validate: the first violated bound, in the code's order.    *)
validate(b) ==
  CASE b.rate > caps(b.mode).rate               -> "RateExceedsCap"
    [] b.rate <= caps(b.mode).rate
       /\ b.duration > caps(b.mode).duration    -> "DurationExceedsCap"
    [] b.rate <= caps(b.mode).rate
       /\ b.duration <= caps(b.mode).duration
       /\ b.concurrency > caps(b.mode).concurrency -> "ConcurrencyExceedsCap"
    [] b.rate <= caps(b.mode).rate
       /\ b.duration <= caps(b.mode).duration
       /\ b.concurrency <= caps(b.mode).concurrency
       /\ b.ramp = 0                            -> "ZeroRamp"
    [] OTHER                                    -> "Ok"

(* LoadBudget::ramp_schedule: step k of b.ramp runs at rate * k / b.ramp.  *)
(* Rates are compared as fractions, so the schedule is given by numerators *)
(* over the common denominator b.ramp.                                     *)
ramp_schedule(b) == [k \in 1 .. b.ramp |-> b.rate * k]

(* The byte volume the budget asks for.  The cast to u64 clamps at zero.   *)
target_bytes(b) == IF b.rate * b.duration > 0 THEN b.rate * b.duration ELSE 0

(* A phase always runs for at least a second, whatever the budget says.    *)
phase_seconds(b) == IF b.duration > 1 THEN b.duration ELSE 1
=============================================================================

# TLA+ verification of FragglePacket

FragglePacket is a Rust network-diagnostics suite (a library, a CLI with 79
subcommands, a terminal UI, a desktop UI).  Its design rule is that *a figure
that cannot be substantiated is withheld*.  This project models the parts of the
code in which that rule, or a safety limit on the load the tool puts on somebody
else's network, depends on the order of steps of several threads, processes or
hosts; it model-checks them with TLC and proves the central properties with
TLAPS for every value of the constants.

Paths below are relative to the repository root.

## 1. Inventory

| Part | State | Operations | Hard because | What makes it correct |
| --- | --- | --- | --- | --- |
| load budget (`src/load_guard/budget.rs`) | a record | `validate`, `ramp_schedule` | boundary values | nothing above a mode's cap is ever driven |
| load guard (`src/load_guard/guard.rs`, `radio.rs`, `counters.rs`) | ramp position, clock, byte count, stop reason, radio timeline, two atomic flags | `new`, `run` (driving thread, radio thread), `compute_derived_ratio` | two threads and an operator's SIGINT; reads that fail; a snapshot in flight when the phase ends | a ratio only from evidence that held throughout; load stops on a breach or a cancel; the report always comes |
| fleet fanout (`src/network_tests/fleet_orchestrator.rs`) | an atomic permit counter, results behind a mutex, a channel per runner | `validate`, `run_fleet_fanout`, `summarize_fleet_run` | load / compare-exchange race, timeout against late answer, runner panic | permits are conserved, every test node answered once, the bastion never |
| identity salts (`src/load_guard/ap_identity.rs`, the same algorithm in the fleet orchestrator) | a file, a process-local mutex | `load_or_create_salt` | create and write are two steps; crash between them; several processes | one salt for ever |
| listener leases (`src/network_tests/listener_lease.rs`) | the set of leased ports | `lease`, `lease_specific`, `Drop` | cap and search must be one step | one session per listener, never above the cap |
| listener admission (`src/network_tests/listener_admission.rs`) | a barrier, a reference instant, a channel per session | `run_admission_fanout`, `AdmissionCohort` | barrier, skew against whichever thread locked first, timeout against late reply | a figure only from a fully admitted session |
| NAT session-rate probe (`src/network_tests/nat_capacity.rs`) | counts per outcome, open sockets, stop flag | `require_authorization`, `run_session_rate_probe`, its phase and its watcher thread | three threads and two flags on top of the guard | no load without authorization, every attempt accounted, pushback cancels |
| TUI updates (`src/bin/tui/app.rs`) | an mpsc channel that `r` replaces, results, testing flag, verdict | `start_testing`, `retest_target`, `run_tracepath`, `process_test_updates` | overlapping jobs on one or several channels | results before the verdict, runs end |
| desktop application (`src/bin/desktop`) and test framework (`src/framework`) | flags that disable buttons, a bounded channel and a forwarder per run, the coroutine's queue, results, history | start, stop, generate, clear, report, change of panel; the task, the forwarder, the coroutine | futures die with their panel; the flag is set by the coroutine, later than the click; a cancel flag that the next start resets | a history entry holds its run; a run is seen to its end |
| evidence engines (`freshness.rs`, `corroboration.rs`, `coverage.rs`, `run_confidence.rs`, `clock_guard.rs`, `counter_liveness.rs`, `counter_deltas.rs`, `radio_diagnostic.rs`) | none | pure verdicts | thresholds, missing and non-finite inputs, counters that froze or were reset | no claim from a missing figure |
| load matrices and throughput (`size_rate_matrix.rs`, `flow_dscp_matrix.rs`, `capacity_knee.rs`, `throughput_tuner.rs`, `bufferbloat.rs`, `iperf*.rs`, `probe_rate.rs`, `upload_sweep.rs`) | accumulated points | phases and conclusions | points lost or run in random order | the conclusion is that of the sorted, complete sweep |
| streams (`burst_analysis.rs`, `media_quality.rs`, `packet_loss.rs`, `rtt.rs`) | the echoes in arrival order | bursts, reordering, MOS, loss pattern | late, repeated, reversed echoes; runs at the end of the sample | bursts are the maximal runs lost |
| comparators and controls (`circuit_workflow.rs`, `resilience.rs`, `roaming.rs`, `site_ab.rs`, `wired_control.rs`, `multiclient_fairness.rs`, `process_model.rs`, ...) | ingested observations | refusals, attributions | a side that is missing | an attribution needs both sides |
| path and packet tests (`mtu.rs`, `mss_evidence.rs`, `pmtu_evidence.rs`, `provider_path.rs`, `dns_steering.rs`, `stun.rs`, `ecn_aqm.rs`, `ipv6_validation.rs`, `protocol_compare.rs`, `pcap_report.rs`, `capture.rs`) | trials, hops, datagrams | searches, parsing, verdicts | a late answer read for a later request, silence, boundaries | a figure is the answer to its own question |
| diagnosis engine and NOC metrics (`src/diagnosis`, `src/noc_metrics`) | open thresholds | rules, ranking, windows, hysteresis | rule order, missing results | the worst finding first; no flapping |
| command line (`src/cli`) | none | `dispatch`, a `run` per command | refusals before and after measuring | see `Investigations` |
| probes (`src/probe`), other network tests, fuzzing, UI bridge, redaction | sockets, files, text | I/O, parsing, printing | | see section 7 |

How they interact: every load-generating command builds a `LoadBudget`, wraps its
phase in a `LoadGuard` and hands it radio and counter sources and a cancel flag;
the NAT probe puts its own watcher between its phase and that flag.  The fanouts
take a closure that reaches the node or the listener.  The UIs start worker
threads that send updates through a channel to the event loop.  The commands
gather measurements with external tools, one after the other, and hand them to a
library function that draws the verdict.

The hazards this list leads to are in `PROJECT.json`, each at its line and with
the properties that would catch it; behaviours the code simply has, and no
property could exclude, are in section 5.

## 2. Modules

| Module | Models | Notes |
| --- | --- | --- |
| `LoadBudget` | `LoadBudget`, its caps, `validate`, `ramp_schedule` | operators only |
| `LoadGuard` | `LoadGuard::run`: driving thread, radio thread, operator | `EXTENDS LoadBudget` |
| `EvidenceGate` | what a guarded phase promises | abstract; refined by `LoadGuard` |
| `NatProbe` | `run_session_rate_probe` | `EXTENDS LoadGuard`: the composition of probe, watcher and guard |
| `PermitPool` | a bounded set of holders | abstract; refined by `FleetFanout` and by `ListenerPool` |
| `FleetFanout` | `run_fleet_fanout` | |
| `ListenerPool` | `ListenerPool`, `ListenerLease` | |
| `SaltFile` | `load_or_create_salt` over threads, processes, crashes | |
| `AdmissionFanout` | `run_admission_fanout`, `AdmissionCohort` | |
| `TuiUpdates` | the TUI's jobs and update channel | |
| `DesktopRuns` | runs of the desktop application, from the click to the history | |
| `Evidence` | conventions: missing figures, outcomes of a command | operators only |
| `LoadVerdicts`, `ThroughputVerdicts` | load matrices, knee, DSCP; tuner, bufferbloat, iperf summaries, rate limits | operators only |
| `StreamVerdicts` | bursts, reordering, loss patterns, media quality | operators only |
| `Comparators`, `Controls` | comparisons of ingested observations; matched controls | operators only |
| `EvidenceVerdicts` | freshness, corroboration, coverage, clocks, counters, radio sources | operators only |
| `PathVerdicts`, `PacketVerdicts` | MTU, MSS, hops, resolvers; STUN, ECN, IPv6, captures | operators only |
| `Diagnosis` | rules, ranking, thresholds, the commands built on them | operators only |
| `Investigations` | the command line as a machine: gather, then report | `EXTENDS` the eight above |
| `InvestigationTerms` | the terms of `Investigations_proofs`: its inductive invariant and its loop invariants | `EXTENDS Investigations`; operators only |
| `*_proofs` | theorems about `LoadGuard` (with `NatProbe`), `FleetFanout`, `ListenerPool`, `SaltFile`, `AdmissionFanout`, `TuiUpdates`, `DesktopRuns`, `Investigations` | |
| `MC*` | small instances for TLC | |

An action is one step between two points at which another thread can observe or
disturb the state: a lock, an atomic access, a channel operation, a blocking
call.  Names follow the source.  `PROJECT.json` maps every definition to the
lines it stands for.  A definition preceded by a comment that begins with
"Mutant" is a plausible bug used to confirm that a property can fail; no
specification refers to it.

**LoadGuard.**  `pc` is the position of `run`; `Tick`, `CheckAssociation`,
`Sleep` are the pieces of the loop body in the code's order; `RadioTop`,
`RadioWake`, `RadioSample`, `RadioPush` are the radio thread's, split where it
reads the stop flag, calls the source and takes the mutex.  Time is counted in
fractions of a second and passes inside a tick and in the loop's sleep.  A radio
snapshot keeps the fields the code decides on: association, band, channel (which
stands for channel and width, always compared together), RSSI, noise.  Byte
volumes are in units of what one Mbit/s moves in a second; ratios are compared
by cross-multiplication, so 1.25 and 0.10 are exact.  History variables
(`drawn`, `unmeasured`, `blocked`, `lateTicks`, `breached`) record what really
happened; no action reads them.

**NatProbe** reuses every guard action; its `SessionTick` is the guard's `Tick`
with the outcome of one connect, and `Watch` is the only writer of `cancel`.

**FleetFanout.**  `Load` and `CompareExchange` are separate steps, as in the
code.  A runner may succeed, fail, panic (its sender is dropped, which the worker
reports like a timeout) or hang; `Expire` may win against a runner that is about
to answer.

**SaltFile.**  The file is absent, empty or holds a salt; a salt is named after
the thread that generated it.  Processes run when they please and share only the
file; one may be killed at any step, and every call on the file, the directory or
the entropy source may fail.  `raced`, which no action reads, records that a call
found the file empty while another process was about to write it: `SaltIsForever`
holds up to that point and not after it (section 5).  The 32-byte write is taken
to be not torn, nobody deletes the file ("until the salt file is deleted"), and
the lock is not poisoned, nothing under it being able to panic.

**AdmissionFanout** keeps a bounded clock for release instants and skew; a reply
is whether the server reported an error, how many streams connected and the
receiver's rate, if any.  A session may answer after the safety timeout, to a
channel nobody reads; `inTime`, which no action reads, records who answered while
the thread still waited.

**TuiUpdates.**  Channels are numbered; an update for a replaced channel is lost.
A job is a run of all targets or a retest of one.  Updates that only move the
progress bar or a log line are left out.  The `s` key writes a report and changes
nothing.

**DesktopRuns.**  A run is a task, a channel of bounded capacity and a forwarder
that belongs to the panel it was started from.  `SwitchPanel` drops the futures
of the panel that is left, the receiving end of the channel with them; the task
goes on and its sends fail.  `Handle` is the coroutine, the only writer of the
shared state apart from the buttons themselves.  The panels that start runs in
the same way are one panel here.  A run from a test panel is for any selection of
categories in `Selections`, one from the fuzzing panel for its own category; its
tests (`tests_of`) come in any order of these categories, which the code takes out
of a `HashSet`, and in order of registration within one (`run_orders`).  What a test finds is left out, its result's run,
name and status are kept.

**Investigations.**  `command` and `ready` are chosen at the start; `Gather`
appends the next measurement, any of those in `Measurements`, lost ones among
them; `Report` is the whole command after its tools have run, `dispatch`.  The
engines are operators over records that keep the fields the code decides on.
Rates are integers and ratios are compared by cross-multiplication; a missing
`Option` is `Missing`.  The text of a tool's output is abstracted to the fields
the parser takes from it, a line that the parser would not recognise being a
lost measurement.  `Shapes` gives, for the commands whose engines are
proved about, the fields of each measurement and the sets, infinite ones too,
that they range over; a command that takes any number of samples has a shape of
any length.  `MeasurementsAssumption` says that an instance keeps to it, and
`CommandsAssumption` that its commands are commands of the program.  A clean
site-ab sample has a positive rate: `run_leg` gives one only to a body of at least
`MIN_VALID_TRANSFER_BYTES`.  `iter().filter().collect()` is `Keep`, a stable
`sort_by` is `SortedBy`, `sum()` is `Total` (all in `Evidence`), written with the
rank of an element rather than by recursion so that they can be reasoned about.
No module here declares a RECURSIVE operator.

## 3. Runs

| Run | Instance | Shows |
| --- | --- | --- |
| `guard` | 5 budgets (one accepted, four refused for different reasons), 4 radio readings, 5 ticks on both sides of each threshold, 2 in-phase samples, 2 ramp steps of 3 units with a 2-unit sleep | a Valid verdict means a steady link; a published ratio rests on real radio reads only; at most one tick after a cancel; a breach ends the phase; the guard's own sleep never overruns the ramp; no rate above the cap; refinement of `EvidenceGate` |
| `guard_cli_radio` | the source the `load-guard` command installs | violated: a failed radio read is replaced by a fabricated strong snapshot |
| `nat` | one-step connects and connects that time out past the step, a zero-second budget, an over-cap budget, with and without authorization | attempts accounted, no unauthorized load, pushback reaches the guard, every run ends |
| `fleet` | three test nodes, a bastion, two permits | permits conserved, refinement of `PermitPool`, each test node answered once, the fanout returns |
| `fleet_bound` | the same | violated: a timed-out runner outlives its permit |
| `salt` | two processes of two threads each, that overlap or follow one another, crash or failure anywhere | one salt for ever unless the processes raced for an empty file; every call ends |
| `pool` | three sessions, cap two, three listeners, an unauthorized port | one session per listener, refinement of `PermitPool` |
| `admission` | two targets, all kinds of reply, a clock of three ticks | nobody starts before the barrier, skew exclusions are true, figures only from full answers in time, the fanout returns |
| `tui` | two targets, two jobs, two tracepaths, three kinds of operator | results and verdict complete when a run is over, overlapping runs end, a tracepath's completion is its own |
| `desktop` | two runs of either kind, two tests of two categories of which one needs root, a channel of one, a history of one, main and detached window | history entries are complete; the buttons stay disabled for good only when a forwarder or a report was lost; a run whose forwarder lives is seen to its end |
| `verdicts` | 62 commands, each with the combinations of one to nine measurements from small sets on both sides of every threshold | see below |
| `diagnosis_order` | the evidence of the diagnosis rules | violated: the least severe finding is ranked first |

`verdicts` checks three families of statements, each a conjunction of named
parts.  `LosingEvidenceOnlyWithholds` is about the 21 commands whose reports claim
something that missing evidence should withhold (`PromisingCommands`, `claims`);
the other 41 report what they measured.  It has two halves.  A loss in `LostForms`
leaves the set of claims the same or smaller.  A loss in `Unnoticed` is one that
the code fills in without saying so; it may add a claim, and the half says which:
exactly those of the figure that stands in.  What neither set holds is in section 5.
`AgreesWithReference`: bursts, reordering, loss
pattern, MTU search, knee, threshold hysteresis, lost sessions, circuit digest
(the order of ingestion matters only among phases of one state) and corroboration
against definitions that say what they mean instead of how they are computed.  `FiguresAreTheirOwn`: a mapped address answers its own
request, a clock permitted for one-way claims is within the skew, a confirmed
size was acknowledged by the peer, a zero-drop claim is corroborated, a rate is
called lossy or clean only when the receiver's summary or the legacy `sum` block
of its iperf document reported a loss, and so on.
Besides the mutants in `PROJECT.json`, one per
property, some twenty others of the engines were tried by hand and found.

The bounds.  Two permits and three nodes are the least at which a worker waits
while two hold; two ramp steps the least at which a step boundary lies inside the
phase; two in-phase samples the least at which the latest hides an earlier one.
Two targets give every order of two workers; two jobs every overlap; a channel
of one is full after every update.  The sets of measurements hold a
value below, at and above each threshold of the engine, and its lost form.  The bounds
`MaxSamples`, `MaxClock`, `MaxJobs`, `MaxTraces` and `MaxRuns` appear in guards of their
actions and nowhere else; the theorems do not depend on their values.

Fairness.  Weak fairness on a thread's steps says the operating system schedules
it; weak fairness on `Expire` (part of a worker's steps) that `recv_timeout`
returns; strong fairness on `Lock` in `SaltFile` that a mutex is not withheld for
ever from a waiting thread while others come and go.  Nothing is assumed of
runners, sessions, operators or the network, except in `TuiUpdates`, where a
started test ends (each probe in it has a timeout and a retry bound) and so does
a tracepath (it has a hop limit), and the event loop keeps polling.  In
`DesktopRuns` the async runtime polls every task, forwarder and coroutine that
can go on, and a test ends (it works with timeouts); nothing is assumed of the
user.  `Investigations` has no liveness property and ends when it has reported.

## 4. What is proved

TLAPS checks these for every value of the constants that meets the named
assumptions.

* `LoadGuard_proofs`, about the guard and about the NAT probe that runs in it.
  Inductive invariant `GuardInv`: the types; a budget past
  `new` validated (`Validated`); inside the loop the step is in the schedule
  (`StepInSchedule`) and the clock has not passed it (`ClockKept`); every snapshot
  drawn is the baseline, in the timeline or in the radio thread's hands, and after
  the join in nobody's (`TimelineComplete`); a substitute for a failed read is
  recognisable in the timeline (`SubstitutesSeen`); a Valid report judged exactly
  the snapshots drawn (`ReportFollows`); late ticks need a cancel not yet looked
  at (`CancelSeen`); a breach has left the loop (`BreachSeen`).
  `ValidMeansSteadyLink` is not inductive by itself: it says nothing while the
  phase runs, and needs that `join` leaves no snapshot behind.  Theorems:
  `TypeCorrect`, `SteadyLink`, `OneLateTick`, `BreachStops`, `RateCapped`,
  `ScheduleFilled` (`OverrunOnlyFromTicks`), `MeasuredOnly` (`DerivedIsMeasured`)
  and `GateImplemented`, the refinement of `EvidenceGate` step by step.
  Assumptions: the types of the constants, and for `MeasuredOnly` that what the
  radio source returns for a failed read is not associated; the run
  `guard_cli_radio` shows that the source of the `load-guard` command does not
  meet it.
  For the probe, the invariant is `NatInv`: `GuardInv`, the probe's types
  (`ProbeType`), that it drives only what it was allowed to (`ProbeGated`) and that
  its counts agree (`BooksBalance`).  Each probe step is a guard step, a cancel or
  a stutter for the guard, so `GuardKeptUnderProbe` restates the four guard
  properties of the composition; `AttemptsBalanced` and `LoadIsAuthorized` are the
  probe's own.
* `FleetFanout_proofs`.  Inductive invariant `FleetInv`: types, where workers may
  be, that an outcome is what its runner did or a timeout, permit accounting, and
  that the results are those of the workers that left.  Theorems: `TypeCorrect`,
  `PermitsAccounted`, `EveryNodeOnce`, `PoolRefinement`.  The set of nodes is any
  finite set, the concurrency any natural number.
* `ListenerPool_proofs`.  Inductive invariant `PoolInv`: types, exclusive leases,
  and that as many ports are taken as leases are held (`CountsAgree`), which
  relates the cap the code checks to the cap the pool promises.  Theorems:
  `TypeCorrect`, `OneSession`, `PoolRefinement`.
* `SaltFile_proofs`. Inductive invariant `SaltInv`: the types; a thread between
  lock and unlock holds its process's lock (`HoldsLock`); and, until two processes
  have raced for an empty file, one thread of them all is writing (`OneWriter`),
  into an empty file (`WritesEmptyFile`), and `SaltIsForever` itself. Theorems:
  `TypeCorrect`, `OneThreadInside`, `SaltForever`, and the step form
  `SaltNeverReplaced` (a step that replaces a salt comes after such a race), for
  any number of threads, processes, crashes and failures. How processes overlap is
  not restricted; the race itself is the one case in which the salt is not one, and
  it is named in the statement rather than assumed away.
* `AdmissionFanout_proofs`. Inductive invariant `FanoutInv`: the barrier has
  counted the threads that reached it (`BarrierCounts`); a thread has a release
  instant exactly when it is past the barrier, and a session only later
  (`StampedOnce`); a skew is the distance to the reference instant of whichever
  thread locked first (`SkewsAgree`); the collected outcomes follow the replies that
  came while their threads waited, and no reply changes one later (`ResultsFollow`). Theorems: `TypeCorrect`, `NoEarlyStart`, `SkewExclusion`,
  `FigureAdmitted`.
* `TuiUpdates_proofs`. `TraceInv`, for every operator: one tracepath at most is
  unfinished or has its completion in the channel, and the flag is up for it.
  `PatientInv`, for an operator who waits: only the last job is under way, on the
  channel that is read (`OnlyLast`), its results come before its completion
  (`QueueOrder`), and what is owed to a run is on its way while it runs (`RunOn`)
  and has arrived when it is over (`RunOver`). `DoneMeansAllResultsIn` looks only
  at the state in which the verdict stands; the order of updates inside the
  channel is what carries it there. Theorems: `TypeCorrect`, `OneTrace`,
  `DoneMeansDone`.
* `DesktopRuns_proofs`. Inductive invariant `DesktopInv`: the types with channels
  within their capacity (`Pipes`); that updates only name runs that were started
  (`Known`); that a flag that is up is explained by an update on its way or lost
  (`BusyInv`); that the results of a run are recorded, or precede its end in the
  coroutine's queue, the forwarder's hands, the channel or the task's list
  (`HistoryInv`). Theorems: `TypeCorrect`, `HistoryKept`, `BusyExplained`, for any
  tests, capacities and numbers of runs.
* `Investigations_proofs`, in the terms of `InvestigationTerms`. Inductive invariant
  `MachineInv`: each measurement gathered is one that the command may get
  (`Gathered`), and what is reported is `dispatch` on the complete evidence (`Reported`); so a statement about reports
  becomes one about an engine and any evidence of the right shape. Then one lemma
  or more per engine, and the theorems `TypeCorrect` (exit codes, and the ranges of
  losses, scores, fairness indices and payloads), `LossOnlyWithholds` (the listed
  losses of the promising commands, and what stands in for the unnoticed ones),
  `FiguresAreOfTheirMeasurements` and `ReferencesAgree`: the type invariant and the
  three families of `verdicts`, whole, for any measurements of the shapes. Echoes,
  probes, samples and coverage points come in any number; knee sweeps, site-ab
  samples, resolvers, traces and bindings in the number their shape says.

  The engines loop over data, and the library's induction theorems cannot be used.
  `UpTo` is induction up to `n` over a set instead of a predicate: if it holds 0 and
  with each `k < n` also `k + 1`, it holds all of `0..n` (else there is a least number
  left out). `FoldTrace` turns a fold into a function of the steps, so that a loop
  invariant, a named operator such as `Scanned`, `Searching`, `Steady`, `LossRun`,
  `OwnAttempts`, `RadioShows` or `Covers`, is shown for every prefix by `UpTo`;
  `InOrderIs` gives a sort or filter as a bijection with the positions, `TotalIs` a
  sum by its partial sums, `SumIs` a sum over a finite set by the sums of its subsets.
  The arguments that took more: the closed runs of the burst scan are exactly the
  maximal runs of missing packets (`BurstsAre`, `RunsAreMaximal`); the depths of
  reordering events add up to the inverted pairs of first echoes (`DepthsAddUp`,
  `InvertedAlike`); a sweep and its sorted form have the same usable points,
  neighbours and first untracked pair (`RelabelledKnee`); the search keeps the path
  MTU between its ends and halves them (`SearchIs`).

  Assumptions: the shapes of the measurements; for clock-guard that a clock is off by
  no more than its offset and delay together; that commands are the program's.

Every invariant and every action property that a passing run checks is stated by a
theorem.  Only model-checked: the liveness properties, which are outside this prover.

## 5. Disagreements between code and documentation

The violation runs show three; `PROJECT.json` quotes both sides.  Reading the code
for the models brought up others, which no run is spent on:

* `CounterSource::sample` (guard.rs 268) turns a failed read into zeros, which
  `usable_delta_from` accepts.
* A ramp of one step starts at full rate, against the comment at budget.rs 144.
* An aborted phase is exempt from the undershoot check (guard.rs 502) and may
  carry a derived ratio although it presented almost no load.
* The comment at guard.rs 34 lists PHY mode in the fingerprint; radio.rs 45
  explains why it is not in it.  The `BandChanged` arm (guard.rs 511) is
  unreachable, the band being part of the fingerprint.
* `FleetPlan::validate` never returns `BastionAssignedAsTestNode`; the fanout
  filters by role instead.
* `ListenerPool` keys leases by port: two hosts on one port exclude each other,
  and `lease_specific` answers `AllListenersInUse` when one listener is.
* `start_skew_ms` is taken before the session thread exists, and relative to the
  first thread to take the lock, not the first released: if that one was released
  late, every skew is understated and a late session may count.
  `SkewExclusionIsTrue` says only that an exclusion is deserved.
* A fully admitted session without a receiver summary counts toward the cohort
  and adds nothing to `aggregate_receiver_bps`.
* Between a pushback and the watcher's poll the NAT probe creates further
  sessions and counts them into the ceiling; `max_concurrency` does not bound
  the sessions it holds.
* `observe_idle_mapping_survival` sleeps at most five seconds whatever it
  reports, and reads a reply that may have arrived before the sleep.
* A TUI run in which no target answers keeps the previous verdict; a tracepath
  that cannot be spawned stays "running"; `https_testing` is never reset;
  docs/TUI.md 47 calls the `s` key "Stop running tests", the code saves a report.
* Salt files: the lock excludes threads of one process (ap_identity.rs 30).  Of
  two processes, the second may find the file created and still empty and
  overwrite it, while ap_identity.rs 16-17 promises the same label "forever".
  TLC finds it when `~raced` is taken out of `SaltIsForever`.
* TUI: `retest_target` (app.rs 707) replaces the channel while workers of a run
  hold the old sender; the run's results and its end are lost and the dashboard
  tests for ever, where docs/TUI.md 45 calls the key "Re-run a single target
  test".

Of the desktop application:

* A second click before `Started` arrives starts a second run, and the first
  `Completed` of overlapping runs clears the flag for both.
* Stopping a fuzzing run, or leaving a panel during a run, loses the end of the
  run: the test buttons stay disabled.  The Logs panel's "Stop Tests" can only be
  reached by leaving the panel of the run.  A stop that is followed by "Generate"
  before the next update is undone.
* A history entry also holds results of earlier runs that were not cleared.
* `log` keeps every entry, under the comment "Keep last 500 entries"
  (state/mod.rs 609); the orchestrator's store keeps one result per category.
* A detached window keeps no history and never resets the cancel flag.

Of the verdicts:

* Losses that the code does not notice, and that may add a claim (`Unnoticed`):
  a circuit without a loss figure counts as one without loss (circuit_workflow.rs
  183-191), and a member left out of the ingest as if it had said everything,
  against "rather than inferred from whatever happened to be supplied" (its comment
  at 35-37, and 149-153); one of the tuner's two
  baseline samples, without which there is no spread and the maximum is not
  provisional (throughput_tuner.rs 165-184); the receiver's summary of tcp-vs-udp,
  for which the sender's or the legacy one is taken; one of several drop counters
  (counter_liveness.rs 291-301); the PoE power requested, without which no
  shortfall is judged, as if it were the power negotiated (wired_edge.rs 87-123, 192).
* Losses outside both sets, after which a claim may appear or change: a field that
  only names something, where absence is one more name (the band in ap-identity and
  roaming, ap_identity.rs 145; driver, kernel, PHY and iperf version in
  platform-matrix, platform_matrix.rs 89-97); a point of a knee sweep of more than
  three, whose knee is that of the points left (capacity_knee.rs 183); a flow
  count of flow-dscp that is repeated, whose drift then goes unseen; a provider-path
  hop with a time and no address.
* Commands without a promise for which a lost measurement can change the report:
  size-rate with lost sizes; independent-rates, which skips unknown losses;
  clustered destinations in mss-evidence; a STUN mapping change; DNS steering;
  identities in resilience; missing timestamps counted as fresh in phy-normalized;
  kitchen-sink, where losing a low MTU figure can turn REVIEW into PASS.
* flow-dscp: `observed_at_source` is set when setsockopt succeeds
  (cli/commands/flow_dscp_matrix.rs 251), and survival is never compared with the
  DSCP sent.
* The tuner runs a representative that its preflight refused
  (cli/commands/throughput_tuner.rs 112, throughput_tuner.rs 204).
* `detect_knee` depends on execution order when a rate is repeated.
* burst-analysis never fills `gap_duration_ms` and counts late echoes as loss.
* wired-control attributes to the shared edge when both sides are clean.
* protocol-compare judges a simultaneous upload by the download size.
* capture compares one file with the byte cap while tcpdump rotates
  (comment at capture.rs 32-34); `OperatorInterrupted` is never set.
* ipv6-validate calls IPv6 unusable where only NAT64 is missing.
* stun: one late answer makes every following attempt Invalid.
* pcap-report: sequence numbers that wrap count as retransmissions, and so does
  a reordered segment never seen before.
* provider-path counts the last hop as the target; `TcpMtuTest` always reports
  1500; kitchen-sink retests UDP and QUIC over TCP.
* packet-loss over TCP parses a host name as a socket address and reports 0%.
* Children with piped output are polled without reading the pipe
  (bufferbloat.rs 112 and four others): much output blocks them until the
  deadline kills them.

## 6. Plan

What the models could still take in, in this order: the idle mappings of the NAT
probe (sleeps of growing length between two STUN bindings of one socket); the UI
bridge's registry of tests; the preflight checks of the probes; a channel replaced
in the TUI while `AllComplete` is on its way as a property of its own.

## 7. Not modelled

Packet construction and fuzzing output, the text parsers of tool output, printing
and argument parsing, redaction: pure data transformations with unit tests of
their own and no state to interleave.  Individual socket probes: one request, one
reply, a timeout.  Checks of the environment (dependencies, portals, multicast,
DHCP) that print independent lookups.  Rendering in both UIs, the desktop's
themes, simulator and command panels, the TUI's synchronous panels.  The gateway
bracket's sampler thread, which shares nothing with the guarded phase and is
joined before its result is read.  TCP sequence wraparound in captures.  Hash
values (label collisions) and, except in the evidence engines, floating-point
special values (a NaN rate passes `validate`).

------------------------------ MODULE NatProbe ------------------------------
(***************************************************************************)
(* run_session_rate_probe (network_tests/nat_capacity.rs): the load guard  *)
(* of module LoadGuard driving a SessionCreationPhase, each of whose ticks *)
(* opens one TCP session, and a watcher thread that polls the phase's stop *)
(* flag and raises the guard's cancel flag.  The radio is a no-op source.  *)
(***************************************************************************)
EXTENDS LoadGuard

VARIABLES
  authorized,   \* the operator gave an authorization statement
  stop,         \* SessionCreationPhase::stop
  watcher,      \* the watcher thread
  counts,       \* SessionRateResult, by outcome
  attempted,    \* SessionRateResult::attempted
  open          \* SessionCreationPhase::open, the sessions held open

probe == <<authorized, stop, watcher, counts, attempted, open>>
natVars == <<vars, probe>>

Outcomes == {"Created", "RemoteRefused", "RemoteTimedOut",
             "LocalResourceExhausted", "OtherLocalError"}

Pushback == {"RemoteRefused", "RemoteTimedOut", "LocalResourceExhausted"}

NatInit ==
  /\ Init
  /\ authorized \in BOOLEAN
  /\ stop = FALSE
  /\ watcher = "unborn"
  /\ counts = [o \in Outcomes |-> 0]
  /\ attempted = 0
  /\ open = 0

(* Mutant: the statement is not asked for.                                 *)
AuthorizeAnyone ==
  /\ New
  /\ UNCHANGED probe

(* require_authorization, then the budget's validation, before anything    *)
(* is opened.                                                              *)
Authorize ==
  /\ pc = "new"
  /\ IF authorized THEN New
     ELSE /\ pc' = "refused"
          /\ UNCHANGED <<budget, synthetic, before, step, inStep, elapsed, bytes,
                         stopReason, report, sampler, cancel, ghosts>>
  /\ UNCHANGED probe

BeginProbe ==
  /\ Begin
  /\ watcher' = "polling"
  /\ UNCHANGED <<authorized, stop, counts, attempted, open>>

(* The outcomes that raise the stop flag.                                  *)
raisesStop(o) == o \in Pushback

(* Mutant: an attempt that failed locally is not counted as one.           *)
CountOutcomeSkipping(o) ==
  /\ attempted' = attempted + 1
  /\ counts' = IF o = "OtherLocalError" THEN counts ELSE [counts EXCEPT ![o] = @ + 1]

CountOutcome(o) ==
  /\ attempted' = attempted + 1
  /\ counts' = [counts EXCEPT ![o] = @ + 1]

(* SessionCreationPhase::tick: only a created session sends a byte, and    *)
(* only a connect timeout takes long.                                      *)
SessionTick(t, o) ==
  /\ Tick(t)
  /\ t.bytes = (IF o = "Created" THEN 1 ELSE 0)
  /\ o = "RemoteTimedOut" => t.took > 0
  /\ CountOutcome(o)
  /\ open' = IF o = "Created" THEN open + 1 ELSE open
  /\ stop' = (stop \/ raisesStop(o))
  /\ UNCHANGED <<authorized, watcher>>

(* Mutant: the watcher looks once.                                         *)
WatchOnce ==
  /\ watcher = "polling"
  /\ cancel' = (cancel \/ stop)
  /\ watcher' = "exited"
  /\ UNCHANGED <<driver, sampler, ghosts, authorized, stop, counts, attempted, open>>

(* The watcher polls every 20 ms until it sees the flag.                   *)
Watch ==
  /\ watcher = "polling"
  /\ stop
  /\ cancel' = TRUE
  /\ watcher' = "exited"
  /\ UNCHANGED <<driver, sampler, ghosts, authorized, stop, counts, attempted, open>>

(* The guard returns and drops the phase, which closes its sessions.       *)
ConcludeProbe ==
  /\ Conclude
  /\ open' = 0
  /\ UNCHANGED <<authorized, stop, watcher, counts, attempted>>

GuardStep == (NextStep \/ CheckCancel \/ CheckAssociation \/ Sleep \/ StopRadio \/ Join)
             /\ UNCHANGED probe

DriveProbe == \/ Authorize \/ BeginProbe \/ GuardStep \/ ConcludeProbe
              \/ \E t \in Ticks, o \in Outcomes : SessionTick(t, o)

NatNext == \/ DriveProbe \/ (RadioThread /\ UNCHANGED probe) \/ Watch
           \/ (Finished /\ UNCHANGED probe)

NatSpec == NatInit /\ [][NatNext]_natVars /\ WF_natVars(DriveProbe)
           /\ WF_natVars(RadioThread /\ UNCHANGED probe) /\ WF_natVars(Watch)

(* SessionRateResult::remote_ceiling_evidence                              *)
remote_ceiling_evidence ==
  IF \/ counts["LocalResourceExhausted"] > 0
     \/ counts["RemoteRefused"] = 0 /\ counts["RemoteTimedOut"] = 0
  THEN None ELSE counts["Created"]

-----------------------------------------------------------------------------
(* Every attempt the probe made is accounted for by exactly one outcome,   *)
(* and the sessions it holds open are the ones it reports as created.      *)
AttemptsAccounted ==
  /\ attempted = counts["Created"] + counts["RemoteRefused"] + counts["RemoteTimedOut"]
                 + counts["LocalResourceExhausted"] + counts["OtherLocalError"]
  /\ pc \in PhasePcs => open = counts["Created"]

(* Without an authorization statement no session is ever attempted.        *)
NoLoadWithoutAuthorization == attempted > 0 => authorized /\ validate(budget) = "Ok"

(* A pushback of the remote side or of this machine always reaches the     *)
(* guard as a cancellation: the watcher does not miss it, whatever it and  *)
(* the two guard threads interleave to (nat_capacity.rs 217-226).          *)
WatcherSeesStop == stop ~> cancel
=============================================================================

----------------------------- MODULE DesktopRuns ----------------------------
(***************************************************************************)
(* Test runs of the desktop application.  A click starts a task that runs  *)
(* the tests of the orchestrator and sends updates through a bounded       *)
(* channel; a forwarder of the panel moves them to the queue of the        *)
(* application's coroutine, which is the only one to change the state the  *)
(* panels show.  The Dashboard, Tests, HTTPS and Path panels start runs in *)
(* the same way and are one panel here, "tests".                           *)
(*                                                                         *)
(* A window is the main one, with all panels, or a detached one that shows *)
(* one panel and has a state and a coroutine of its own.                   *)
(***************************************************************************)
EXTENDS Integers, Sequences, FiniteSets, Functions

CONSTANTS MaxRuns,      \* bound: runs that can be started
          Tests,        \* registered tests: [category, requires_root]
          Selections,   \* the sets of categories a panel starts a run for
          Root,         \* is the process privileged?
          ChannelSize,  \* capacity of the channel of a run
          MaxHistory    \* entries the history keeps

ASSUME DesktopAssumption ==
  /\ MaxRuns \in Nat \ {0}
  /\ ChannelSize \in Nat \ {0}
  /\ MaxHistory \in Nat \ {0}
  /\ Root \in BOOLEAN
  /\ Tests \in Seq([category : STRING, requires_root : BOOLEAN])
  /\ Selections \subseteq SUBSET STRING

VARIABLES window,      \* "main" or "detached"
          panel,       \* the panel on screen
          kind,        \* of each run: the panel it was started from, its categories
          phase,       \* of the task: "unused", "started", "running", "sending", "done"
          todo,        \* updates the task has still to send
          chan,        \* the channel of the run
          forwarder,   \* "none", "live", "ended" or "gone"
          inbox,       \* queue of the application's coroutine
          testing,     \* the flag that disables the buttons of the panels
          generating,  \* the same of the fuzzing panel
          cancelled,   \* the cancellation flag
          report,      \* the unified report: "idle", "running" or "dropped"
          results,     \* results stored for the target
          cleared,     \* results the Clear button has removed
          history      \* newest entry first

vars == <<window, panel, kind, phase, todo, chan, forwarder, inbox, testing, generating,
          cancelled, report, results, cleared, history>>

task == <<kind, phase, todo>>
screen == <<window, panel, generating, report>>
stored == <<results, cleared, history>>

Runs == 1 .. MaxRuns

Panels == {"tests", "fuzzing", "report", "logs"}

(***************************************************************************)
(* The orchestrator.  Every registered test of the category gives a        *)
(* result: a test that needs root is skipped without it, and an error is a *)
(* result as well.  What a test found is left out.                         *)
(***************************************************************************)
run_single(t) == IF Tests[t].requires_root /\ ~Root THEN "Skipped" ELSE "Ran"

(* A run takes the tests of the categories it was started for: any         *)
(* selection, all of them (run_all), or Fuzzing alone.                     *)
tests_of(r) == {t \in DOMAIN Tests : Tests[t].category \in kind[r].categories}

(* The orders a run can take its tests in: the categories come out of a    *)
(* HashSet, and each has its tests in the order of registration.           *)
run_orders(r) ==
  {s \in [1 .. Cardinality(tests_of(r)) -> tests_of(r)] :
     /\ Range(s) = tests_of(r)
     /\ \A i, j \in DOMAIN s :
          i < j /\ Tests[s[i]].category = Tests[s[j]].category => s[i] < s[j]}

run_results(r, order) ==
  [i \in DOMAIN order |-> [run |-> r, test |-> order[i], status |-> run_single(order[i])]]

Update(r, what) == [run |-> r, what |-> what]

result_updates(r, order) ==
  LET rs == run_results(r, order)
  IN  [i \in DOMAIN rs |-> [run |-> r, what |-> "Result", result |-> rs[i]]]

(* Mutant: the end is announced before the results.                        *)
updates_of_early(r, joined, order) ==
  IF joined THEN <<Update(r, "Completed")>> \o result_updates(r, order)
  ELSE <<Update(r, "Failed")>>

(* Mutant: the end of a task that panicked goes unnoticed.                 *)
updates_of_silent(r, joined, order) ==
  result_updates(r, order) \o (IF joined THEN <<Update(r, "Completed")>> ELSE <<>>)

(* The updates after the tests have run: a result for each, then the end;  *)
(* a task that panicked only says that it failed.  The progress shown in   *)
(* between is left out.                                                    *)
updates_of(r, joined, order) ==
  IF joined THEN result_updates(r, order) \o <<Update(r, "Completed")>>
  ELSE <<Update(r, "Failed")>>

Init ==
  /\ window \in {"main", "detached"}
  /\ panel \in Panels \ {"logs"} /\ (window = "main" => panel = "tests")
  /\ kind = [r \in Runs |-> [panel |-> "none", categories |-> {}]]
  /\ phase = [r \in Runs |-> "unused"]
  /\ todo = [r \in Runs |-> <<>>]
  /\ chan = [r \in Runs |-> <<>>]
  /\ forwarder = [r \in Runs |-> "none"]
  /\ inbox = <<>>
  /\ testing = FALSE /\ generating = FALSE /\ cancelled = FALSE
  /\ report = "idle"
  /\ results = {} /\ cleared = {} /\ history = <<>>

(***************************************************************************)
(* The user.                                                               *)
(***************************************************************************)
start(r, cats) ==
  /\ phase[r] = "unused" /\ \A q \in 1 .. r - 1 : phase[q] # "unused"
  /\ kind' = [kind EXCEPT ![r] = [panel |-> panel, categories |-> cats]]
  /\ phase' = [phase EXCEPT ![r] = "started"]
  /\ forwarder' = [forwarder EXCEPT ![r] = "live"]
  /\ UNCHANGED <<window, panel, todo, chan, inbox, testing, report, stored>>

(* The button is disabled by the flag, which the coroutine sets later.     *)
(* Run Selected takes the selection of the user, Run All every category.   *)
RunTests(r) ==
  /\ panel = "tests" /\ ~testing
  /\ \E cats \in Selections : start(r, cats)
  /\ UNCHANGED <<generating, cancelled>>

Generate(r) ==
  /\ panel = "fuzzing" /\ ~generating
  /\ start(r, {"Fuzzing"})
  /\ generating' = TRUE
  /\ cancelled' = FALSE

StopFuzzing ==
  /\ panel = "fuzzing" /\ generating
  /\ cancelled' = TRUE
  /\ generating' = FALSE
  /\ UNCHANGED <<window, panel, task, chan, forwarder, inbox, testing, report, stored>>

StopTests ==
  /\ panel = "logs" /\ testing
  /\ cancelled' = TRUE
  /\ UNCHANGED <<screen, task, chan, forwarder, inbox, testing, stored>>

GenerateReport ==
  /\ panel = "report" /\ ~testing /\ report = "idle"
  /\ testing' = TRUE
  /\ report' = "running"
  /\ UNCHANGED <<window, panel, generating, task, chan, forwarder, inbox, cancelled, stored>>

ReportGenerated ==
  /\ report = "running"
  /\ testing' = FALSE
  /\ report' = "idle"
  /\ UNCHANGED <<window, panel, generating, task, chan, forwarder, inbox, cancelled, stored>>

ClearResults ==
  /\ panel = "tests" /\ results # {}
  /\ cleared' = cleared \union results
  /\ results' = {}
  /\ UNCHANGED <<screen, task, chan, forwarder, inbox, testing, cancelled, history>>

(* Leaving a panel ends the futures it spawned: its forwarders are gone    *)
(* with the receiving ends of their channels, and so is what would have    *)
(* taken a finished report.  The fuzzing panel's own flag starts afresh.   *)
SwitchPanel(p) ==
  LET lost == {r \in Runs : forwarder[r] = "live" /\ kind[r].panel = panel}
  IN  /\ window = "main" /\ p # panel
      /\ panel' = p
      /\ forwarder' = [r \in Runs |-> IF r \in lost THEN "gone" ELSE forwarder[r]]
      /\ chan' = [r \in Runs |-> IF r \in lost THEN <<>> ELSE chan[r]]
      /\ generating' = FALSE
      /\ report' = IF panel = "report" /\ report = "running" THEN "dropped" ELSE report
      /\ UNCHANGED <<window, task, inbox, testing, cancelled, stored>>

(***************************************************************************)
(* The task of a run.  Sending waits for room; without a receiver the      *)
(* update is dropped.                                                      *)
(***************************************************************************)
(* Mutant: a task does not wait for room.                                  *)
CanSend_always(r) == TRUE

CanSend(r) == forwarder[r] # "live" \/ Len(chan[r]) < ChannelSize

send(r, u) ==
  chan' = IF forwarder[r] = "live" THEN [chan EXCEPT ![r] = Append(@, u)] ELSE chan

SendStarted(r) ==
  /\ phase[r] = "started" /\ CanSend(r)
  /\ send(r, Update(r, "Started"))
  /\ phase' = [phase EXCEPT ![r] = "running"]
  /\ UNCHANGED <<screen, kind, todo, forwarder, inbox, testing, cancelled, stored>>

TestsRan(r, joined, order) ==
  /\ phase[r] = "running"
  /\ phase' = [phase EXCEPT ![r] = "sending"]
  /\ todo' = [todo EXCEPT ![r] = updates_of(r, joined, order)]
  /\ UNCHANGED <<screen, kind, chan, forwarder, inbox, testing, cancelled, stored>>

SendNext(r) ==
  /\ phase[r] = "sending" /\ todo[r] # <<>> /\ CanSend(r)
  /\ send(r, Head(todo[r]))
  /\ todo' = [todo EXCEPT ![r] = Tail(@)]
  /\ phase' = [phase EXCEPT ![r] = IF Len(todo[r]) = 1 THEN "done" ELSE @]
  /\ UNCHANGED <<screen, kind, forwarder, inbox, testing, cancelled, stored>>


Forward(r) ==
  /\ forwarder[r] = "live" /\ chan[r] # <<>>
  /\ ~(kind[r].panel = "fuzzing" /\ cancelled)
  /\ inbox' = Append(inbox, Head(chan[r]))
  /\ chan' = [chan EXCEPT ![r] = Tail(@)]
  /\ UNCHANGED <<screen, task, forwarder, testing, cancelled, stored>>

GiveUp(r) ==
  /\ forwarder[r] = "live" /\ chan[r] # <<>>
  /\ kind[r].panel = "fuzzing" /\ cancelled
  /\ generating' = FALSE
  /\ forwarder' = [forwarder EXCEPT ![r] = "gone"]
  /\ chan' = [chan EXCEPT ![r] = <<>>]
  /\ UNCHANGED <<window, panel, report, task, inbox, testing, cancelled, stored>>

ForwarderEnds(r) ==
  /\ forwarder[r] = "live" /\ chan[r] = <<>> /\ phase[r] = "done"
  /\ forwarder' = [forwarder EXCEPT ![r] = "ended"]
  /\ generating' = IF kind[r].panel = "fuzzing" THEN FALSE ELSE generating
  /\ UNCHANGED <<window, panel, report, task, chan, inbox, testing, cancelled, stored>>

(***************************************************************************)
(* The coroutine.  A detached window keeps no history and leaves the       *)
(* cancellation flag as it is.                                             *)
(***************************************************************************)
save_to_history(r) ==
  IF results = {} \/ window = "detached" THEN history
  ELSE SubSeq(<<[run |-> r, results |-> results]>> \o history, 1,
              IF Len(history) < MaxHistory THEN Len(history) + 1 ELSE MaxHistory)

Handle ==
  LET u == Head(inbox)
  IN  /\ inbox # <<>>
      /\ inbox' = Tail(inbox)
      /\ CASE u.what = "Started" ->
                /\ testing' = TRUE
                /\ cancelled' = (cancelled /\ window = "detached")
                /\ UNCHANGED <<results, history>>
           [] u.what = "Result" ->
                /\ results' = results \union {u.result}
                /\ UNCHANGED <<testing, cancelled, history>>
           [] u.what = "Completed" ->
                /\ history' = save_to_history(u.run)
                /\ testing' = FALSE
                /\ UNCHANGED <<cancelled, results>>
           [] u.what = "Failed" ->
                /\ testing' = FALSE
                /\ UNCHANGED <<cancelled, results, history>>
      /\ UNCHANGED <<screen, task, chan, forwarder, cleared>>

Task(r) ==
  \/ SendStarted(r)
  \/ /\ phase[r] = "running"
     /\ \E joined \in BOOLEAN, order \in run_orders(r) : TestsRan(r, joined, order)
  \/ SendNext(r)

Forwarding(r) == Forward(r) \/ GiveUp(r) \/ ForwarderEnds(r)

User ==
  \/ \E r \in Runs : RunTests(r) \/ Generate(r)
  \/ StopFuzzing \/ StopTests \/ GenerateReport \/ ClearResults
  \/ \E p \in Panels : SwitchPanel(p)

Next == User \/ ReportGenerated \/ (\E r \in Runs : Task(r) \/ Forwarding(r)) \/ Handle

(* The runtime polls every task that can go on, and every test ends: each  *)
(* one works with timeouts.                                                *)
Fairness ==
  /\ \A r \in Runs : WF_vars(Task(r)) /\ WF_vars(Forwarding(r))
  /\ WF_vars(Handle) /\ WF_vars(ReportGenerated)

Spec == Init /\ [][Next]_vars /\ Fairness

-----------------------------------------------------------------------------
Kinds == [panel : {"none", "tests", "fuzzing"}, categories : {{}, {"Fuzzing"}} \cup Selections]

Result == [run : Runs, test : DOMAIN Tests, status : {"Ran", "Skipped"}]

(* The state is well formed and no channel holds more than its capacity.   *)
TypeOK ==
  /\ window \in {"main", "detached"} /\ panel \in Panels
  /\ kind \in [Runs -> Kinds]
  /\ phase \in [Runs -> {"unused", "started", "running", "sending", "done"}]
  /\ forwarder \in [Runs -> {"none", "live", "ended", "gone"}]
  /\ \A r \in Runs : Len(chan[r]) <= ChannelSize
  /\ {testing, generating, cancelled} \subseteq BOOLEAN
  /\ report \in {"idle", "running", "dropped"}
  /\ results \subseteq Result /\ cleared \subseteq Result
  /\ Len(history) <= MaxHistory

(* An entry of the history of run r holds every result of r, except those  *)
(* the user had cleared by then: the results of a run reach the coroutine  *)
(* before its end does, whatever other runs send meanwhile and however     *)
(* full the channel is (save_to_history takes what is stored at that time).*)
HistoryHoldsItsRun ==
  \A i \in DOMAIN history :
    LET r == history[i].run
    IN  \A t \in DOMAIN Tests :
          Tests[t].category \in kind[r].categories =>
            \E x \in history[i].results \union cleared : x.run = r /\ x.test = t

InFlight(r) == forwarder[r] = "live"

(* The flag that disables the buttons is up with nothing left that could   *)
(* lower it only if a forwarder or a report was lost on the way: a panel   *)
(* was left, or fuzzing was stopped, in the middle of a run.               *)
BusyOnlyForLostUpdates ==
  (/\ testing /\ inbox = <<>> /\ report # "running"
   /\ \A r \in Runs : ~InFlight(r))
    => (\E r \in Runs : forwarder[r] = "gone") \/ report = "dropped"

=============================================================================

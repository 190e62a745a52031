----------------------------- MODULE TuiUpdates -----------------------------
(***************************************************************************)
(* The terminal UI's test runs (bin/tui/app.rs): R starts a run of every   *)
(* target on worker threads, r retests one target, t starts a tracepath;   *)
(* each thread sends its updates through the channel it was given, and the *)
(* event loop applies whatever the current channel delivers.  R keeps the  *)
(* channel; r replaces it, and what is sent to the old one is lost.        *)
(*                                                                         *)
(* A target's result is one MTU (the first of icmp, tcp, udp that has one) *)
(* or None; a target only QUIC answers from is Complete with None.  What   *)
(* is only displayed (the current target's name, the progress bar, log     *)
(* lines, the history sparkline, a tracepath's hops) is left out.          *)
(***************************************************************************)
EXTENDS Naturals, Sequences, FiniteSets

CONSTANTS
  Targets,   \* indices of the targets file
  Mtus,      \* the MTUs a test may find
  None,
  Operators, \* the operators to consider: [keys, patient], the keys they
             \* press, of "R", "r", "t", and whether they wait for a job to end
  MaxJobs,   \* bound: runs and retests in a session
  MaxTraces  \* bound: tracepaths in a session

ASSUME TuiAssumption ==
  /\ IsFiniteSet(Targets) /\ Targets # {}
  /\ Mtus \subseteq Nat /\ None \notin Nat
  /\ Operators \subseteq [keys : SUBSET {"R", "r", "t"}, patient : BOOLEAN]
  /\ MaxJobs \in Nat /\ MaxTraces \in Nat

VARIABLES
  operator,  \* who sits at the keyboard
  channel,   \* the number of the channel test_tx/test_rx
  queue,     \* the updates waiting in it
  results,   \* per target: [status, mtu, job]
  testing,   \* UiState::testing
  verdict,   \* UiState::verdict
  jobs,      \* the runs and retests so far: [kind, channel, todo]
  tracing,   \* App::tracepath_running
  trace,     \* the tracepath thread: None or the channel it sends to
  traces     \* tracepaths started

vars == <<operator, channel, queue, results, testing, verdict, jobs, tracing, trace, traces>>

Pending == [status |-> "Pending", mtu |-> None, job |-> 0]

(* App::new opens the first channel; AppState::default lists the targets.  *)
Init ==
  /\ operator \in Operators
  /\ channel = 1 /\ queue = <<>>
  /\ results = [i \in Targets |-> Pending]
  /\ testing = FALSE
  /\ verdict = None
  /\ jobs = <<>>
  /\ tracing = FALSE /\ trace = None /\ traces = 0

(* A job is under way until its last update was sent.                      *)
UnderWay(j) == jobs[j].todo # {} \/ jobs[j].kind = "run"

Idle == queue = <<>> /\ \A j \in DOMAIN jobs : ~UnderWay(j)

Presses(key) ==
  /\ key \in operator.keys
  /\ operator.patient => Idle
  /\ UNCHANGED operator

(* Sender::send: an update for a channel that was replaced is lost.        *)
Send(c, us) == queue' = IF c = channel THEN queue \o us ELSE queue

(* App::start_testing: there always is a channel, and the run takes it.    *)
start_testing ==
  /\ Presses("R")
  /\ Len(jobs) < MaxJobs
  /\ results' = [i \in Targets |-> Pending]
  /\ testing' = TRUE
  /\ jobs' = Append(jobs, [kind |-> "run", channel |-> channel, todo |-> Targets])
  /\ UNCHANGED <<channel, queue, verdict, tracing, trace, traces>>

(* App::retest_target: a channel of its own, in place of the current one.  *)
retest_target(i) ==
  /\ Presses("r")
  /\ Len(jobs) < MaxJobs
  /\ channel' = channel + 1
  /\ queue' = <<>>
  /\ results' = [results EXCEPT ![i].status = "Testing"]
  /\ jobs' = Append(jobs, [kind |-> "retest", channel |-> channel + 1, todo |-> {i}])
  /\ UNCHANGED <<testing, verdict, tracing, trace, traces>>

(* What a test may find: an MTU, an MTU of QUIC only, or nothing.          *)
Answers == [mtu : Mtus, any : {TRUE}] \cup [mtu : {None}, any : BOOLEAN]

(* Mutant: a worker whose test found nothing sends no result.              *)
TestEndsSilently(j, i, a) ==
  /\ i \in jobs[j].todo
  /\ jobs' = [jobs EXCEPT ![j].todo = @ \ {i}]
  /\ Send(jobs[j].channel,
          IF a.any THEN <<[kind |-> "Complete", index |-> i, answer |-> a, job |-> j]>> ELSE <<>>)
  /\ UNCHANGED <<operator, channel, results, testing, verdict, tracing, trace, traces>>

(* A worker has tested its target and sends the result.                    *)
TestEnds(j, i, a) ==
  /\ i \in jobs[j].todo
  /\ jobs' = [jobs EXCEPT ![j].todo = @ \ {i}]
  /\ Send(jobs[j].channel, <<[kind |-> "Complete", index |-> i, answer |-> a, job |-> j]>>)
  /\ UNCHANGED <<operator, channel, results, testing, verdict, tracing, trace, traces>>

(* Mutant: the coordinator does not join its workers.                      *)
RunEndsUnjoined(j) ==
  /\ jobs[j].kind = "run"
  /\ jobs' = [jobs EXCEPT ![j].kind = "ended run"]
  /\ Send(jobs[j].channel, <<[kind |-> "AllComplete"]>>)
  /\ UNCHANGED <<operator, channel, results, testing, verdict, tracing, trace, traces>>

(* The coordinator has joined every worker of its run.                     *)
RunEnds(j) ==
  /\ jobs[j].kind = "run" /\ jobs[j].todo = {}
  /\ jobs' = [jobs EXCEPT ![j].kind = "ended run"]
  /\ Send(jobs[j].channel, <<[kind |-> "AllComplete"]>>)
  /\ UNCHANGED <<operator, channel, results, testing, verdict, tracing, trace, traces>>

(* Mutant: a second tracepath is not refused.                              *)
run_tracepathAgain ==
  /\ Presses("t")
  /\ traces < MaxTraces
  /\ tracing' = TRUE
  /\ trace' = channel
  /\ traces' = traces + 1
  /\ UNCHANGED <<channel, queue, results, testing, verdict, jobs>>

(* App::run_tracepath: refused while one runs.                             *)
run_tracepath ==
  /\ Presses("t")
  /\ ~tracing /\ traces < MaxTraces
  /\ tracing' = TRUE
  /\ trace' = channel
  /\ traces' = traces + 1
  /\ UNCHANGED <<channel, queue, results, testing, verdict, jobs>>

(* sudo tracepath could not be spawned: an output line, and nothing else.  *)
TraceFails ==
  /\ trace # None
  /\ trace' = None
  /\ Send(trace, <<[kind |-> "TracepathOutput"]>>)
  /\ UNCHANGED <<operator, channel, results, testing, verdict, jobs, tracing, traces>>

TraceEnds ==
  /\ trace # None
  /\ trace' = None
  /\ Send(trace, <<[kind |-> "TracepathOutput"], [kind |-> "TracepathComplete"]>>)
  /\ UNCHANGED <<operator, channel, results, testing, verdict, jobs, tracing, traces>>

-----------------------------------------------------------------------------
(* App::process_test_updates, one update at a time.                        *)

Take(kind) ==
  /\ queue # <<>>
  /\ Head(queue).kind = kind
  /\ queue' = Tail(queue)

(* Mutant: the status says which protocol answered.                        *)
ApplyCompleteByProtocol ==
  /\ Take("Complete")
  /\ LET u == Head(queue)
     IN  results' = [results EXCEPT ![u.index] =
                       [status |-> IF u.answer.mtu # None THEN "Complete"
                                   ELSE IF u.answer.any THEN "QuicOnly" ELSE "Failed",
                        mtu |-> u.answer.mtu, job |-> u.job]]
  /\ UNCHANGED <<operator, channel, testing, verdict, jobs, tracing, trace, traces>>

ApplyComplete ==
  /\ Take("Complete")
  /\ LET u == Head(queue)
     IN  results' = [results EXCEPT ![u.index] =
                       [status |-> IF u.answer.any THEN "Complete" ELSE "Failed",
                        mtu |-> u.answer.mtu, job |-> u.job]]
  /\ UNCHANGED <<operator, channel, testing, verdict, jobs, tracing, trace, traces>>

(* The verdict: sorted[len / 2], and the share of MTUs of at least 1500.   *)
found(rs) == {i \in Targets : rs[i].mtu # None}

median(rs) ==
  LET half == Cardinality(found(rs)) \div 2
  IN  CHOOSE m \in {rs[i].mtu : i \in found(rs)} :
        /\ Cardinality({i \in found(rs) : rs[i].mtu < m}) <= half
        /\ Cardinality({i \in found(rs) : rs[i].mtu <= m}) > half

verdictOf(rs) ==
  LET ok == Cardinality({i \in found(rs) : rs[i].mtu >= 1500})
      status == IF 100 * ok >= 80 * Cardinality(found(rs)) /\ median(rs) >= 1400 THEN "PASS"
                ELSE IF median(rs) >= 1400 THEN "REVIEW"
                ELSE "ACTION_NEEDED"
  IN  [status |-> status, median |-> median(rs)]

(* Mutant: the testing flag is left to the verdict.                        *)
ApplyAllCompleteIfFound ==
  /\ Take("AllComplete")
  /\ testing' = (found(results) = {})
  /\ verdict' = IF found(results) = {} THEN verdict ELSE verdictOf(results)
  /\ UNCHANGED <<operator, channel, results, jobs, tracing, trace, traces>>

(* With no MTU at all the old verdict stays.                               *)
ApplyAllComplete ==
  /\ Take("AllComplete")
  /\ testing' = FALSE
  /\ verdict' = IF found(results) = {} THEN verdict ELSE verdictOf(results)
  /\ UNCHANGED <<operator, channel, results, jobs, tracing, trace, traces>>

ApplyTracepathOutput ==
  /\ Take("TracepathOutput")
  /\ UNCHANGED <<operator, channel, results, testing, verdict, jobs, tracing, trace, traces>>

ApplyTracepathComplete ==
  /\ Take("TracepathComplete")
  /\ tracing' = FALSE
  /\ UNCHANGED <<operator, channel, results, testing, verdict, jobs, trace, traces>>

process_test_updates == ApplyComplete \/ ApplyAllComplete \/ ApplyTracepathOutput
                        \/ ApplyTracepathComplete

(* The s key writes a report file and touches nothing else.                *)
SaveReport == UNCHANGED vars

Threads == \/ \E j \in DOMAIN jobs : RunEnds(j) \/
                \E i \in Targets, a \in Answers : TestEnds(j, i, a)
           \/ TraceFails \/ TraceEnds

Next == \/ start_testing \/ run_tracepath \/ (\E i \in Targets : retest_target(i))
        \/ SaveReport \/ Threads \/ process_test_updates

(* Tests and tracepaths end, and the event loop keeps applying updates;    *)
(* the operator need not press anything.                                   *)
Spec == Init /\ [][Next]_vars /\ WF_vars(Threads) /\ WF_vars(process_test_updates)

-----------------------------------------------------------------------------
(* Every variable has the type the code gives it.                          *)
TypeOK ==
  /\ channel \in Nat
  /\ results \in [Targets -> [status : {"Pending", "Testing", "Complete", "Failed"},
                              mtu : Mtus \cup {None}, job : Nat]]
  /\ testing \in BOOLEAN /\ tracing \in BOOLEAN
  /\ trace \in Nat \cup {None}

(* The run that R started last.                                            *)
runs == {j \in DOMAIN jobs : jobs[j].kind \in {"run", "ended run"}}

(* When a run is over for an operator who waits for it, every target has   *)
(* its result, from that run or a later retest, and the verdict of a run   *)
(* that found something is the verdict of all its results: no update is    *)
(* overtaken by AllComplete (app.rs 504-510, 803-838).                     *)
DoneMeansAllResultsIn ==
  operator.patient /\ ~testing =>
    /\ \A j \in runs : \A i \in Targets :
         results[i].status \in {"Complete", "Failed", "Testing"} /\ results[i].job >= j
    /\ Len(jobs) \in runs /\ found(results) # {} => verdict = verdictOf(results)

(* However tracepaths, runs and retests interleave, the completion that    *)
(* clears tracepath_running is the one of the tracepath that set it.       *)
OneTraceAtATime ==
  LET due == {k \in DOMAIN queue : queue[k].kind = "TracepathComplete"}
  IN  /\ trace # None \/ due # {} => tracing
      /\ trace = None \/ due = {}
      /\ Cardinality(due) <= 1

(* Every run ends for the operator too, even when R is pressed again while *)
(* workers of the last run are still testing: the flag is cleared and no   *)
(* target is left without a result.                                        *)
RunsEnd == testing ~> (~testing /\ \A i \in Targets : results[i].status # "Pending")
=============================================================================

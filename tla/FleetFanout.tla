---------------------------- MODULE FleetFanout -----------------------------
(***************************************************************************)
(* run_fleet_fanout (network_tests/fleet_orchestrator.rs): one worker      *)
(* thread per test node takes a permit from an atomic counter with a       *)
(* compare-exchange loop, starts a runner thread for the node, waits for   *)
(* its answer until the per-node timeout, gives the permit back and pushes *)
(* a result; the caller joins every worker and summarises.                 *)
(*                                                                         *)
(* The runner (SSH to the node) is the environment: it may answer, fail,   *)
(* panic, or never come back.                                              *)
(***************************************************************************)
EXTENDS Naturals, Sequences, FiniteSets

CONSTANTS
  Nodes,           \* FleetPlan::nodes, by label
  TestNodes,       \* those whose role is NodeRole::TestNode
  MaxConcurrency,  \* FleetPlan::max_concurrency
  TimeoutSecs,     \* FleetPlan::per_node_timeout_secs
  None             \* no outcome yet

ASSUME FleetAssumption ==
  /\ IsFiniteSet(Nodes)
  /\ TestNodes \subseteq Nodes
  /\ MaxConcurrency \in Nat
  /\ TimeoutSecs \in Nat
  /\ None \notin {"Completed", "TimedOut", "ConnectionFailed"}

VARIABLES
  main,      \* the calling thread
  permits,   \* the semaphore
  worker,    \* per node: where its worker thread is
  seen,      \* per node: the value its worker last loaded from the semaphore
  runner,    \* per node: the runner thread and the message it sent
  outcome,   \* per node: the NodeOutcome its worker computed
  results    \* the shared result vector

vars == <<main, permits, worker, seen, runner, outcome, results>>

(* FleetPlan::validate                                                     *)
validate ==
  CASE MaxConcurrency = 0                       -> "ZeroConcurrency"
    [] MaxConcurrency # 0 /\ TimeoutSecs = 0    -> "ZeroTimeout"
    [] MaxConcurrency # 0 /\ TimeoutSecs # 0
       /\ TestNodes = {}                        -> "NoTestNodes"
    [] OTHER                                    -> "Ok"

Init ==
  /\ main = "validate"
  /\ permits = MaxConcurrency
  /\ worker = [n \in Nodes |-> "unborn"]
  /\ seen = [n \in Nodes |-> 0]
  /\ runner = [n \in Nodes |-> "none"]
  /\ outcome = [n \in Nodes |-> None]
  /\ results = <<>>

(* The command refuses a plan that does not validate; otherwise it spawns  *)
(* a worker for every test node, and for no other.                         *)
Fanout ==
  /\ main = "validate"
  /\ IF validate = "Ok"
     THEN /\ main' = "join"
          /\ worker' = [n \in Nodes |-> IF n \in TestNodes THEN "load" ELSE "unborn"]
     ELSE main' = "refused" /\ UNCHANGED worker
  /\ UNCHANGED <<permits, seen, runner, outcome, results>>

(* Mutant: the worker does not wait for a permit.                          *)
LoadWithoutWaiting(n) ==
  /\ worker[n] = "load"
  /\ seen' = [seen EXCEPT ![n] = permits]
  /\ worker' = [worker EXCEPT ![n] = "cas"]
  /\ UNCHANGED <<main, permits, runner, outcome, results>>

(* semaphore.load: with no permit the worker sleeps 10 ms and loads again. *)
Load(n) ==
  /\ worker[n] = "load"
  /\ permits > 0
  /\ seen' = [seen EXCEPT ![n] = permits]
  /\ worker' = [worker EXCEPT ![n] = "cas"]
  /\ UNCHANGED <<main, permits, runner, outcome, results>>

(* Mutant: a load and a store instead of a compare-exchange.               *)
CompareExchangeBlind(n) ==
  /\ worker[n] = "cas"
  /\ permits' = seen[n] - 1
  /\ worker' = [worker EXCEPT ![n] = "start"]
  /\ UNCHANGED <<main, seen, runner, outcome, results>>

(* semaphore.compare_exchange(current, current - 1)                        *)
CompareExchange(n) ==
  /\ worker[n] = "cas"
  /\ IF permits = seen[n]
     THEN /\ permits' = seen[n] - 1
          /\ worker' = [worker EXCEPT ![n] = "start"]
     ELSE /\ UNCHANGED permits
          /\ worker' = [worker EXCEPT ![n] = "load"]
  /\ UNCHANGED <<main, seen, runner, outcome, results>>

StartRunner(n) ==
  /\ worker[n] = "start"
  /\ runner' = [runner EXCEPT ![n] = "running"]
  /\ worker' = [worker EXCEPT ![n] = "wait"]
  /\ UNCHANGED <<main, permits, seen, outcome, results>>

(* The runner returns Ok, returns Err, or panics and drops its sender.     *)
RunnerEnds(n, how) ==
  /\ runner[n] = "running"
  /\ runner' = [runner EXCEPT ![n] = how]
  /\ UNCHANGED <<main, permits, worker, seen, outcome, results>>

(* What recv_timeout makes of the channel.                                 *)
Settle(n, o) ==
  /\ outcome' = [outcome EXCEPT ![n] = o]
  /\ worker' = [worker EXCEPT ![n] = "release"]
  /\ UNCHANGED <<main, permits, seen, runner, results>>

outcomeOf == [ok |-> "Completed", err |-> "ConnectionFailed", panicked |-> "TimedOut"]

Receive(n) ==
  /\ worker[n] = "wait"
  /\ runner[n] \in {"ok", "err", "panicked"}
  /\ Settle(n, outcomeOf[runner[n]])

(* Mutant: the timeout is taken for an answer.                             *)
ExpireAsCompleted(n) ==
  /\ worker[n] = "wait"
  /\ runner[n] = "running"
  /\ Settle(n, "Completed")

(* The timeout passes with nothing in the channel.  The runner goes on.    *)
Expire(n) ==
  /\ worker[n] = "wait"
  /\ runner[n] = "running"
  /\ Settle(n, "TimedOut")

(* Mutant: a timed-out node keeps its permit.                              *)
ReleaseUnlessTimedOut(n) ==
  /\ worker[n] = "release"
  /\ permits' = IF outcome[n] = "TimedOut" THEN permits ELSE permits + 1
  /\ worker' = [worker EXCEPT ![n] = "push"]
  /\ UNCHANGED <<main, seen, runner, outcome, results>>

Release(n) ==
  /\ worker[n] = "release"
  /\ permits' = permits + 1
  /\ worker' = [worker EXCEPT ![n] = "push"]
  /\ UNCHANGED <<main, seen, runner, outcome, results>>

Push(n) ==
  /\ worker[n] = "push"
  /\ results' = Append(results, [label |-> n, outcome |-> outcome[n]])
  /\ worker' = [worker EXCEPT ![n] = "exited"]
  /\ UNCHANGED <<main, permits, seen, runner, outcome>>

(* Mutant: the results are taken once every answer is in, not once every   *)
(* worker is joined.                                                       *)
JoinEarly ==
  /\ main = "join"
  /\ \A n \in TestNodes : outcome[n] # None
  /\ main' = "returned"
  /\ UNCHANGED <<permits, worker, seen, runner, outcome, results>>

Join ==
  /\ main = "join"
  /\ \A n \in TestNodes : worker[n] = "exited"
  /\ main' = "returned"
  /\ UNCHANGED <<permits, worker, seen, runner, outcome, results>>

Worker(n) == \/ Load(n) \/ CompareExchange(n) \/ StartRunner(n) \/ Receive(n)
             \/ Expire(n) \/ Release(n) \/ Push(n)

Runner(n) == \E how \in {"ok", "err", "panicked"} : RunnerEnds(n, how)

(* The call has returned; runners nobody waits for may still be running.   *)
Finished == main \in {"returned", "refused"} /\ UNCHANGED vars

Next == Fanout \/ Join \/ Finished \/ (\E n \in Nodes : Worker(n) \/ Runner(n))

(* Threads are scheduled and timers expire; a runner need never end.       *)
Spec == Init /\ [][Next]_vars
        /\ WF_vars(Fanout) /\ WF_vars(Join) /\ \A n \in Nodes : WF_vars(Worker(n))

-----------------------------------------------------------------------------
(* summarize_fleet_run                                                     *)
completed(rs) == {i \in DOMAIN rs : rs[i].outcome = "Completed"}

excluded_with_reason(rs) == {i \in DOMAIN rs : rs[i].outcome # "Completed"}

summarize_fleet_run(rs) ==
  [total |-> Len(rs), completed |-> Cardinality(completed(rs)),
   excluded |-> Cardinality(excluded_with_reason(rs))]

-----------------------------------------------------------------------------
Outcomes == {"Completed", "TimedOut", "ConnectionFailed"}

Holding == {n \in Nodes : worker[n] \in {"start", "wait", "release"}}

(* Every variable has the type the code gives it.                          *)
TypeOK ==
  /\ main \in {"validate", "refused", "join", "returned"}
  /\ permits \in Nat
  /\ worker \in [Nodes -> {"unborn", "load", "cas", "start", "wait", "release",
                           "push", "exited"}]
  /\ seen \in [Nodes -> Nat]
  /\ runner \in [Nodes -> {"none", "running", "ok", "err", "panicked"}]
  /\ outcome \in [Nodes -> Outcomes \cup {None}]
  /\ results \in Seq([label : Nodes, outcome : Outcomes])

(* No interleaving of the compare-exchange loops loses or invents a        *)
(* permit: the free ones and the held ones always make up the limit.       *)
PermitAccounting == permits + Cardinality(Holding) = MaxConcurrency

(* The semaphore and its worker threads implement a bounded pool.          *)
Pool == INSTANCE PermitPool WITH Clients <- TestNodes, Limit <- MaxConcurrency,
                                 holders <- Holding
ImplementsPool == Pool!Spec

(* When the call returns, the result vector has one entry for every test   *)
(* node, none for the bastion, and the summary's completed count is the    *)
(* number of runners whose answer was received: none that timed out,       *)
(* failed or panicked, even if its answer arrived later.                   *)
ReturnsEveryNodeOnce ==
  main = "returned" =>
    /\ {results[i].label : i \in DOMAIN results} = TestNodes
    /\ summarize_fleet_run(results).total = Cardinality(TestNodes)
    /\ \A i \in DOMAIN results :
         results[i].outcome = "Completed" => runner[results[i].label] = "ok"

(* The call returns although any runner may hang for ever and any worker   *)
(* may lose any race for a permit.                                         *)
FanoutReturns == <>(main \in {"returned", "refused"})

(* What the bound is for: no more than max_concurrency nodes run at the    *)
(* same time (fleet_orchestrator.rs 427-449 asserts it of the runners).    *)
RunnersBounded == Cardinality({n \in Nodes : runner[n] = "running"}) <= MaxConcurrency
=============================================================================

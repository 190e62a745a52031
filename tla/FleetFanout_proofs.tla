------------------------- MODULE FleetFanout_proofs -------------------------
(***************************************************************************)
(* Proofs about FleetFanout, for every fleet, limit and timeout.           *)
(***************************************************************************)
EXTENDS FleetFanout, FiniteSetTheorems, TLAPS

Exited == {n \in Nodes : worker[n] = "exited"}

(* Only test nodes get a worker, none before the plan is validated, and a  *)
(* worker tries to take a permit only from a counter it saw above zero.    *)
WorkersInPlace ==
  \A n \in Nodes : /\ worker[n] # "unborn" => n \in TestNodes /\ main # "validate"
                   /\ worker[n] = "cas" => seen[n] > 0

(* Exactly the workers past their wait have an outcome, and "Completed" is *)
(* one only for a runner that answered Ok.                                 *)
OutcomesAreTrue ==
  \A n \in Nodes : /\ worker[n] \in {"release", "push", "exited"} <=> outcome[n] # None
                   /\ outcome[n] = "Completed" => runner[n] = "ok"

(* The result vector holds the outcome of every worker that has exited,    *)
(* one entry each.                                                         *)
ResultsAreExits ==
  /\ {results[i].label : i \in DOMAIN results} = Exited
  /\ Len(results) = Cardinality(Exited)
  /\ \A i \in DOMAIN results : results[i].outcome = outcome[results[i].label]
  /\ main = "returned" => TestNodes \subseteq Exited

(* The inductive invariant.                                                *)
FleetInv == /\ TypeOK /\ WorkersInPlace /\ OutcomesAreTrue
            /\ PermitAccounting /\ ResultsAreExits

-----------------------------------------------------------------------------
LEMMA PoolCardinality == \A S : Pool!Cardinality(S) = Cardinality(S)
BY DEF Pool!Cardinality, Cardinality, Pool!IsFiniteSet, IsFiniteSet

LEMMA HoldingFinite == IsFiniteSet(Holding) /\ Cardinality(Holding) \in Nat
BY FleetAssumption, FS_Subset, FS_CardinalityType DEF Holding

LEMMA ExitedFinite == IsFiniteSet(Exited) /\ Cardinality(Exited) \in Nat
BY FleetAssumption, FS_Subset, FS_CardinalityType DEF Exited

LEMMA InitFleetInv == Init => FleetInv
<1> SUFFICES ASSUME Init PROVE FleetInv
  OBVIOUS
<1>1. TypeOK
  BY FleetAssumption DEF Init, TypeOK
<1>2. WorkersInPlace /\ OutcomesAreTrue
  BY FleetAssumption DEF Init, WorkersInPlace, OutcomesAreTrue, Outcomes
<1>3. Holding = {} /\ Exited = {}
  BY DEF Init, Holding, Exited
<1>4. PermitAccounting
  BY <1>3, FS_EmptySet, FleetAssumption DEF Init, PermitAccounting
<1>5. ResultsAreExits
  BY <1>3, FS_EmptySet DEF Init, ResultsAreExits
<1> QED  BY <1>1, <1>2, <1>4, <1>5 DEF FleetInv

(* A step that moves one worker between places that hold no permit and are *)
(* not the exit, and leaves results, permits and outcomes alone.           *)
LEMMA QuietMove ==
  ASSUME FleetInv, TypeOK', WorkersInPlace', OutcomesAreTrue',
         Holding' = Holding, Exited' = Exited,
         UNCHANGED <<permits, results>>,
         \A i \in DOMAIN results : outcome'[results[i].label] = outcome[results[i].label],
         main' = "returned" => main = "returned"
  PROVE  FleetInv'
<1>1. PermitAccounting'
  BY DEF FleetInv, PermitAccounting
<1>2. ResultsAreExits'
  BY DEF FleetInv, ResultsAreExits
<1> QED  BY <1>1, <1>2 DEF FleetInv

LEMMA FanoutStep ==
  ASSUME FleetInv, Fanout
  PROVE  FleetInv' /\ Holding' = Holding
<1> USE DEF FleetInv
<1>1. /\ main = "validate" /\ main' \in {"join", "refused"}
      /\ worker' \in [Nodes -> {"load", "unborn"}]
      /\ \A n \in Nodes : worker'[n] = "load" => n \in TestNodes /\ main' = "join"
      /\ UNCHANGED <<permits, seen, runner, outcome, results>>
  <2>1. worker = [n \in Nodes |-> "unborn"]
    BY DEF Fanout, WorkersInPlace, TypeOK
  <2> QED  BY <2>1 DEF Fanout
<1>2. Holding = {} /\ Exited = {}
  BY <1>1 DEF WorkersInPlace, TypeOK, Holding, Exited
<1>3. Holding' = {} /\ Exited' = {}
  BY <1>1 DEF Holding, Exited
<1>4. TypeOK'
  BY <1>1 DEF TypeOK
<1>5. WorkersInPlace' /\ OutcomesAreTrue'
  BY <1>1 DEF WorkersInPlace, OutcomesAreTrue
<1>6. FleetInv'
  BY <1>1, <1>2, <1>3, <1>4, <1>5, QuietMove
<1> QED  BY <1>2, <1>3, <1>6

(* Steps of a worker that neither take nor give back a permit.             *)
LEMMA QuietWorkerStep ==
  ASSUME FleetInv, NEW n \in Nodes,
         Load(n) \/ StartRunner(n) \/ Receive(n) \/ Expire(n)
  PROVE  FleetInv' /\ Holding' = Holding
<1> USE DEF FleetInv
<1>1. PICK w \in {"cas", "wait", "release"} :
        /\ worker' = [worker EXCEPT ![n] = w]
        /\ IF worker[n] = "load" THEN w = "cas"
           ELSE worker[n] \in {"start", "wait"} /\ w \in {"wait", "release"}
        /\ UNCHANGED <<main, permits, results>>
  BY DEF Load, StartRunner, Receive, Expire, Settle
<1>2. Holding' = Holding /\ Exited' = Exited
  BY <1>1 DEF TypeOK, Holding, Exited
<1>3. /\ TypeOK' /\ WorkersInPlace' /\ OutcomesAreTrue'
      /\ \A m \in Nodes : m # n => outcome'[m] = outcome[m]
  <2>1. CASE Load(n)
    BY <2>1 DEF Load, TypeOK, WorkersInPlace, OutcomesAreTrue
  <2>2. CASE StartRunner(n)
    <3>1. outcome[n] # "Completed"
      BY <2>2, FleetAssumption DEF StartRunner, OutcomesAreTrue
    <3> QED  BY <2>2, <3>1 DEF StartRunner, TypeOK, WorkersInPlace, OutcomesAreTrue
  <2>3. CASE Receive(n)
    BY <2>3, FleetAssumption DEF Receive, Settle, outcomeOf, TypeOK, WorkersInPlace, OutcomesAreTrue, Outcomes
  <2>4. CASE Expire(n)
    BY <2>4, FleetAssumption DEF Expire, Settle, TypeOK, WorkersInPlace, OutcomesAreTrue, Outcomes
  <2> QED  BY <2>1, <2>2, <2>3, <2>4
<1>4. \A i \in DOMAIN results : outcome'[results[i].label] = outcome[results[i].label]
  <2>1. \A i \in DOMAIN results : results[i].label \in Exited
    BY DEF ResultsAreExits
  <2>2. n \notin Exited
    BY <1>1 DEF Exited
  <2>3. \A m \in Exited : outcome'[m] = outcome[m]
    BY <1>3, <2>2 DEF Exited
  <2> QED  BY <2>1, <2>3
<1>5. FleetInv'
  BY <1>1, <1>2, <1>3, <1>4, QuietMove
<1> QED  BY <1>2, <1>5

(* The exchange succeeds only if the counter is still what was seen, so it *)
(* takes a permit that is there; otherwise it takes none.                  *)
LEMMA CompareExchangeStep ==
  ASSUME FleetInv, NEW n \in Nodes, CompareExchange(n)
  PROVE  FleetInv' /\ [Pool!PoolNext]_Holding
<1> USE DEF FleetInv
<1>1. worker[n] = "cas" /\ seen[n] > 0 /\ n \in TestNodes /\ n \notin Holding /\ outcome[n] = None
  BY DEF CompareExchange, WorkersInPlace, Holding, OutcomesAreTrue
<1>2. UNCHANGED <<main, seen, runner, outcome, results>>
  BY DEF CompareExchange
<1>3. CASE permits = seen[n]
  <2>1. permits' = permits - 1 /\ worker' = [worker EXCEPT ![n] = "start"]
    BY <1>3 DEF CompareExchange
  <2>2. Holding' = Holding \cup {n} /\ Exited' = Exited
    BY <1>1, <2>1 DEF Holding, Exited, TypeOK
  <2>3. TypeOK' /\ permits \in Nat /\ permits > 0
    BY <1>1, <1>2, <1>3, <2>1 DEF TypeOK
  <2>4. WorkersInPlace' /\ OutcomesAreTrue'
    BY <1>1, <1>2, <2>1 DEF WorkersInPlace, OutcomesAreTrue, TypeOK
  <2>5. Cardinality(Holding') = Cardinality(Holding) + 1
    BY <1>1, <2>2, HoldingFinite, FS_AddElement
  <2>6. PermitAccounting'
    BY <2>1, <2>3, <2>5, HoldingFinite DEF PermitAccounting
  <2>7. ResultsAreExits'
    BY <1>2, <2>2 DEF ResultsAreExits
  <2>8. Cardinality(Holding) < MaxConcurrency
    BY <2>3, HoldingFinite, FleetAssumption DEF PermitAccounting
  <2>9. Pool!PoolNext
    BY <1>1, <2>2, <2>8, PoolCardinality DEF Pool!PoolNext, Pool!Acquire
  <2> QED  BY <2>3, <2>4, <2>6, <2>7, <2>9
<1>4. CASE permits # seen[n]
  <2>1. permits' = permits /\ worker' = [worker EXCEPT ![n] = "load"]
    BY <1>4 DEF CompareExchange
  <2>2. Holding' = Holding /\ Exited' = Exited
    BY <1>1, <2>1 DEF Holding, Exited, TypeOK
  <2>3. TypeOK' /\ WorkersInPlace' /\ OutcomesAreTrue'
    BY <1>1, <1>2, <2>1 DEF TypeOK, WorkersInPlace, OutcomesAreTrue
  <2> QED  BY <1>2, <2>1, <2>2, <2>3, QuietMove
<1> QED  BY <1>3, <1>4

LEMMA ReleaseStep ==
  ASSUME FleetInv, NEW n \in Nodes, Release(n)
  PROVE  FleetInv' /\ [Pool!PoolNext]_Holding
<1> USE DEF FleetInv
<1>1. /\ worker[n] = "release" /\ n \in TestNodes /\ n \in Holding
      /\ permits' = permits + 1 /\ worker' = [worker EXCEPT ![n] = "push"]
      /\ UNCHANGED <<main, seen, runner, outcome, results>>
  BY DEF Release, WorkersInPlace, Holding
<1>2. Holding' = Holding \ {n} /\ Exited' = Exited
  BY <1>1 DEF Holding, Exited, TypeOK
<1>3. TypeOK'
  BY <1>1 DEF TypeOK
<1>4. WorkersInPlace' /\ OutcomesAreTrue'
  BY <1>1 DEF WorkersInPlace, OutcomesAreTrue, TypeOK
<1>5. Cardinality(Holding') = Cardinality(Holding) - 1
  BY <1>1, <1>2, HoldingFinite, FS_RemoveElement
<1>6. PermitAccounting'
  BY <1>1, <1>5, HoldingFinite DEF PermitAccounting, TypeOK
<1>7. ResultsAreExits'
  BY <1>1, <1>2 DEF ResultsAreExits
<1>8. Pool!PoolNext
  BY <1>1, <1>2 DEF Pool!PoolNext, Pool!Release
<1> QED  BY <1>3, <1>4, <1>6, <1>7, <1>8

LEMMA PushStep ==
  ASSUME FleetInv, NEW n \in Nodes, Push(n)
  PROVE  FleetInv' /\ Holding' = Holding
<1> USE DEF FleetInv
<1> DEFINE e == [label |-> n, outcome |-> outcome[n]]
<1>1. /\ worker[n] = "push" /\ worker' = [worker EXCEPT ![n] = "exited"]
      /\ results' = Append(results, e)
      /\ UNCHANGED <<main, permits, seen, runner, outcome>>
  BY DEF Push
<1>2. Holding' = Holding /\ Exited' = Exited \cup {n} /\ n \notin Exited
  BY <1>1 DEF Holding, Exited, TypeOK
<1>3. e \in [label : Nodes, outcome : Outcomes]
  BY <1>1 DEF OutcomesAreTrue, TypeOK
<1>4. TypeOK'
  <2>1. results' \in Seq([label : Nodes, outcome : Outcomes])
    BY <1>1, <1>3 DEF TypeOK
  <2> QED  BY <1>1, <2>1 DEF TypeOK
<1>5. WorkersInPlace' /\ OutcomesAreTrue'
  BY <1>1 DEF WorkersInPlace, OutcomesAreTrue, TypeOK
<1>6. PermitAccounting'
  BY <1>1, <1>2 DEF PermitAccounting
<1>7. /\ Len(results) \in Nat /\ Len(results') = Len(results) + 1
      /\ DOMAIN results = 1 .. Len(results) /\ DOMAIN results' = 1 .. Len(results) + 1
      /\ \A i \in 1 .. Len(results) : results'[i] = results[i]
      /\ results'[Len(results) + 1] = e
  BY <1>1, <1>3 DEF TypeOK
<1>8. {results'[i].label : i \in DOMAIN results'} = Exited'
  <2>1. \A x \in Exited' : \E i \in DOMAIN results' : results'[i].label = x
    <3>1. \A x \in Exited : \E i \in DOMAIN results : results[i].label = x
      BY DEF ResultsAreExits
    <3>2. \A x \in Exited : \E i \in DOMAIN results' : results'[i].label = x
      BY <1>7, <3>1
    <3> QED  BY <1>2, <1>7, <3>2
  <2>2. \A i \in DOMAIN results' : results'[i].label \in Exited'
    <3>1. \A i \in DOMAIN results : results[i].label \in Exited
      BY DEF ResultsAreExits
    <3> QED  BY <1>2, <1>7, <3>1
  <2> QED  BY <2>1, <2>2
<1>9. Len(results') = Cardinality(Exited')
  <2>1. Cardinality(Exited') = Cardinality(Exited) + 1
    BY <1>2, ExitedFinite, FS_AddElement
  <2> QED  BY <1>7, <2>1 DEF ResultsAreExits
<1>10. \A i \in DOMAIN results' : results'[i].outcome = outcome'[results'[i].label]
  BY <1>1, <1>7 DEF ResultsAreExits
<1>11. ResultsAreExits'
  BY <1>1, <1>2, <1>8, <1>9, <1>10 DEF ResultsAreExits
<1> QED  BY <1>2, <1>4, <1>5, <1>6, <1>11

LEMMA OtherStep ==
  ASSUME FleetInv,
         (\E n \in Nodes : Runner(n)) \/ Join \/ Finished \/ UNCHANGED vars
  PROVE  FleetInv' /\ Holding' = Holding
<1> USE DEF FleetInv
<1>1. UNCHANGED <<permits, worker, seen, outcome, results>>
  BY DEF Runner, RunnerEnds, Join, Finished, vars
<1>2. Holding' = Holding /\ Exited' = Exited
  BY <1>1 DEF Holding, Exited
<1>3. PermitAccounting'
  BY <1>1, <1>2 DEF PermitAccounting
<1>4. ASSUME NEW n \in Nodes, Runner(n)
      PROVE  TypeOK' /\ WorkersInPlace' /\ OutcomesAreTrue' /\ ResultsAreExits'
  <2>1. main' = main /\ runner[n] = "running"
        /\ \E how \in {"ok", "err", "panicked"} : runner' = [runner EXCEPT ![n] = how]
    BY <1>4 DEF Runner, RunnerEnds
  <2>2. TypeOK' /\ WorkersInPlace'
    BY <1>1, <2>1 DEF TypeOK, WorkersInPlace
  <2>3. OutcomesAreTrue'
    BY <1>1, <2>1 DEF TypeOK, OutcomesAreTrue
  <2>4. ResultsAreExits'
    BY <1>1, <1>2, <2>1 DEF ResultsAreExits
  <2> QED  BY <2>2, <2>3, <2>4
<1>5. CASE Join
  <2>1. main' = "returned" /\ runner' = runner /\ TestNodes \subseteq Exited
    BY <1>5, FleetAssumption DEF Join, Exited
  <2> QED  BY <1>1, <1>2, <1>3, <2>1
           DEF TypeOK, WorkersInPlace, OutcomesAreTrue, ResultsAreExits
<1>6. CASE Finished \/ UNCHANGED vars
  BY <1>1, <1>2, <1>3, <1>6
  DEF Finished, vars, TypeOK, WorkersInPlace, OutcomesAreTrue, ResultsAreExits
<1> QED  BY <1>2, <1>3, <1>4, <1>5, <1>6

-----------------------------------------------------------------------------
(* Every step keeps the invariant and is a step of the bounded pool.       *)
LEMMA StepFleetInv ==
  ASSUME FleetInv, [Next]_vars
  PROVE  FleetInv' /\ [Pool!PoolNext]_Holding
<1>1. CASE Fanout
  BY <1>1, FanoutStep
<1>2. ASSUME NEW n \in Nodes, Worker(n)
      PROVE  FleetInv' /\ [Pool!PoolNext]_Holding
  BY <1>2, QuietWorkerStep, CompareExchangeStep, ReleaseStep, PushStep DEF Worker
<1>3. CASE (\E n \in Nodes : Runner(n)) \/ Join \/ Finished \/ UNCHANGED vars
  BY <1>3, OtherStep
<1> QED  BY <1>1, <1>2, <1>3 DEF Next

(* Every variable keeps its type; in particular the semaphore never wraps  *)
(* below zero.                                                             *)
THEOREM TypeCorrect == Spec => []TypeOK
<1>1. FleetInv /\ [Next]_vars => FleetInv'
  BY StepFleetInv
<1>2. FleetInv => TypeOK
  BY DEF FleetInv
<1> QED  BY InitFleetInv, <1>1, <1>2, PTL DEF Spec

(* No interleaving of the workers' compare-exchange loops, timeouts and    *)
(* panics loses or invents a permit, whatever the size of the fleet.       *)
THEOREM PermitsAccounted == Spec => []PermitAccounting
<1>1. FleetInv /\ [Next]_vars => FleetInv'
  BY StepFleetInv
<1>2. FleetInv => PermitAccounting
  BY DEF FleetInv
<1> QED  BY InitFleetInv, <1>1, <1>2, PTL DEF Spec

(* The returned results are those of the test nodes, one each, and only a  *)
(* runner that answered Ok in time is counted as completed.                *)
THEOREM EveryNodeOnce == Spec => []ReturnsEveryNodeOnce
<1>1. FleetInv /\ [Next]_vars => FleetInv'
  BY StepFleetInv
<1>2. FleetInv => ReturnsEveryNodeOnce
  <2> SUFFICES ASSUME FleetInv, main = "returned"
               PROVE  /\ {results[i].label : i \in DOMAIN results} = TestNodes
                      /\ summarize_fleet_run(results).total = Cardinality(TestNodes)
                      /\ \A i \in DOMAIN results :
                           results[i].outcome = "Completed" => runner[results[i].label] = "ok"
    BY DEF ReturnsEveryNodeOnce
  <2>1. Exited = TestNodes
    BY DEF FleetInv, ResultsAreExits, WorkersInPlace, Exited
  <2>2. \A i \in DOMAIN results : results[i].label \in Nodes
    BY DEF FleetInv, ResultsAreExits, Exited
  <2>3. summarize_fleet_run(results).total = Len(results)
    BY DEF summarize_fleet_run
  <2> QED  BY <2>1, <2>2, <2>3 DEF FleetInv, ResultsAreExits, OutcomesAreTrue
<1> QED  BY InitFleetInv, <1>1, <1>2, PTL DEF Spec

(* The atomic counter and its worker threads implement the bounded pool:   *)
(* a worker starts a node only while fewer than max_concurrency workers    *)
(* hold a permit.                                                          *)
THEOREM PoolRefinement == Spec => ImplementsPool
<1>1. Init => Pool!PoolInit
  BY DEF Init, Pool!PoolInit, Holding
<1>2. FleetInv /\ [Next]_vars => FleetInv' /\ [Pool!PoolNext]_Holding
  BY StepFleetInv
<1> QED  BY InitFleetInv, <1>1, <1>2, PTL DEF Spec, ImplementsPool, Pool!Spec
=============================================================================

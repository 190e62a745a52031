-------------------------- MODULE AdmissionFanout ---------------------------
(***************************************************************************)
(* run_admission_fanout and AdmissionCohort (network_tests/                *)
(* listener_admission.rs): one thread per listener, all released from a    *)
(* barrier, each stamping its release against a shared reference, running  *)
(* its session on a thread of its own and waiting for it until the safety  *)
(* timeout; the cohort then decides which sessions count and whether there *)
(* are enough of them to publish an aggregate throughput.                  *)
(***************************************************************************)
EXTENDS Integers, FiniteSets, FiniteSetsExt

CONSTANTS
  Targets,        \* the listeners of the fanout
  Requested,      \* requested_streams
  MinimumCohort,  \* minimum_valid_cohort
  MaxSkew,        \* max_start_skew_ms, in units of the model's clock
  Replies,        \* iperf3 replies: [error, streams, bps]
  None,
  MaxClock        \* bound: the clock stops here

ASSUME FanoutAssumption ==
  /\ IsFiniteSet(Targets)
  /\ {Requested, MinimumCohort, MaxSkew, MaxClock} \subseteq Nat
  /\ Replies \subseteq [error : BOOLEAN, streams : Nat, bps : Nat \cup {None}]

VARIABLES
  now,        \* the wall clock
  main,       \* the calling thread
  pc,         \* per target: its thread
  arrived,    \* the threads the barrier has counted
  reference,  \* release_reference
  released,   \* per target: released_at
  skew,       \* per target: start_skew_ms
  session,    \* per target: the runner thread
  reply,      \* per target: the iperf3 reply the runner sent
  result,     \* per target: [outcome, bps]
  inTime      \* history, for the properties only: the sessions whose reply
              \* found their thread still waiting for it

vars == <<now, main, pc, arrived, reference, released, skew, session, reply, result,
          inTime>>

Init ==
  /\ now = 0
  /\ main = "join"
  /\ pc = [t \in Targets |-> "spawned"]
  /\ arrived = {}
  /\ reference = None
  /\ released = [t \in Targets |-> None]
  /\ skew = [t \in Targets |-> None]
  /\ session = [t \in Targets |-> "none"]
  /\ reply = [t \in Targets |-> None]
  /\ result = [t \in Targets |-> None]
  /\ inTime = {}

goto(t, where) == pc' = [pc EXCEPT ![t] = where]

TimePasses ==
  /\ now < MaxClock
  /\ now' = now + 1
  /\ UNCHANGED <<main, pc, arrived, reference, released, skew, session, reply, result, inTime>>

(* barrier.wait(): counted first, let through once all are counted.        *)
Arrive(t) ==
  /\ pc[t] = "spawned"
  /\ arrived' = arrived \cup {t}
  /\ goto(t, "barrier")
  /\ UNCHANGED <<now, main, reference, released, skew, session, reply, result, inTime>>

(* Mutant: the barrier is built for one thread less.                       *)
PassShort(t) ==
  /\ pc[t] = "barrier"
  /\ Cardinality(arrived) + 1 >= Cardinality(Targets)
  /\ released' = [released EXCEPT ![t] = now]
  /\ goto(t, "stamp")
  /\ UNCHANGED <<now, main, arrived, reference, skew, session, reply, result, inTime>>

Pass(t) ==
  /\ pc[t] = "barrier"
  /\ Cardinality(arrived) >= Cardinality(Targets)
  /\ released' = [released EXCEPT ![t] = now]
  /\ goto(t, "stamp")
  /\ UNCHANGED <<now, main, arrived, reference, skew, session, reply, result, inTime>>

(* Mutant: the skew is taken from the clock's origin.                      *)
sinceOrigin(a, b) == a

(* Mutant: the difference is not saturating.                               *)
sinceSigned(a, b) == a - b

(* saturating_duration_since                                               *)
since(a, b) == IF a > b THEN a - b ELSE 0

(* The first thread to take the lock is the reference of all of them.      *)
Stamp(t) ==
  /\ pc[t] = "stamp"
  /\ reference' = IF reference = None THEN released[t] ELSE reference
  /\ skew' = [skew EXCEPT ![t] = since(released[t], reference')]
  /\ goto(t, "start")
  /\ UNCHANGED <<now, main, arrived, released, session, reply, result, inTime>>

StartSession(t) ==
  /\ pc[t] = "start"
  /\ session' = [session EXCEPT ![t] = "running"]
  /\ goto(t, "wait")
  /\ UNCHANGED <<now, main, arrived, reference, released, skew, reply, result, inTime>>

classify_result(r) ==
  IF r.error \/ r.streams = 0 THEN "NeverAdmitted"
  ELSE IF r.streams < Requested THEN "PartiallyAdmitted"
  ELSE "FullyAdmitted"

(* Mutant: the runner fills in the result itself, in a slot it shares with *)
(* the thread that waits for it.                                           *)
SessionEndsInPlace(t, how, r) ==
  /\ session[t] = "running"
  /\ session' = [session EXCEPT ![t] = how]
  /\ reply' = [reply EXCEPT ![t] = r]
  /\ inTime' = IF how = "replied" /\ pc[t] = "wait" THEN inTime \cup {t} ELSE inTime
  /\ result' = IF how = "replied" /\ pc[t] = "exited"
               THEN [result EXCEPT ![t] = [outcome |-> classify_result(r), bps |-> r.bps]]
               ELSE result
  /\ UNCHANGED <<now, main, pc, arrived, reference, released, skew>>

(* The session ends with an iperf3 reply, with an error, or by a panic,    *)
(* and sends what it has to a thread that may have stopped waiting.        *)
SessionEnds(t, how, r) ==
  /\ session[t] = "running"
  /\ session' = [session EXCEPT ![t] = how]
  /\ reply' = [reply EXCEPT ![t] = r]
  /\ inTime' = IF how = "replied" /\ pc[t] = "wait" THEN inTime \cup {t} ELSE inTime
  /\ UNCHANGED <<now, main, pc, arrived, reference, released, skew, result>>

Settle(t, outcome, bps) ==
  /\ result' = [result EXCEPT ![t] = [outcome |-> outcome, bps |-> bps]]
  /\ goto(t, "exited")
  /\ UNCHANGED <<now, main, arrived, reference, released, skew, session, reply, inTime>>

Receive(t) ==
  /\ pc[t] = "wait"
  /\ \/ /\ session[t] = "replied"
        /\ LET outcome == classify_result(reply[t])
           IN  Settle(t, outcome, IF outcome = "FullyAdmitted" THEN reply[t].bps
                                                               ELSE None)
     \/ /\ session[t] = "failed"
        /\ Settle(t, "NeverAdmitted", None)
     \/ /\ session[t] = "panicked"
        /\ Settle(t, "SafetyTimeout", None)

(* Mutant: nobody watches the clock.                                       *)
ExpireNever(t) ==
  /\ FALSE
  /\ Settle(t, "SafetyTimeout", None)

(* The safety timeout; the session goes on unattended.                     *)
Expire(t) ==
  /\ pc[t] = "wait"
  /\ session[t] = "running"
  /\ Settle(t, "SafetyTimeout", None)

Join ==
  /\ main = "join"
  /\ \A t \in Targets : pc[t] = "exited"
  /\ main' = "returned"
  /\ UNCHANGED <<now, pc, arrived, reference, released, skew, session, reply, result, inTime>>

Thread(t) == \/ Arrive(t) \/ Pass(t) \/ Stamp(t) \/ StartSession(t) \/ Receive(t)
             \/ Expire(t)

Session(t) == \/ SessionEnds(t, "failed", None) \/ SessionEnds(t, "panicked", None)
              \/ \E r \in Replies : SessionEnds(t, "replied", r)

Finished == main = "returned" /\ UNCHANGED vars

Next == TimePasses \/ Join \/ Finished \/ \E t \in Targets : Thread(t) \/ Session(t)

(* Threads are scheduled and the safety timeout expires; a session need    *)
(* never end.                                                              *)
Spec == Init /\ [][Next]_vars /\ WF_vars(Join) /\ \A t \in Targets : WF_vars(Thread(t))

-----------------------------------------------------------------------------
(* AdmissionCohort                                                         *)

session_is_valid(t) == result[t].outcome = "FullyAdmitted" /\ skew[t] <= MaxSkew

valid_throughput_results == {t \in Targets : session_is_valid(t)}

(* filter_map: a session without a receiver figure is passed over.         *)
aggregate_receiver_bps ==
  IF Cardinality(valid_throughput_results) < MinimumCohort THEN None
  ELSE MapThenSumSet(LAMBDA t : result[t].bps,
                     {t \in valid_throughput_results : result[t].bps # None})

excluded_with_reason ==
  {<<t, IF result[t].outcome = "FullyAdmitted" THEN "start skew exceeded fanout tolerance"
        ELSE result[t].outcome>> : t \in Targets \ valid_throughput_results}

-----------------------------------------------------------------------------
Outcomes == {"FullyAdmitted", "PartiallyAdmitted", "NeverAdmitted", "SafetyTimeout"}

ASSUME NoneAssumption ==
  None \notin Nat \cup Replies \cup [outcome : Outcomes, bps : Nat \cup {None}]

(* Every variable has the type the code gives it.                          *)
TypeOK ==
  /\ now \in 0 .. MaxClock
  /\ main \in {"join", "returned"}
  /\ pc \in [Targets -> {"spawned", "barrier", "stamp", "start", "wait", "exited"}]
  /\ arrived \subseteq Targets
  /\ reference \in Nat \cup {None}
  /\ released \in [Targets -> Nat \cup {None}]
  /\ skew \in [Targets -> Nat \cup {None}]
  /\ session \in [Targets -> {"none", "running", "replied", "failed", "panicked"}]
  /\ reply \in [Targets -> Replies \cup {None}]
  /\ result \in [Targets -> {None} \cup [outcome : Outcomes, bps : Nat \cup {None}]]
  /\ inTime \subseteq Targets

(* No session begins before every thread of the fanout has reached the     *)
(* barrier: "start every probe at the exact same epoch".                   *)
NobodyStartsEarly ==
  (\E t \in Targets : session[t] # "none") =>
     \A u \in Targets : pc[u] # "spawned"

(* A session excluded for its skew really was released later than another  *)
(* one by more than the tolerance, whichever thread became the reference.  *)
SkewExclusionIsTrue ==
  \A t \in Targets : skew[t] # None /\ skew[t] > MaxSkew =>
    \E u \in Targets : released[u] # None /\ released[t] > released[u] + MaxSkew

AnsweredInFull(t) == t \in inTime /\ ~reply[t].error /\ reply[t].streams >= Requested

(* When the fanout returns, every target has a result.  From then on, and  *)
(* however late an abandoned session still replies, a throughput figure is *)
(* that of a session which replied before the safety timeout with every    *)
(* stream connected; only such a session counts as valid; and an aggregate *)
(* is published only if there are enough of them.                          *)
FigureNeedsFullAdmission ==
  main = "returned" =>
    /\ \A t \in Targets :
         /\ result[t] # None
         /\ result[t].bps # None => AnsweredInFull(t) /\ result[t].bps = reply[t].bps
         /\ session_is_valid(t) => AnsweredInFull(t)
    /\ aggregate_receiver_bps # None =>
         Cardinality({t \in Targets : AnsweredInFull(t)}) >= MinimumCohort

(* The fanout returns: the barrier lets everyone through and a session     *)
(* that hangs is abandoned at the safety timeout.                          *)
FanoutReturns == <>(main = "returned")
=============================================================================

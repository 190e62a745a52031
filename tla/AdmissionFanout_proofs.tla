----------------------- MODULE AdmissionFanout_proofs -----------------------
(***************************************************************************)
(* Proofs about AdmissionFanout, for every finite set of listeners, every  *)
(* set of iperf3 replies, every tolerance and every cohort minimum.        *)
(***************************************************************************)
EXTENDS AdmissionFanout, FiniteSetTheorems, TLAPS

Past == {"stamp", "start", "wait", "exited"}

(* The barrier has counted the threads that reached it, and whoever is     *)
(* past it found all of them counted.                                      *)
BarrierCounts ==
  /\ arrived = {t \in Targets : pc[t] # "spawned"}
  /\ \A t \in Targets : pc[t] \in Past => arrived = Targets

(* A release is stamped on leaving the barrier, a session started after.   *)
StampedOnce ==
  \A t \in Targets :
    /\ released[t] # None <=> pc[t] \in Past
    /\ session[t] # "none" => pc[t] \in {"wait", "exited"}

(* The reference is the release of one of the threads, and every skew is   *)
(* measured against it.                                                    *)
SkewsAgree ==
  /\ reference # None => \E u \in Targets : released[u] = reference
  /\ \A t \in Targets : skew[t] # None =>
       /\ reference # None /\ released[t] # None
       /\ skew[t] = since(released[t], reference)

(* A figure is that of a reply.                                            *)
FigureOf(t) == result[t].bps = reply[t].bps

(* A result is what the reply allows, and a reply that found its thread    *)
(* waiting is in time; a reply does not change any more.                   *)
ResultsFollow ==
  /\ main = "returned" => \A t \in Targets : pc[t] = "exited"
  /\ \A t \in Targets :
       /\ reply[t] # None => session[t] = "replied"
       /\ session[t] = "replied" => reply[t] \in Replies
       /\ pc[t] = "exited" <=> result[t] # None
       /\ t \in inTime => session[t] = "replied"
       /\ pc[t] = "wait" /\ session[t] = "replied" => t \in inTime
       /\ result[t] # None /\ (result[t].outcome = "FullyAdmitted" \/ result[t].bps # None)
            => AnsweredInFull(t)
       /\ result[t] # None /\ result[t].bps # None => FigureOf(t)

FanoutInv == TypeOK /\ BarrierCounts /\ StampedOnce /\ SkewsAgree /\ ResultsFollow

-----------------------------------------------------------------------------
LEMMA SinceNat ==
  ASSUME NEW a \in Nat, NEW b \in Nat
  PROVE  since(a, b) \in Nat
BY DEF since

(* What classify_result calls fully admitted was answered in full.         *)
LEMMA ClassifyMeans ==
  ASSUME NEW r \in Replies
  PROVE  /\ classify_result(r) \in Outcomes
         /\ classify_result(r) = "FullyAdmitted" => ~r.error /\ r.streams >= Requested
<1>1. r.streams \in Nat /\ Requested \in Nat
  BY FanoutAssumption
<1> QED  BY <1>1 DEF classify_result, Outcomes

LEMMA InitFanoutInv == Init => FanoutInv
<1> SUFFICES ASSUME Init PROVE FanoutInv
  OBVIOUS
<1>1. TypeOK
  BY FanoutAssumption DEF Init, TypeOK
<1>2. BarrierCounts /\ StampedOnce /\ SkewsAgree /\ ResultsFollow
  BY DEF Init, BarrierCounts, StampedOnce, SkewsAgree, ResultsFollow, Past
<1> QED  BY <1>1, <1>2 DEF FanoutInv

-----------------------------------------------------------------------------
LEMMA TypeStep ==
  ASSUME FanoutInv, [Next]_vars
  PROVE  TypeOK'
<1> USE DEF FanoutInv
<1>1. CASE TimePasses
  BY <1>1, FanoutAssumption DEF TimePasses, TypeOK
<1>2. CASE Join
  BY <1>2 DEF Join, TypeOK
<1>3. ASSUME NEW t \in Targets, Arrive(t) PROVE TypeOK'
  BY <1>3 DEF Arrive, goto, TypeOK
<1>4. ASSUME NEW t \in Targets, Pass(t) PROVE TypeOK'
  <2>1. now \in Nat
    BY DEF TypeOK
  <2> QED  BY <1>4, <2>1 DEF Pass, goto, TypeOK
<1>5. ASSUME NEW t \in Targets, Stamp(t) PROVE TypeOK'
  <2>1. pc[t] = "stamp" /\ released[t] \in Nat
    BY <1>5 DEF Stamp, StampedOnce, Past, TypeOK
  <2>2. reference' \in Nat
    BY <1>5, <2>1 DEF Stamp, TypeOK
  <2>3. since(released[t], reference') \in Nat
    BY <2>1, <2>2, SinceNat
  <2> QED  BY <1>5, <2>2, <2>3 DEF Stamp, goto, TypeOK
<1>6. ASSUME NEW t \in Targets, StartSession(t) PROVE TypeOK'
  BY <1>6 DEF StartSession, goto, TypeOK
<1>7. ASSUME NEW t \in Targets, Session(t) PROVE TypeOK'
  BY <1>7 DEF Session, SessionEnds, TypeOK
<1>8. ASSUME NEW t \in Targets, Receive(t) \/ Expire(t) PROVE TypeOK'
  <2>1. PICK o \in Outcomes, b \in Nat \cup {None} : Settle(t, o, b)
    <3>1. CASE session[t] = "replied" /\ Receive(t)
      <4>1. reply[t] \in Replies
        BY <3>1 DEF ResultsFollow
      <4>2. reply[t].bps \in Nat \cup {None}
        BY <4>1, FanoutAssumption
      <4> QED  BY <3>1, <4>1, <4>2, ClassifyMeans DEF Receive
    <3>2. CASE session[t] # "replied" \/ Expire(t)
      BY <1>8, <3>2 DEF Receive, Expire, Outcomes
    <3> QED  BY <1>8, <3>1, <3>2
  <2>2. result' = [result EXCEPT ![t] = [outcome |-> o, bps |-> b]]
    BY <2>1 DEF Settle
  <2> QED  BY <2>1, <2>2 DEF Settle, goto, TypeOK
<1>9. CASE Finished \/ UNCHANGED vars
  BY <1>9 DEF Finished, vars, TypeOK
<1> QED  BY <1>1, <1>2, <1>3, <1>4, <1>5, <1>6, <1>7, <1>8, <1>9 DEF Next, Thread

-----------------------------------------------------------------------------
(* The barrier and the stamps.                                             *)
LEMMA BarrierStep ==
  ASSUME FanoutInv, [Next]_vars
  PROVE  BarrierCounts' /\ StampedOnce' /\ SkewsAgree'
<1> USE DEF FanoutInv
<1>1. CASE TimePasses \/ Join \/ Finished \/ UNCHANGED vars
  <2>1. UNCHANGED <<pc, arrived, reference, released, skew, session>>
    BY <1>1 DEF TimePasses, Join, Finished, vars
  <2> QED  BY <2>1 DEF BarrierCounts, StampedOnce, SkewsAgree
<1>2. ASSUME NEW t \in Targets, Arrive(t) PROVE BarrierCounts' /\ StampedOnce' /\ SkewsAgree'
  <2>1. /\ pc[t] = "spawned" /\ pc' = [pc EXCEPT ![t] = "barrier"]
        /\ arrived' = arrived \cup {t}
        /\ UNCHANGED <<reference, released, skew, session>>
    BY <1>2 DEF Arrive, goto
  <2>2. BarrierCounts'
    BY <2>1 DEF BarrierCounts, TypeOK, Past
  <2>3. StampedOnce'
    BY <2>1 DEF StampedOnce, TypeOK, Past
  <2> QED  BY <2>1, <2>2, <2>3 DEF SkewsAgree
<1>3. ASSUME NEW t \in Targets, Pass(t) PROVE BarrierCounts' /\ StampedOnce' /\ SkewsAgree'
  <2>1. /\ pc[t] = "barrier" /\ pc' = [pc EXCEPT ![t] = "stamp"]
        /\ Cardinality(arrived) >= Cardinality(Targets)
        /\ released' = [released EXCEPT ![t] = now]
        /\ UNCHANGED <<arrived, reference, skew, session>>
    BY <1>3 DEF Pass, goto
  <2>2. arrived = Targets
    <3>1. IsFiniteSet(Targets) /\ arrived \in SUBSET Targets
      BY FanoutAssumption DEF TypeOK
    <3>2. IsFiniteSet(arrived) /\ Cardinality(arrived) <= Cardinality(Targets)
          /\ (Cardinality(Targets) = Cardinality(arrived) => Targets = arrived)
      BY <3>1, FS_Subset
    <3>3. Cardinality(Targets) \in Nat /\ Cardinality(arrived) \in Nat
      BY <3>1, <3>2, FS_CardinalityType
    <3> QED  BY <2>1, <3>2, <3>3
  <2>3. BarrierCounts'
    BY <2>1, <2>2 DEF BarrierCounts, TypeOK
  <2>4. now \in Nat /\ now # None /\ released[t] = None
    BY <2>1, NoneAssumption DEF TypeOK, StampedOnce, Past
  <2>5. StampedOnce'
    BY <2>1, <2>4 DEF StampedOnce, TypeOK, Past
  <2>6. \A u \in Targets : released[u] # None => released'[u] = released[u]
    BY <2>1, <2>4 DEF TypeOK
  <2>7. SkewsAgree'
    BY <2>1, <2>6 DEF SkewsAgree
  <2> QED  BY <2>3, <2>5, <2>7
<1>4. ASSUME NEW t \in Targets, Stamp(t) PROVE BarrierCounts' /\ StampedOnce' /\ SkewsAgree'
  <2>1. /\ pc[t] = "stamp" /\ pc' = [pc EXCEPT ![t] = "start"]
        /\ reference' = IF reference = None THEN released[t] ELSE reference
        /\ skew' = [skew EXCEPT ![t] = since(released[t], reference')]
        /\ UNCHANGED <<arrived, released, session>>
    BY <1>4 DEF Stamp, goto
  <2>2. BarrierCounts'
    BY <2>1 DEF BarrierCounts, TypeOK, Past
  <2>3. StampedOnce'
    BY <2>1 DEF StampedOnce, TypeOK, Past
  <2>4. released[t] # None
    BY <2>1 DEF StampedOnce, Past
  <2>5. reference' # None /\ \E u \in Targets : released[u] = reference'
    BY <2>1, <2>4 DEF SkewsAgree
  <2>6. ASSUME NEW u \in Targets, u # t, skew'[u] # None
        PROVE  /\ released[u] # None
               /\ skew'[u] = since(released[u], reference')
    BY <2>1, <2>6 DEF SkewsAgree, TypeOK
  <2>7. skew'[t] = since(released[t], reference')
    BY <2>1 DEF TypeOK
  <2>8. SkewsAgree'
    BY <2>1, <2>4, <2>5, <2>6, <2>7 DEF SkewsAgree
  <2> QED  BY <2>2, <2>3, <2>8
<1>5. ASSUME NEW t \in Targets, StartSession(t)
      PROVE  BarrierCounts' /\ StampedOnce' /\ SkewsAgree'
  <2>1. /\ pc[t] = "start" /\ pc' = [pc EXCEPT ![t] = "wait"]
        /\ session' = [session EXCEPT ![t] = "running"]
        /\ UNCHANGED <<arrived, reference, released, skew>>
    BY <1>5 DEF StartSession, goto
  <2>2. BarrierCounts'
    BY <2>1 DEF BarrierCounts, TypeOK, Past
  <2>3. StampedOnce'
    BY <2>1 DEF StampedOnce, TypeOK, Past
  <2> QED  BY <2>1, <2>2, <2>3 DEF SkewsAgree
<1>6. ASSUME NEW t \in Targets, Session(t) PROVE BarrierCounts' /\ StampedOnce' /\ SkewsAgree'
  <2>1. /\ session[t] = "running"
        /\ \E how \in {"failed", "panicked", "replied"} : session' = [session EXCEPT ![t] = how]
        /\ UNCHANGED <<pc, arrived, reference, released, skew>>
    BY <1>6 DEF Session, SessionEnds
  <2>2. StampedOnce'
    BY <2>1 DEF StampedOnce, TypeOK
  <2> QED  BY <2>1, <2>2 DEF BarrierCounts, SkewsAgree
<1>7. ASSUME NEW t \in Targets, Receive(t) \/ Expire(t)
      PROVE  BarrierCounts' /\ StampedOnce' /\ SkewsAgree'
  <2>1. /\ pc[t] = "wait" /\ pc' = [pc EXCEPT ![t] = "exited"]
        /\ UNCHANGED <<arrived, reference, released, skew, session>>
    BY <1>7 DEF Receive, Expire, Settle, goto
  <2>2. BarrierCounts'
    BY <2>1 DEF BarrierCounts, TypeOK, Past
  <2>3. StampedOnce'
    BY <2>1 DEF StampedOnce, TypeOK, Past
  <2> QED  BY <2>1, <2>2, <2>3 DEF SkewsAgree
<1> QED  BY <1>1, <1>2, <1>3, <1>4, <1>5, <1>6, <1>7 DEF Next, Thread

-----------------------------------------------------------------------------
(* The results.                                                            *)
LEMMA ResultStep ==
  ASSUME FanoutInv, [Next]_vars
  PROVE  ResultsFollow'
<1> USE DEF FanoutInv
<1>1. CASE TimePasses \/ Join \/ Finished \/ UNCHANGED vars
  <2>1. UNCHANGED <<pc, session, reply, result, inTime>>
        /\ (main' = "returned" => main = "returned" \/ \A t \in Targets : pc[t] = "exited")
    BY <1>1 DEF TimePasses, Join, Finished, vars
  <2> QED  BY <2>1 DEF ResultsFollow, AnsweredInFull, FigureOf
<1>2. ASSUME NEW t \in Targets, Arrive(t) \/ Pass(t) \/ Stamp(t) PROVE ResultsFollow'
  <2>1. /\ pc[t] # "exited"
        /\ \E w \in {"barrier", "stamp", "start"} : pc' = [pc EXCEPT ![t] = w]
        /\ UNCHANGED <<main, session, reply, result, inTime>>
    BY <1>2 DEF Arrive, Pass, Stamp, goto
  <2> QED  BY <2>1 DEF ResultsFollow, AnsweredInFull, FigureOf, TypeOK
<1>3. ASSUME NEW t \in Targets, StartSession(t) PROVE ResultsFollow'
  <2>1. /\ pc[t] = "start" /\ pc' = [pc EXCEPT ![t] = "wait"]
        /\ session' = [session EXCEPT ![t] = "running"]
        /\ UNCHANGED <<main, reply, result, inTime>>
    BY <1>3 DEF StartSession, goto
  <2>2. session[t] # "replied" /\ reply[t] = None /\ t \notin inTime
    BY <2>1 DEF StampedOnce, ResultsFollow
  <2> QED  BY <2>1, <2>2 DEF ResultsFollow, AnsweredInFull, FigureOf, TypeOK
<1>4. ASSUME NEW t \in Targets, Session(t) PROVE ResultsFollow'
  <2>1. PICK how \in {"failed", "panicked", "replied"}, r \in Replies \cup {None} :
          /\ session[t] = "running"
          /\ session' = [session EXCEPT ![t] = how] /\ reply' = [reply EXCEPT ![t] = r]
          /\ inTime' = IF how = "replied" /\ pc[t] = "wait" THEN inTime \cup {t} ELSE inTime
          /\ how = "replied" <=> r \in Replies
          /\ UNCHANGED <<main, pc, result>>
    BY <1>4, NoneAssumption DEF Session, SessionEnds
  <2>2. t \notin inTime /\ ~AnsweredInFull(t)
    BY <2>1 DEF ResultsFollow, AnsweredInFull
  <2>3. \A u \in Targets : u # t => /\ session'[u] = session[u] /\ reply'[u] = reply[u]
                                    /\ (u \in inTime') = (u \in inTime)
                                    /\ AnsweredInFull(u)' = AnsweredInFull(u)
                                    /\ FigureOf(u)' = FigureOf(u)
    BY <2>1 DEF TypeOK, AnsweredInFull, FigureOf
  <2>4. session'[t] = how /\ reply'[t] = r
    BY <2>1 DEF TypeOK
  <2>5. /\ t \in inTime' => session'[t] = "replied"
        /\ pc'[t] = "wait" /\ session'[t] = "replied" => t \in inTime'
    BY <2>1, <2>2, <2>4
  <2>6. ~(result[t] # None /\ (result[t].outcome = "FullyAdmitted" \/ result[t].bps # None))
    BY <2>2 DEF ResultsFollow
  <2> QED  BY <2>1, <2>3, <2>4, <2>5, <2>6, NoneAssumption DEF ResultsFollow
<1>5. ASSUME NEW t \in Targets, Receive(t) \/ Expire(t) PROVE ResultsFollow'
  <2>1. PICK o \in Outcomes, b \in Nat \cup {None} :
          /\ Settle(t, o, b)
          /\ o = "FullyAdmitted" \/ b # None => AnsweredInFull(t)
          /\ b # None => b = reply[t].bps
    <3>1. CASE session[t] = "replied" /\ Receive(t)
      <4>1. reply[t] \in Replies /\ t \in inTime
        BY <3>1 DEF ResultsFollow, Receive
      <4>2. reply[t].bps \in Nat \cup {None}
        BY <4>1, FanoutAssumption
      <4>3. classify_result(reply[t]) = "FullyAdmitted" => AnsweredInFull(t)
        BY <4>1, ClassifyMeans, NoneAssumption DEF AnsweredInFull
      <4> QED  BY <3>1, <4>1, <4>2, <4>3, ClassifyMeans DEF Receive
    <3>2. CASE session[t] # "replied" \/ Expire(t)
      BY <1>5, <3>2 DEF Receive, Expire, Outcomes
    <3> QED  BY <1>5, <3>1, <3>2
  <2>2. /\ pc' = [pc EXCEPT ![t] = "exited"]
        /\ result' = [result EXCEPT ![t] = [outcome |-> o, bps |-> b]]
        /\ UNCHANGED <<main, session, reply, inTime>>
    BY <2>1 DEF Settle, goto
  <2>3. result'[t] = [outcome |-> o, bps |-> b] /\ result'[t] # None
    BY <2>2, NoneAssumption DEF TypeOK
  <2>4. \A u \in Targets : u # t => result'[u] = result[u] /\ pc'[u] = pc[u]
                                    /\ FigureOf(u)' = FigureOf(u)
    BY <2>2 DEF TypeOK, FigureOf
  <2>5. \A u \in Targets : AnsweredInFull(u)' = AnsweredInFull(u)
    BY <2>2 DEF AnsweredInFull
  <2>6. pc'[t] = "exited" /\ (b # None => FigureOf(t)')
    BY <2>1, <2>2, <2>3 DEF TypeOK, FigureOf
  <2> QED  BY <2>1, <2>2, <2>3, <2>4, <2>5, <2>6 DEF ResultsFollow
<1> QED  BY <1>1, <1>2, <1>3, <1>4, <1>5 DEF Next, Thread

LEMMA FanoutInvariant == Spec => []FanoutInv
<1>1. FanoutInv /\ [Next]_vars => FanoutInv'
  <2> SUFFICES ASSUME FanoutInv, [Next]_vars PROVE FanoutInv'
    OBVIOUS
  <2> QED  BY TypeStep, BarrierStep, ResultStep DEF FanoutInv
<1> QED  BY InitFanoutInv, <1>1, PTL DEF Spec

-----------------------------------------------------------------------------
(* Every variable keeps its type in every fanout.                          *)
THEOREM TypeCorrect == Spec => []TypeOK
<1>1. FanoutInv => TypeOK
  BY DEF FanoutInv
<1> QED  BY FanoutInvariant, <1>1, PTL

(* No session begins before every thread has reached the barrier, however  *)
(* many listeners there are.                                               *)
THEOREM NoEarlyStart == Spec => []NobodyStartsEarly
<1>1. FanoutInv => NobodyStartsEarly
  BY DEF FanoutInv, BarrierCounts, StampedOnce, NobodyStartsEarly, Past
<1> QED  BY FanoutInvariant, <1>1, PTL

(* A session excluded for its skew was released later than another one by  *)
(* more than the tolerance, whichever thread took the lock first.          *)
THEOREM SkewExclusion == Spec => []SkewExclusionIsTrue
<1>1. ASSUME FanoutInv, NEW t \in Targets, skew[t] # None, skew[t] > MaxSkew
      PROVE  \E u \in Targets : released[u] # None /\ released[t] > released[u] + MaxSkew
  <2>1. /\ reference # None /\ released[t] # None
        /\ skew[t] = since(released[t], reference)
    BY <1>1 DEF FanoutInv, SkewsAgree
  <2>2. PICK u \in Targets : released[u] = reference
    BY <1>1, <2>1 DEF FanoutInv, SkewsAgree
  <2>3. released[t] \in Nat /\ released[u] \in Nat /\ MaxSkew \in Nat
    BY <1>1, <2>1, <2>2, FanoutAssumption DEF FanoutInv, TypeOK
  <2>4. released[t] > released[u] + MaxSkew
    BY <1>1, <2>1, <2>2, <2>3 DEF since
  <2> QED  BY <2>1, <2>2, <2>4
<1>2. FanoutInv => SkewExclusionIsTrue
  BY <1>1 DEF SkewExclusionIsTrue
<1> QED  BY FanoutInvariant, <1>2, PTL

(* For any number of listeners: when the fanout returns, every target has  *)
(* a result; from then on a figure is that of a session which replied      *)
(* before the safety timeout and in full, only such sessions are valid,    *)
(* and an aggregate is published only if at least MinimumCohort of them    *)
(* did, whatever an abandoned session still sends.                         *)
THEOREM FigureAdmitted == Spec => []FigureNeedsFullAdmission
<1>1. ASSUME FanoutInv, main = "returned", NEW t \in Targets
      PROVE  /\ result[t] # None
             /\ result[t].bps # None => AnsweredInFull(t) /\ result[t].bps = reply[t].bps
             /\ session_is_valid(t) => AnsweredInFull(t)
  BY <1>1 DEF FanoutInv, ResultsFollow, session_is_valid, FigureOf
<1>2. ASSUME FanoutInv, main = "returned", aggregate_receiver_bps # None
      PROVE  Cardinality({t \in Targets : AnsweredInFull(t)}) >= MinimumCohort
  <2> DEFINE full == {t \in Targets : AnsweredInFull(t)}
  <2>1. ~(Cardinality(valid_throughput_results) < MinimumCohort)
    BY <1>2 DEF aggregate_receiver_bps
  <2>2. valid_throughput_results \subseteq full
    BY <1>2 DEF valid_throughput_results, session_is_valid, FanoutInv, ResultsFollow
  <2>3. IsFiniteSet(full)
    BY FS_Subset, FanoutAssumption
  <2>4. IsFiniteSet(valid_throughput_results)
        /\ Cardinality(valid_throughput_results) <= Cardinality(full)
    BY <2>2, <2>3, FS_Subset
  <2>5. Cardinality(valid_throughput_results) \in Nat /\ Cardinality(full) \in Nat
        /\ MinimumCohort \in Nat
    BY <2>3, <2>4, FS_CardinalityType, FanoutAssumption
  <2> QED  BY <2>1, <2>4, <2>5
<1>3. FanoutInv => FigureNeedsFullAdmission
  BY <1>1, <1>2 DEF FigureNeedsFullAdmission
<1> QED  BY FanoutInvariant, <1>3, PTL
=============================================================================

------------------------- MODULE TuiUpdates_proofs --------------------------
(***************************************************************************)
(* Proofs about TuiUpdates, for every set of targets, every operator and   *)
(* every number of runs, retests and tracepaths.                           *)
(***************************************************************************)
EXTENDS TuiUpdates, FiniteSetTheorems, TLAPS

-----------------------------------------------------------------------------
(* The inductive invariant.                                                *)

Updates ==
  [kind : {"Complete"}, index : Targets, answer : Answers, job : Nat]
    \cup [kind : {"AllComplete", "TracepathOutput", "TracepathComplete"}]

Jobs == [kind : {"run", "ended run", "retest"}, channel : Nat, todo : SUBSET Targets]

(* TypeOK, with the types of what only the threads see.                    *)
Types ==
  /\ TypeOK
  /\ operator \in Operators
  /\ queue \in Seq(Updates)
  /\ jobs \in Seq(Jobs)

(* At most one completion is on its way, and only from the tracepath that  *)
(* set the flag and has ended.                                             *)
TraceInv ==
  /\ trace # None => tracing
  /\ \A k \in DOMAIN queue :
       queue[k].kind = "TracepathComplete" =>
         /\ tracing /\ trace = None
         /\ \A l \in DOMAIN queue : queue[l].kind = "TracepathComplete" => l = k

last == jobs[Len(jobs)]

(* What waiting gives: only the last job can be under way, and it sends to *)
(* the channel that is read.                                               *)
OnlyLast ==
  jobs # <<>> =>
    /\ last.channel = channel
    /\ \A j \in DOMAIN jobs : UnderWay(j) => j = Len(jobs)

(* What is queued comes from the last job; AllComplete comes after every   *)
(* result, once, while the run still counts as running.                    *)
QueueOrder ==
  \A k \in DOMAIN queue :
    /\ queue[k].kind = "Complete" => jobs # <<>> /\ queue[k].job = Len(jobs)
    /\ queue[k].kind = "AllComplete" =>
         /\ testing /\ jobs # <<>> /\ last.kind = "ended run" /\ last.todo = {}
         /\ \A l \in DOMAIN queue :
              queue[l].kind \in {"Complete", "AllComplete"} => l <= k

(* While a run is on, each target is being tested, has its result on the   *)
(* way, or has it; and AllComplete is on the way once the run has ended.   *)
RunOn ==
  testing =>
    /\ jobs # <<>>
    /\ last.kind \in {"run", "ended run"}
    /\ last.kind = "ended run" => \E k \in DOMAIN queue : queue[k].kind = "AllComplete"
    /\ \A i \in Targets :
         \/ i \in last.todo
         \/ \E k \in DOMAIN queue : queue[k].kind = "Complete" /\ queue[k].index = i
         \/ results[i].job = Len(jobs) /\ results[i].status \in {"Complete", "Failed"}

(* Once it is over nothing of it is left anywhere but in the results.      *)
RunOver ==
  ~testing =>
    /\ \A j \in runs : \A i \in Targets :
         results[i].status \in {"Complete", "Failed", "Testing"} /\ results[i].job >= j
    /\ jobs # <<>> => last.kind # "run"
    /\ jobs # <<>> /\ last.kind = "ended run" =>
         /\ last.todo = {}
         /\ \A k \in DOMAIN queue : queue[k].kind # "Complete"
         /\ found(results) # {} => verdict = verdictOf(results)

PatientInv == operator.patient => OnlyLast /\ QueueOrder /\ RunOn /\ RunOver

TuiInv == Types /\ TraceInv /\ PatientInv

-----------------------------------------------------------------------------
(* Sequences.                                                              *)

LEMMA SeqDomain ==
  ASSUME NEW S, NEW q \in Seq(S)
  PROVE  /\ Len(q) \in Nat /\ DOMAIN q = 1 .. Len(q)
         /\ \A k \in DOMAIN q : q[k] \in S
         /\ q = <<>> <=> Len(q) = 0
OBVIOUS

LEMMA TailSeq ==
  ASSUME NEW S, NEW q \in Seq(S), q # <<>>
  PROVE  /\ Tail(q) \in Seq(S)
         /\ 1 \in DOMAIN q /\ Head(q) = q[1]
         /\ \A k \in DOMAIN Tail(q) : k \in Nat /\ k + 1 \in DOMAIN q /\ Tail(q)[k] = q[k + 1]
         /\ \A k \in DOMAIN q : k # 1 => k - 1 \in DOMAIN Tail(q) /\ Tail(q)[k - 1] = q[k]
<1>1. Len(q) \in Nat \ {0} /\ DOMAIN q = 1 .. Len(q)
  BY SeqDomain
<1>2. Tail(q) \in Seq(S) /\ Len(Tail(q)) = Len(q) - 1
      /\ \A k \in 1 .. Len(q) - 1 : Tail(q)[k] = q[k + 1]
  BY <1>1
<1>3. DOMAIN Tail(q) = 1 .. Len(q) - 1
  BY <1>1, <1>2, SeqDomain
<1>4. ASSUME NEW k \in DOMAIN q, k # 1
      PROVE  k - 1 \in DOMAIN Tail(q) /\ Tail(q)[k - 1] = q[k]
  <2>1. k - 1 \in 1 .. Len(q) - 1 /\ (k - 1) + 1 = k
    BY <1>1, <1>4
  <2> QED  BY <1>2, <1>3, <2>1
<1> QED  BY <1>1, <1>2, <1>3, <1>4

LEMMA ConcatSeq ==
  ASSUME NEW S, NEW q \in Seq(S), NEW us \in Seq(S)
  PROVE  /\ q \o us \in Seq(S)
         /\ \A k \in DOMAIN q : k \in DOMAIN (q \o us) /\ (q \o us)[k] = q[k]
         /\ \A m \in DOMAIN us :
              Len(q) + m \in DOMAIN (q \o us) /\ (q \o us)[Len(q) + m] = us[m]
         /\ \A k \in DOMAIN (q \o us) :
              k \in DOMAIN q \/ \E m \in DOMAIN us : k = Len(q) + m
<1>1. /\ Len(q) \in Nat /\ DOMAIN q = 1 .. Len(q)
      /\ Len(us) \in Nat /\ DOMAIN us = 1 .. Len(us)
  BY SeqDomain
<1>2. q \o us \in Seq(S) /\ Len(q \o us) = Len(q) + Len(us)
      /\ \A k \in 1 .. Len(q) + Len(us) :
           (q \o us)[k] = IF k <= Len(q) THEN q[k] ELSE us[k - Len(q)]
  BY <1>1
<1>3. DOMAIN (q \o us) = 1 .. Len(q) + Len(us)
  BY <1>1, <1>2, SeqDomain
<1>4. ASSUME NEW m \in DOMAIN us
      PROVE  Len(q) + m \in DOMAIN (q \o us) /\ (q \o us)[Len(q) + m] = us[m]
  <2>1. /\ m \in Nat /\ m >= 1 /\ Len(q) + m \in 1 .. Len(q) + Len(us)
        /\ ~(Len(q) + m <= Len(q)) /\ (Len(q) + m) - Len(q) = m
    BY <1>1, <1>4
  <2> QED  BY <1>2, <1>3, <2>1
<1>5. ASSUME NEW k \in DOMAIN (q \o us), k \notin DOMAIN q
      PROVE  \E m \in DOMAIN us : k = Len(q) + m
  <2>1. k - Len(q) \in 1 .. Len(us) /\ k = Len(q) + (k - Len(q))
    BY <1>1, <1>3, <1>5
  <2> QED  BY <1>1, <2>1
<1>6. ASSUME NEW k \in DOMAIN q
      PROVE  k \in DOMAIN (q \o us) /\ (q \o us)[k] = q[k]
  <2>1. k \in 1 .. Len(q) + Len(us) /\ k <= Len(q)
    BY <1>1
  <2> QED  BY <1>2, <1>3, <2>1
<1> QED  BY <1>2, <1>4, <1>5, <1>6

(* What a send leaves in the queue that is read.                           *)
LEMMA SendSeq ==
  ASSUME queue \in Seq(Updates), NEW c, NEW us \in Seq(Updates), Send(c, us)
  PROVE  /\ queue' \in Seq(Updates)
         /\ \A k \in DOMAIN queue : k \in DOMAIN queue' /\ queue'[k] = queue[k]
         /\ \A k \in DOMAIN queue' : k \notin DOMAIN queue =>
              /\ c = channel /\ \A l \in DOMAIN queue : l < k
              /\ \E m \in DOMAIN us : k = Len(queue) + m /\ queue'[k] = us[m]
         /\ c = channel => \A m \in DOMAIN us :
              Len(queue) + m \in DOMAIN queue' /\ queue'[Len(queue) + m] = us[m]
<1>1. CASE c = channel
  <2>1. queue' = queue \o us
    BY <1>1 DEF Send
  <2>2. ASSUME NEW k \in DOMAIN queue', k \notin DOMAIN queue
        PROVE  /\ \A l \in DOMAIN queue : l < k
               /\ \E m \in DOMAIN us : k = Len(queue) + m /\ queue'[k] = us[m]
    <3>1. PICK m \in DOMAIN us : k = Len(queue) + m
      BY <2>1, <2>2, ConcatSeq
    <3>2. queue'[k] = us[m]
      BY <2>1, <3>1, ConcatSeq
    <3>3. Len(queue) \in Nat /\ DOMAIN queue = 1 .. Len(queue) /\ m \in Nat /\ m >= 1
      BY <3>1, SeqDomain
    <3> QED  BY <3>1, <3>2, <3>3
  <2> QED  BY <1>1, <2>1, <2>2, ConcatSeq
<1>2. CASE c # channel
  <2>1. queue' = queue
    BY <1>2 DEF Send
  <2> QED  BY <1>2, <2>1
<1> QED  BY <1>1, <1>2

(* Replacing one job.                                                      *)
LEMMA JobReplaced ==
  ASSUME NEW js \in Seq(Jobs), NEW j \in DOMAIN js, NEW r \in Jobs
  PROVE  /\ [js EXCEPT ![j] = r] \in Seq(Jobs)
         /\ Len([js EXCEPT ![j] = r]) = Len(js)
         /\ DOMAIN [js EXCEPT ![j] = r] = DOMAIN js
         /\ \A x \in DOMAIN js : [js EXCEPT ![j] = r][x] = IF x = j THEN r ELSE js[x]
<1>1. Len(js) \in Nat /\ DOMAIN js = 1 .. Len(js) /\ \A x \in DOMAIN js : js[x] \in Jobs
  BY SeqDomain
<1>2. [js EXCEPT ![j] = r] \in [1 .. Len(js) -> Jobs]
  BY <1>1
<1>3. [js EXCEPT ![j] = r] \in Seq(Jobs)
  BY <1>1, <1>2
<1>4. Len([js EXCEPT ![j] = r]) = Len(js)
  BY <1>1, <1>2, <1>3
<1> QED  BY <1>1, <1>2, <1>3, <1>4

LEMMA JobAppended ==
  ASSUME NEW js \in Seq(Jobs), NEW r \in Jobs
  PROVE  /\ Append(js, r) \in Seq(Jobs) /\ Append(js, r) # <<>>
         /\ Len(Append(js, r)) = Len(js) + 1
         /\ DOMAIN Append(js, r) = 1 .. Len(js) + 1
         /\ Append(js, r)[Len(js) + 1] = r
         /\ \A x \in DOMAIN js : Append(js, r)[x] = js[x]
<1>1. Len(js) \in Nat /\ DOMAIN js = 1 .. Len(js)
  BY SeqDomain
<1>2. /\ Append(js, r) \in Seq(Jobs) /\ Len(Append(js, r)) = Len(js) + 1
      /\ Append(js, r)[Len(js) + 1] = r
      /\ \A x \in 1 .. Len(js) : Append(js, r)[x] = js[x]
  OBVIOUS
<1> QED  BY <1>1, <1>2, SeqDomain

-----------------------------------------------------------------------------
(* The steps, as the invariant sees them.                                  *)

LEMMA SendOne ==
  ASSUME queue \in Seq(Updates), NEW c, NEW u \in Updates, Send(c, <<u>>)
  PROVE  /\ queue' \in Seq(Updates)
         /\ \A k \in DOMAIN queue : k \in DOMAIN queue' /\ queue'[k] = queue[k]
         /\ \A k \in DOMAIN queue' : k \notin DOMAIN queue =>
              /\ c = channel /\ k = Len(queue) + 1 /\ queue'[k] = u
              /\ \A l \in DOMAIN queue : l < k
         /\ c = channel => /\ Len(queue) + 1 \in DOMAIN queue'
                           /\ queue'[Len(queue) + 1] = u
<1>1. <<u>> \in Seq(Updates) /\ DOMAIN <<u>> = {1} /\ <<u>>[1] = u
  <2>1. <<u>> \in Seq(Updates) /\ Len(<<u>>) = 1 /\ <<u>>[1] = u
    OBVIOUS
  <2> QED  BY <2>1, SeqDomain
<1> HIDE DEF Updates
<1>2. /\ queue' \in Seq(Updates)
      /\ \A k \in DOMAIN queue : k \in DOMAIN queue' /\ queue'[k] = queue[k]
      /\ \A k \in DOMAIN queue' : k \notin DOMAIN queue =>
           /\ c = channel /\ \A l \in DOMAIN queue : l < k
           /\ \E m \in DOMAIN <<u>> : k = Len(queue) + m /\ queue'[k] = <<u>>[m]
      /\ c = channel => \A m \in DOMAIN <<u>> :
           Len(queue) + m \in DOMAIN queue' /\ queue'[Len(queue) + m] = <<u>>[m]
  BY <1>1, SendSeq
<1> QED  BY <1>1, <1>2

LEMMA TakeFacts ==
  ASSUME queue \in Seq(Updates), NEW kind, Take(kind)
  PROVE  /\ queue' \in Seq(Updates)
         /\ 1 \in DOMAIN queue /\ Head(queue) = queue[1] /\ queue[1].kind = kind
         /\ queue[1] \in Updates
         /\ \A k \in DOMAIN queue' : k \in Nat /\ k + 1 \in DOMAIN queue /\ queue'[k] = queue[k + 1]
         /\ \A k \in DOMAIN queue : k # 1 => k - 1 \in DOMAIN queue' /\ queue'[k - 1] = queue[k]
<1>1. queue # <<>> /\ Head(queue).kind = kind /\ queue' = Tail(queue)
  BY DEF Take
<1>2. queue[1] \in Updates
  BY <1>1, TailSeq, SeqDomain
<1> QED  BY <1>1, <1>2, TailSeq

LEMMA UpdateShapes ==
  /\ \A i \in Targets, a \in Answers, j \in Nat :
       [kind |-> "Complete", index |-> i, answer |-> a, job |-> j] \in Updates
  /\ [kind |-> "AllComplete"] \in Updates
  /\ [kind |-> "TracepathOutput"] \in Updates
  /\ [kind |-> "TracepathComplete"] \in Updates
  /\ \A u \in Updates : u.kind = "Complete" =>
       u.index \in Targets /\ u.answer \in Answers /\ u.job \in Nat
BY DEF Updates

LEMMA JobShape ==
  ASSUME NEW r \in Jobs
  PROVE  /\ r.kind \in {"run", "ended run", "retest"} /\ r.channel \in Nat
         /\ r.todo \subseteq Targets
         /\ \A t \in SUBSET Targets : [r EXCEPT !.todo = t] \in Jobs
         /\ [r EXCEPT !.kind = "ended run"] \in Jobs
BY DEF Jobs

(* A worker ends: its target leaves the job, its result joins the queue of *)
(* the job's channel.                                                      *)
LEMMA TestEndsFacts ==
  ASSUME Types, NEW j \in DOMAIN jobs, NEW i \in Targets, NEW a \in Answers, TestEnds(j, i, a)
  PROVE  LET u == [kind |-> "Complete", index |-> i, answer |-> a, job |-> j]
         IN  /\ u \in Updates /\ Send(jobs[j].channel, <<u>>)
             /\ i \in jobs[j].todo
             /\ jobs' \in Seq(Jobs) /\ Len(jobs') = Len(jobs) /\ DOMAIN jobs' = DOMAIN jobs
             /\ \A x \in DOMAIN jobs : /\ jobs'[x].kind = jobs[x].kind
                                       /\ jobs'[x].channel = jobs[x].channel
                                       /\ x # j => jobs'[x].todo = jobs[x].todo
             /\ jobs'[j].todo = jobs[j].todo \ {i}
<1>1. jobs \in Seq(Jobs) /\ jobs[j] \in Jobs /\ j \in Nat
  BY SeqDomain DEF Types
<1> DEFINE r == [jobs[j] EXCEPT !.todo = jobs[j].todo \ {i}]
<1>2. /\ r \in Jobs /\ r.kind = jobs[j].kind /\ r.channel = jobs[j].channel
      /\ r.todo = jobs[j].todo \ {i}
  <2>1. jobs[j].todo \ {i} \in SUBSET Targets
    BY <1>1, JobShape
  <2> QED  BY <1>1, <2>1 DEF Jobs
<1>3. jobs' = [jobs EXCEPT ![j] = r]
  BY DEF TestEnds
<1> HIDE DEF r
<1>4. /\ jobs' \in Seq(Jobs) /\ Len(jobs') = Len(jobs) /\ DOMAIN jobs' = DOMAIN jobs
      /\ \A x \in DOMAIN jobs : jobs'[x] = IF x = j THEN r ELSE jobs[x]
  <2>1. r \in Jobs
    BY <1>2
  <2> QED  BY <1>1, <1>3, <2>1, JobReplaced, ZenonT(30)
<1> QED  BY <1>1, <1>2, <1>4, UpdateShapes DEF TestEnds

(* A coordinator ends.                                                     *)
LEMMA RunEndsFacts ==
  ASSUME Types, NEW j \in DOMAIN jobs, RunEnds(j)
  PROVE  /\ Send(jobs[j].channel, <<[kind |-> "AllComplete"]>>)
         /\ jobs[j].kind = "run" /\ jobs[j].todo = {}
         /\ jobs' \in Seq(Jobs) /\ Len(jobs') = Len(jobs) /\ DOMAIN jobs' = DOMAIN jobs
         /\ \A x \in DOMAIN jobs : /\ jobs'[x].todo = jobs[x].todo
                                   /\ jobs'[x].channel = jobs[x].channel
                                   /\ x # j => jobs'[x].kind = jobs[x].kind
         /\ jobs'[j].kind = "ended run"
<1>1. jobs \in Seq(Jobs) /\ jobs[j] \in Jobs /\ j \in Nat
  BY SeqDomain DEF Types
<1> DEFINE r == [jobs[j] EXCEPT !.kind = "ended run"]
<1>2. /\ r \in Jobs /\ r.kind = "ended run" /\ r.channel = jobs[j].channel
      /\ r.todo = jobs[j].todo
  BY <1>1 DEF Jobs
<1>3. jobs' = [jobs EXCEPT ![j] = r]
  BY DEF RunEnds
<1> HIDE DEF r
<1>4. /\ jobs' \in Seq(Jobs) /\ Len(jobs') = Len(jobs) /\ DOMAIN jobs' = DOMAIN jobs
      /\ \A x \in DOMAIN jobs : jobs'[x] = IF x = j THEN r ELSE jobs[x]
  <2>1. r \in Jobs
    BY <1>2
  <2> QED  BY <1>1, <1>3, <2>1, JobReplaced, ZenonT(30)
<1> QED  BY <1>1, <1>2, <1>4 DEF RunEnds

(* A result is applied.                                                    *)
LEMMA ApplyFacts ==
  ASSUME Types, ApplyComplete
  PROVE  LET u == queue[1]
         IN  /\ Take("Complete") /\ u.index \in Targets /\ u.job \in Nat
             /\ results' \in [Targets -> [status : {"Pending", "Testing", "Complete", "Failed"},
                                          mtu : Mtus \cup {None}, job : Nat]]
             /\ \A i \in Targets : i # u.index => results'[i] = results[i]
             /\ results'[u.index].status \in {"Complete", "Failed"}
             /\ results'[u.index].job = u.job
<1>1. Take("Complete")
  BY DEF ApplyComplete
<1>2. queue[1] \in Updates /\ queue[1].kind = "Complete" /\ Head(queue) = queue[1]
  BY <1>1, TakeFacts DEF Types
<1> DEFINE u == queue[1]
<1>3. u.index \in Targets /\ u.answer \in Answers /\ u.job \in Nat
  BY <1>2, UpdateShapes
<1>4. u.answer.mtu \in Mtus \cup {None}
  BY <1>3 DEF Answers
<1> DEFINE r == [status |-> IF u.answer.any THEN "Complete" ELSE "Failed",
                 mtu |-> u.answer.mtu, job |-> u.job]
<1>5. r \in [status : {"Pending", "Testing", "Complete", "Failed"},
             mtu : Mtus \cup {None}, job : Nat]
  BY <1>3, <1>4
<1>6. r.status \in {"Complete", "Failed"} /\ r.job = u.job
  OBVIOUS
<1>7. results' = [results EXCEPT ![u.index] = r]
  BY <1>2 DEF ApplyComplete
<1> HIDE DEF u, r
<1>8. /\ results' \in [Targets -> [status : {"Pending", "Testing", "Complete", "Failed"},
                                   mtu : Mtus \cup {None}, job : Nat]]
      /\ \A i \in Targets : i # u.index => results'[i] = results[i]
      /\ results'[u.index] = r
  BY <1>3, <1>5, <1>7 DEF Types, TypeOK
<1> QED  BY <1>1, <1>3, <1>6, <1>8 DEF u

(* A job starts.                                                           *)
LEMMA StartFacts ==
  ASSUME Types, start_testing
  PROVE  LET r == [kind |-> "run", channel |-> channel, todo |-> Targets]
         IN  /\ r \in Jobs /\ jobs' = Append(jobs, r)
             /\ results' \in [Targets -> [status : {"Pending", "Testing", "Complete", "Failed"},
                                          mtu : Mtus \cup {None}, job : Nat]]
<1>1. [kind |-> "run", channel |-> channel, todo |-> Targets] \in Jobs
  BY DEF Types, TypeOK, Jobs
<1>2. Pending \in [status : {"Pending", "Testing", "Complete", "Failed"},
                   mtu : Mtus \cup {None}, job : Nat]
  BY DEF Pending
<1> QED  BY <1>1, <1>2 DEF start_testing

LEMMA RetestFacts ==
  ASSUME Types, NEW i \in Targets, retest_target(i)
  PROVE  LET r == [kind |-> "retest", channel |-> channel + 1, todo |-> {i}]
         IN  /\ r \in Jobs /\ jobs' = Append(jobs, r)
             /\ results' \in [Targets -> [status : {"Pending", "Testing", "Complete", "Failed"},
                                          mtu : Mtus \cup {None}, job : Nat]]
             /\ \A x \in Targets : /\ results'[x].job = results[x].job
                                   /\ results'[x].status \in {results[x].status, "Testing"}
             /\ channel' = channel + 1 /\ channel' \in Nat /\ queue' = <<>>
<1> DEFINE R == [status : {"Pending", "Testing", "Complete", "Failed"},
                 mtu : Mtus \cup {None}, job : Nat]
<1> DEFINE r == [kind |-> "retest", channel |-> channel + 1, todo |-> {i}]
<1>0. channel + 1 \in Nat
  BY DEF Types, TypeOK
<1>a. r \in Jobs
  BY <1>0 DEF Jobs
<1> HIDE DEF r
<1>1. /\ r \in Jobs
      /\ channel' = channel + 1 /\ channel' \in Nat /\ queue' = <<>>
      /\ jobs' = Append(jobs, r)
      /\ results' = [results EXCEPT ![i].status = "Testing"]
  BY <1>0, <1>a DEF retest_target, r
<1>2. results \in [Targets -> R] /\ results[i] \in R
  BY DEF Types, TypeOK
<1>3. results' = [results EXCEPT ![i] = [results[i] EXCEPT !.status = "Testing"]]
  BY <1>1
<1> DEFINE q == [results[i] EXCEPT !.status = "Testing"]
<1>4. q \in R /\ q.job = results[i].job /\ q.status = "Testing"
  BY <1>2
<1> HIDE DEF q, R
<1>5. results' \in [Targets -> R] /\ \A x \in Targets : results'[x] = IF x = i THEN q ELSE results[x]
  BY <1>2, <1>3, <1>4 DEF q
<1>6. \A x \in Targets : /\ results'[x].job = results[x].job
                         /\ results'[x].status \in {results[x].status, "Testing"}
  BY <1>4, <1>5
<1> QED  BY <1>1, <1>5, <1>6 DEF R, r

LEMMA TypeStep ==
  ASSUME Types, [Next]_vars
  PROVE  Types'
<1>0. queue \in Seq(Updates) /\ jobs \in Seq(Jobs)
  BY DEF Types
<1>1. CASE start_testing
  <2>1. jobs' \in Seq(Jobs)
    BY <1>0, <1>1, StartFacts, JobAppended
  <2>2. results' \in [Targets -> [status : {"Pending", "Testing", "Complete", "Failed"},
                                  mtu : Mtus \cup {None}, job : Nat]]
    BY <1>1, StartFacts
  <2> QED  BY <1>1, <2>1, <2>2 DEF start_testing, Presses, Types, TypeOK
<1>2. ASSUME NEW i \in Targets, retest_target(i) PROVE Types'
  <2>1. \E r \in Jobs : jobs' = Append(jobs, r)
    BY <1>2, RetestFacts
  <2>a. jobs' \in Seq(Jobs)
    BY <1>0, <2>1, JobAppended
  <2>2. /\ channel' \in Nat /\ queue' = <<>>
        /\ results' \in [Targets -> [status : {"Pending", "Testing", "Complete", "Failed"},
                                     mtu : Mtus \cup {None}, job : Nat]]
    BY <1>2, RetestFacts
  <2>3. queue' \in Seq(Updates)
    BY <2>2
  <2> QED  BY <1>2, <2>a, <2>2, <2>3 DEF retest_target, Presses, Types, TypeOK
<1>3. CASE run_tracepath
  BY <1>3 DEF run_tracepath, Presses, Types, TypeOK
<1>4. ASSUME NEW j \in DOMAIN jobs, NEW i \in Targets, NEW a \in Answers, TestEnds(j, i, a)
      PROVE  Types'
  <2>1. queue' \in Seq(Updates)
    BY <1>0, <1>4, TestEndsFacts, SendOne
  <2>2. jobs' \in Seq(Jobs)
    BY <1>4, TestEndsFacts
  <2> QED  BY <1>4, <2>1, <2>2 DEF TestEnds, Types, TypeOK
<1>5. ASSUME NEW j \in DOMAIN jobs, RunEnds(j) PROVE Types'
  <2>1. queue' \in Seq(Updates)
    BY <1>0, <1>5, RunEndsFacts, SendOne, UpdateShapes
  <2>2. jobs' \in Seq(Jobs)
    BY <1>5, RunEndsFacts
  <2> QED  BY <1>5, <2>1, <2>2 DEF RunEnds, Types, TypeOK
<1>6. CASE TraceFails
  <2>1. queue' \in Seq(Updates)
    BY <1>0, <1>6, SendOne, UpdateShapes DEF TraceFails
  <2> QED  BY <1>6, <2>1 DEF TraceFails, Types, TypeOK
<1>7. CASE TraceEnds
  <2>1. <<[kind |-> "TracepathOutput"], [kind |-> "TracepathComplete"]>> \in Seq(Updates)
    BY UpdateShapes
  <2>2. queue' \in Seq(Updates)
    BY <1>0, <1>7, <2>1, SendSeq DEF TraceEnds
  <2> QED  BY <1>7, <2>2 DEF TraceEnds, Types, TypeOK
<1>8. CASE ApplyComplete
  <2>1. queue' \in Seq(Updates)
    BY <1>0, <1>8, TakeFacts DEF ApplyComplete
  <2>2. results' \in [Targets -> [status : {"Pending", "Testing", "Complete", "Failed"},
                                  mtu : Mtus \cup {None}, job : Nat]]
    BY <1>8, ApplyFacts
  <2> QED  BY <1>8, <2>1, <2>2 DEF ApplyComplete, Types, TypeOK
<1>9. CASE ApplyAllComplete \/ ApplyTracepathOutput \/ ApplyTracepathComplete
  <2>1. queue' \in Seq(Updates)
    BY <1>0, <1>9, TakeFacts DEF ApplyAllComplete, ApplyTracepathOutput, ApplyTracepathComplete
  <2> QED  BY <1>9, <2>1
           DEF ApplyAllComplete, ApplyTracepathOutput, ApplyTracepathComplete, Types, TypeOK
<1>10. CASE SaveReport \/ UNCHANGED vars
  BY <1>10 DEF SaveReport, vars, Types, TypeOK
<1> QED  BY <1>1, <1>2, <1>3, <1>4, <1>5, <1>6, <1>7, <1>8, <1>9, <1>10
         DEF Next, Threads, process_test_updates

-----------------------------------------------------------------------------
(* Tracepaths.                                                             *)

(* A queue without a new completion keeps TraceInv.                        *)
LEMMA TraceKept ==
  ASSUME TraceInv,
         \A k \in DOMAIN queue' : queue'[k].kind = "TracepathComplete" =>
           k \in DOMAIN queue /\ queue'[k] = queue[k],
         tracing' = tracing, trace' \in {trace, None}
  PROVE  TraceInv'
BY DEF TraceInv

LEMMA TraceStep ==
  ASSUME Types, TraceInv, [Next]_vars
  PROVE  TraceInv'
<1>0. queue \in Seq(Updates)
  BY DEF Types
<1>1. CASE start_testing \/ SaveReport \/ UNCHANGED vars
  <2>1. UNCHANGED <<queue, tracing, trace>>
    BY <1>1 DEF start_testing, SaveReport, vars
  <2> QED  BY <2>1, TraceKept
<1>2. ASSUME NEW i \in Targets, retest_target(i) PROVE TraceInv'
  <2>1. queue' = <<>> /\ UNCHANGED <<tracing, trace>>
    BY <1>2 DEF retest_target
  <2>2. DOMAIN queue' = {}
    BY <2>1
  <2> QED  BY <2>1, <2>2, TraceKept
<1>3. CASE run_tracepath
  <2>1. ~tracing /\ tracing' = TRUE /\ trace' = channel /\ queue' = queue
    BY <1>3 DEF run_tracepath
  <2>2. \A k \in DOMAIN queue : queue[k].kind # "TracepathComplete"
    BY <2>1 DEF TraceInv
  <2> QED  BY <2>1, <2>2 DEF TraceInv
<1>4. ASSUME NEW j \in DOMAIN jobs, NEW i \in Targets, NEW a \in Answers, TestEnds(j, i, a)
      PROVE  TraceInv'
  <2> DEFINE u == [kind |-> "Complete", index |-> i, answer |-> a, job |-> j]
  <2>1. u \in Updates /\ Send(jobs[j].channel, <<u>>) /\ u.kind = "Complete"
    BY <1>4, TestEndsFacts
  <2> HIDE DEF u
  <2>2. \A k \in DOMAIN queue' : IF k \in DOMAIN queue THEN queue'[k] = queue[k]
                                                       ELSE queue'[k] = u
    BY <1>0, <2>1, SendOne
  <2> QED  BY <1>4, <2>1, <2>2, TraceKept DEF TestEnds
<1>5. ASSUME NEW j \in DOMAIN jobs, RunEnds(j) PROVE TraceInv'
  <2> DEFINE u == [kind |-> "AllComplete"]
  <2>1. u \in Updates /\ Send(jobs[j].channel, <<u>>) /\ u.kind = "AllComplete"
    BY <1>5, RunEndsFacts, UpdateShapes
  <2> HIDE DEF u
  <2>2. \A k \in DOMAIN queue' : IF k \in DOMAIN queue THEN queue'[k] = queue[k]
                                                       ELSE queue'[k] = u
    BY <1>0, <2>1, SendOne
  <2> QED  BY <1>5, <2>1, <2>2, TraceKept DEF RunEnds
<1>6. CASE TraceFails
  <2> DEFINE u == [kind |-> "TracepathOutput"]
  <2>1. u \in Updates /\ Send(trace, <<u>>) /\ u.kind = "TracepathOutput"
    BY <1>6, UpdateShapes DEF TraceFails
  <2> HIDE DEF u
  <2>2. \A k \in DOMAIN queue' : IF k \in DOMAIN queue THEN queue'[k] = queue[k]
                                                       ELSE queue'[k] = u
    BY <1>0, <2>1, SendOne
  <2> QED  BY <1>6, <2>1, <2>2, TraceKept DEF TraceFails
<1>7. CASE TraceEnds
  <2> DEFINE us == <<[kind |-> "TracepathOutput"], [kind |-> "TracepathComplete"]>>
  <2>1. /\ trace # None /\ trace' = None /\ tracing' = tracing /\ Send(trace, us)
    BY <1>7 DEF TraceEnds
  <2>2. tracing /\ \A k \in DOMAIN queue : queue[k].kind # "TracepathComplete"
    BY <2>1 DEF TraceInv
  <2>3. /\ us \in Seq(Updates) /\ DOMAIN us = {1, 2}
        /\ us[1].kind = "TracepathOutput" /\ us[2].kind = "TracepathComplete"
    <3>1. us \in Seq(Updates) /\ Len(us) = 2
      BY UpdateShapes
    <3>2. us[1].kind = "TracepathOutput" /\ us[2].kind = "TracepathComplete"
      OBVIOUS
    <3>3. DOMAIN us = 1 .. 2
      BY <3>1, SeqDomain
    <3> QED  BY <3>1, <3>2, <3>3
  <2> HIDE DEF us
  <2>4. \A k \in DOMAIN queue' :
          \/ k \in DOMAIN queue /\ queue'[k] = queue[k]
          \/ \E m \in DOMAIN us : k = Len(queue) + m /\ queue'[k] = us[m]
    BY <1>0, <2>1, <2>3, SendSeq
  <2>5. \A k \in DOMAIN queue' : queue'[k].kind = "TracepathComplete" => k = Len(queue) + 2
    BY <2>2, <2>3, <2>4
  <2> QED  BY <2>1, <2>2, <2>5 DEF TraceInv
<1>8. CASE ApplyComplete \/ ApplyAllComplete \/ ApplyTracepathOutput
  <2>1. /\ \A k \in DOMAIN queue' : k \in Nat /\ k + 1 \in DOMAIN queue /\ queue'[k] = queue[k + 1]
        /\ UNCHANGED <<tracing, trace>>
    BY <1>0, <1>8, TakeFacts DEF ApplyComplete, ApplyAllComplete, ApplyTracepathOutput
  <2>2. ASSUME NEW k \in DOMAIN queue', queue'[k].kind = "TracepathComplete"
        PROVE  /\ tracing /\ trace = None
               /\ \A l \in DOMAIN queue' : queue'[l].kind = "TracepathComplete" => l = k
    <3>1. k + 1 \in DOMAIN queue /\ queue[k + 1].kind = "TracepathComplete"
      BY <2>1, <2>2
    <3>2. /\ tracing /\ trace = None
          /\ \A l \in DOMAIN queue : queue[l].kind = "TracepathComplete" => l = k + 1
      BY <3>1 DEF TraceInv
    <3>3. \A l \in DOMAIN queue' : queue'[l].kind = "TracepathComplete" => l + 1 = k + 1
      BY <2>1, <3>2
    <3> QED  BY <2>1, <3>2, <3>3
  <2> QED  BY <2>1, <2>2 DEF TraceInv
<1>9. CASE ApplyTracepathComplete
  <2>1. /\ 1 \in DOMAIN queue /\ queue[1].kind = "TracepathComplete"
        /\ \A k \in DOMAIN queue' : k \in Nat /\ k + 1 \in DOMAIN queue /\ queue'[k] = queue[k + 1]
        /\ tracing' = FALSE /\ trace' = trace
    BY <1>0, <1>9, TakeFacts DEF ApplyTracepathComplete
  <2>2. /\ trace = None
        /\ \A l \in DOMAIN queue : queue[l].kind = "TracepathComplete" => l = 1
    BY <2>1 DEF TraceInv
  <2>3. \A k \in DOMAIN queue' : queue'[k].kind # "TracepathComplete"
    <3>1. DOMAIN queue' \subseteq 1 .. Len(queue')
      BY <1>0, <1>9, TakeFacts, SeqDomain DEF ApplyTracepathComplete
    <3>2. \A k \in DOMAIN queue' : k # 0 /\ k + 1 # 1
      BY <2>1, <1>0, <1>9, TakeFacts, SeqDomain DEF ApplyTracepathComplete
    <3> QED  BY <2>1, <2>2, <3>2
  <2> QED  BY <2>1, <2>2, <2>3 DEF TraceInv
<1> QED  BY <1>1, <1>2, <1>3, <1>4, <1>5, <1>6, <1>7, <1>8, <1>9
         DEF Next, Threads, process_test_updates

-----------------------------------------------------------------------------
(* Runs, for an operator who waits.                                        *)

Waits == OnlyLast /\ QueueOrder /\ RunOn /\ RunOver

LEMMA LastJob ==
  ASSUME Types, jobs # <<>>
  PROVE  /\ Len(jobs) \in Nat \ {0} /\ Len(jobs) \in DOMAIN jobs /\ DOMAIN jobs = 1 .. Len(jobs)
         /\ last \in Jobs /\ last = jobs[Len(jobs)]
<1>1. Len(jobs) \in Nat /\ DOMAIN jobs = 1 .. Len(jobs) /\ Len(jobs) # 0
  BY SeqDomain DEF Types
<1>2. Len(jobs) \in DOMAIN jobs
  BY <1>1
<1> QED  BY <1>1, <1>2, SeqDomain DEF Types, last

(* Updates that are neither a result nor AllComplete change nothing.       *)
LEMMA QuietStep ==
  ASSUME Waits, UNCHANGED <<channel, results, testing, verdict, jobs>>,
         \A k \in DOMAIN queue : k \in DOMAIN queue' /\ queue'[k] = queue[k],
         \A k \in DOMAIN queue' :
           k \in DOMAIN queue \/ queue'[k].kind \notin {"Complete", "AllComplete"}
  PROVE  Waits'
<1>1. last' = last /\ runs' = runs /\ \A j : UnderWay(j)' <=> UnderWay(j)
  BY DEF last, runs, UnderWay
<1>2. OnlyLast'
  BY <1>1 DEF Waits, OnlyLast
<1>3. QueueOrder'
  BY <1>1 DEF Waits, QueueOrder
<1>4. RunOn'
  BY <1>1 DEF Waits, RunOn
<1>5. RunOver'
  <2>1. found(results)' = found(results) /\ verdictOf(results)' = verdictOf(results)
    BY DEF found, verdictOf, median
  <2> QED  BY <1>1, <2>1 DEF Waits, RunOver
<1> QED  BY <1>2, <1>3, <1>4, <1>5 DEF Waits

(* The operator has waited: the run before is over.                        *)
LEMMA IdleMeansOver ==
  ASSUME Types, Waits, Idle
  PROVE  ~testing /\ DOMAIN queue = {}
<1>1. queue = <<>> /\ \A j \in DOMAIN jobs : ~UnderWay(j)
  BY DEF Idle
<1>2. DOMAIN queue = {}
  BY <1>1
<1>3. ASSUME testing PROVE FALSE
  <2>1. /\ jobs # <<>> /\ last.kind \in {"run", "ended run"}
        /\ last.kind = "ended run" => \E k \in DOMAIN queue : queue[k].kind = "AllComplete"
    BY <1>3 DEF Waits, RunOn
  <2>2. last.kind = "run"
    BY <1>2, <2>1
  <2>3. UnderWay(Len(jobs)) /\ Len(jobs) \in DOMAIN jobs
    BY <2>1, <2>2, LastJob DEF UnderWay
  <2> QED  BY <1>1, <2>3
<1> QED  BY <1>2, <1>3

(* A job is appended while none is under way.                              *)
LEMMA AppendOnlyLast ==
  ASSUME Types, Idle, NEW r \in Jobs, jobs' = Append(jobs, r), r.channel = channel'
  PROVE  /\ OnlyLast' /\ jobs' # <<>> /\ last' = r /\ Len(jobs') = Len(jobs) + 1
         /\ \A j \in DOMAIN jobs' : j = Len(jobs') \/ (j \in DOMAIN jobs /\ jobs'[j] = jobs[j])
<1>1. /\ jobs \in Seq(Jobs) /\ Len(jobs) \in Nat /\ DOMAIN jobs = 1 .. Len(jobs)
  BY SeqDomain DEF Types
<1>2. /\ jobs' # <<>> /\ Len(jobs') = Len(jobs) + 1 /\ DOMAIN jobs' = 1 .. Len(jobs) + 1
      /\ jobs'[Len(jobs) + 1] = r /\ \A x \in DOMAIN jobs : jobs'[x] = jobs[x]
  BY <1>1, JobAppended
<1>3. \A j \in DOMAIN jobs' : j = Len(jobs') \/ (j \in DOMAIN jobs /\ jobs'[j] = jobs[j])
  BY <1>1, <1>2
<1>4. last' = r
  BY <1>2 DEF last
<1>5. \A j \in DOMAIN jobs' : UnderWay(j)' => j = Len(jobs')
  BY <1>3 DEF UnderWay, Idle
<1> QED  BY <1>2, <1>3, <1>4, <1>5 DEF OnlyLast

LEMMA StartStep ==
  ASSUME Types, Waits, operator.patient, start_testing
  PROVE  Waits'
<1>1. Idle /\ testing' = TRUE /\ UNCHANGED <<channel, queue>>
  BY DEF start_testing, Presses
<1> DEFINE r == [kind |-> "run", channel |-> channel, todo |-> Targets]
<1>2. /\ r \in Jobs /\ jobs' = Append(jobs, r) /\ r.channel = channel' /\ r.kind = "run"
      /\ r.todo = Targets
  BY <1>1, StartFacts
<1> HIDE DEF r
<1>3. OnlyLast' /\ jobs' # <<>> /\ last' = r
  BY <1>1, <1>2, AppendOnlyLast
<1>4. DOMAIN queue' = {}
  BY <1>1, IdleMeansOver
<1>5. QueueOrder'
  BY <1>4 DEF QueueOrder
<1>6. RunOn' /\ RunOver'
  BY <1>1, <1>2, <1>3 DEF RunOn, RunOver
<1> QED  BY <1>3, <1>5, <1>6 DEF Waits

LEMMA RetestStep ==
  ASSUME Types, Waits, operator.patient, NEW i \in Targets, retest_target(i)
  PROVE  Waits'
<1>1. Idle /\ UNCHANGED <<testing, verdict>>
  BY DEF retest_target, Presses
<1>2. ~testing
  BY <1>1, IdleMeansOver
<1>3. /\ channel' = channel + 1 /\ queue' = <<>>
      /\ \A x \in Targets : /\ results'[x].job = results[x].job
                            /\ results'[x].status \in {results[x].status, "Testing"}
  BY RetestFacts
<1> DEFINE r == [kind |-> "retest", channel |-> channel + 1, todo |-> {i}]
<1>4. r \in Jobs /\ jobs' = Append(jobs, r) /\ r.channel = channel' /\ r.kind = "retest"
  <2>1. r \in Jobs /\ jobs' = Append(jobs, r)
    BY RetestFacts
  <2>2. r.channel = channel' /\ r.kind = "retest"
    BY <1>3
  <2> QED  BY <2>1, <2>2
<1> HIDE DEF r
<1>5. /\ OnlyLast' /\ jobs' # <<>> /\ last' = r
      /\ \A j \in DOMAIN jobs' : j = Len(jobs') \/ (j \in DOMAIN jobs /\ jobs'[j] = jobs[j])
  BY <1>1, <1>4, AppendOnlyLast
<1>6. DOMAIN queue' = {}
  BY <1>3
<1>7. QueueOrder'
  BY <1>6 DEF QueueOrder
<1>8. runs' \subseteq runs
  <2>1. jobs'[Len(jobs')].kind = "retest"
    BY <1>4, <1>5 DEF last
  <2> QED  BY <1>5, <2>1 DEF runs
<1>9. \A j \in runs' : \A x \in Targets :
        results'[x].status \in {"Complete", "Failed", "Testing"} /\ results'[x].job >= j
  BY <1>2, <1>3, <1>8 DEF Waits, RunOver
<1>10. RunOn' /\ RunOver'
  BY <1>1, <1>2, <1>4, <1>5, <1>9 DEF RunOn, RunOver
<1> QED  BY <1>5, <1>7, <1>10 DEF Waits

LEMMA TestEndsStep ==
  ASSUME Types, Waits, NEW j \in DOMAIN jobs, NEW i \in Targets, NEW a \in Answers,
         TestEnds(j, i, a)
  PROVE  Waits'
<1> DEFINE u == [kind |-> "Complete", index |-> i, answer |-> a, job |-> j]
<1>1. /\ u \in Updates /\ Send(jobs[j].channel, <<u>>) /\ i \in jobs[j].todo
      /\ jobs' \in Seq(Jobs) /\ Len(jobs') = Len(jobs) /\ DOMAIN jobs' = DOMAIN jobs
      /\ \A x \in DOMAIN jobs : /\ jobs'[x].kind = jobs[x].kind
                                /\ jobs'[x].channel = jobs[x].channel
                                /\ x # j => jobs'[x].todo = jobs[x].todo
      /\ jobs'[j].todo = jobs[j].todo \ {i}
  BY TestEndsFacts
<1>2. u.kind = "Complete" /\ u.index = i /\ u.job = j
  OBVIOUS
<1> HIDE DEF u
<1>3. jobs # <<>>
  BY SeqDomain DEF Types
<1>4. Len(jobs) \in Nat \ {0} /\ Len(jobs) \in DOMAIN jobs /\ last = jobs[Len(jobs)]
  BY <1>3, LastJob
<1>5. j = Len(jobs) /\ jobs[j].channel = channel
  BY <1>1, <1>3, <1>4 DEF Waits, OnlyLast, UnderWay
<1>6. jobs' # <<>>
  BY <1>1, <1>4, SeqDomain
<1>7. /\ last'.kind = last.kind /\ last'.channel = last.channel /\ last'.todo = last.todo \ {i}
      /\ i \in last.todo
  BY <1>1, <1>4, <1>5 DEF last
<1>8. UNCHANGED <<channel, results, testing, verdict>>
  BY DEF TestEnds
<1>9. /\ \A k \in DOMAIN queue : k \in DOMAIN queue' /\ queue'[k] = queue[k]
      /\ \A k \in DOMAIN queue' : k \notin DOMAIN queue => queue'[k] = u
      /\ \E k \in DOMAIN queue' : queue'[k] = u
  <2>1. queue \in Seq(Updates)
    BY DEF Types
  <2> QED  BY <1>1, <1>5, <2>1, SendOne
<1>10. OnlyLast'
  <2>1. \A x \in DOMAIN jobs : UnderWay(x)' => UnderWay(x)
    BY <1>1 DEF UnderWay
  <2> QED  BY <1>1, <1>3, <1>7, <1>8, <2>1 DEF Waits, OnlyLast
<1>11. \A k \in DOMAIN queue : queue[k].kind # "AllComplete"
  BY <1>7 DEF Waits, QueueOrder
<1>12. QueueOrder'
  BY <1>1, <1>2, <1>5, <1>6, <1>9, <1>11 DEF Waits, QueueOrder
<1>13. RunOn'
  <2> SUFFICES ASSUME testing PROVE RunOn'
    BY <1>8 DEF RunOn
  <2>1. ASSUME NEW x \in Targets
        PROVE  \/ x \in last'.todo
               \/ \E k \in DOMAIN queue' : queue'[k].kind = "Complete" /\ queue'[k].index = x
               \/ results'[x].job = Len(jobs') /\ results'[x].status \in {"Complete", "Failed"}
    <3>1. CASE x = i
      BY <1>2, <1>9, <3>1
    <3>2. CASE x # i
      BY <1>1, <1>7, <1>8, <1>9, <3>2 DEF Waits, RunOn
    <3> QED  BY <3>1, <3>2
  <2>2. /\ last'.kind \in {"run", "ended run"}
        /\ last'.kind = "ended run" => \E k \in DOMAIN queue' : queue'[k].kind = "AllComplete"
    BY <1>7, <1>9 DEF Waits, RunOn
  <2> QED  BY <1>6, <2>1, <2>2 DEF RunOn
<1>14. RunOver'
  <2> SUFFICES ASSUME ~testing PROVE RunOver'
    BY <1>8 DEF RunOver
  <2>1. runs' = runs
    BY <1>1 DEF runs
  <2>2. last.kind # "ended run" /\ last.kind # "run"
    BY <1>3, <1>7 DEF Waits, RunOver
  <2> QED  BY <1>7, <1>8, <2>1, <2>2 DEF Waits, RunOver
<1> QED  BY <1>10, <1>12, <1>13, <1>14 DEF Waits

LEMMA RunEndsStep ==
  ASSUME Types, Waits, NEW j \in DOMAIN jobs, RunEnds(j)
  PROVE  Waits'
<1> DEFINE u == [kind |-> "AllComplete"]
<1>1. /\ Send(jobs[j].channel, <<u>>) /\ jobs[j].kind = "run" /\ jobs[j].todo = {}
      /\ jobs' \in Seq(Jobs) /\ Len(jobs') = Len(jobs) /\ DOMAIN jobs' = DOMAIN jobs
      /\ \A x \in DOMAIN jobs : /\ jobs'[x].todo = jobs[x].todo
                                /\ jobs'[x].channel = jobs[x].channel
                                /\ x # j => jobs'[x].kind = jobs[x].kind
      /\ jobs'[j].kind = "ended run"
  BY RunEndsFacts
<1>2. u \in Updates /\ u.kind = "AllComplete"
  BY UpdateShapes
<1> HIDE DEF u
<1>3. jobs # <<>>
  BY SeqDomain DEF Types
<1>4. Len(jobs) \in Nat \ {0} /\ Len(jobs) \in DOMAIN jobs /\ last = jobs[Len(jobs)]
  BY <1>3, LastJob
<1>5. j = Len(jobs) /\ jobs[j].channel = channel
  BY <1>1, <1>3, <1>4 DEF Waits, OnlyLast, UnderWay
<1>6. jobs' # <<>>
  BY <1>1, <1>4, SeqDomain
<1>7. /\ last'.kind = "ended run" /\ last'.channel = last.channel
      /\ last'.todo = {} /\ last.todo = {} /\ last.kind = "run"
  BY <1>1, <1>4, <1>5 DEF last
<1>8. UNCHANGED <<channel, results, testing, verdict>>
  BY DEF RunEnds
<1>9. testing
  BY <1>3, <1>7 DEF Waits, RunOver
<1>10. /\ \A k \in DOMAIN queue : k \in DOMAIN queue' /\ queue'[k] = queue[k] /\ k \in Int
       /\ \A k \in DOMAIN queue' : k \notin DOMAIN queue =>
            /\ queue'[k] = u /\ k = Len(queue) + 1 /\ k \in Int
            /\ \A l \in DOMAIN queue : l < k
       /\ \E k \in DOMAIN queue' : queue'[k] = u
  <2>1. queue \in Seq(Updates)
    BY DEF Types
  <2>2. Len(queue) \in Nat /\ DOMAIN queue = 1 .. Len(queue)
    BY <2>1, SeqDomain
  <2>3. Send(channel, <<u>>) /\ u \in Updates
    BY <1>1, <1>2, <1>5
  <2>4. /\ \A k \in DOMAIN queue : k \in DOMAIN queue' /\ queue'[k] = queue[k]
        /\ \A k \in DOMAIN queue' : k \notin DOMAIN queue =>
             k = Len(queue) + 1 /\ queue'[k] = u /\ \A l \in DOMAIN queue : l < k
        /\ Len(queue) + 1 \in DOMAIN queue' /\ queue'[Len(queue) + 1] = u
    BY <2>1, <2>3, SendOne
  <2> QED  BY <2>2, <2>4
<1>11. OnlyLast'
  <2>1. \A x \in DOMAIN jobs : UnderWay(x)' => UnderWay(x)
    BY <1>1 DEF UnderWay
  <2> QED  BY <1>1, <1>3, <1>7, <1>8, <2>1 DEF Waits, OnlyLast
<1>12. \A k \in DOMAIN queue : queue[k].kind # "AllComplete"
  BY <1>7 DEF Waits, QueueOrder
<1>13. QueueOrder'
  <2>1. ASSUME NEW k \in DOMAIN queue', queue'[k].kind = "Complete"
        PROVE  queue'[k].job = Len(jobs')
    BY <1>1, <1>2, <1>10, <2>1 DEF Waits, QueueOrder
  <2>2. ASSUME NEW k \in DOMAIN queue', queue'[k].kind = "AllComplete", NEW l \in DOMAIN queue'
        PROVE  l <= k
    <3>1. k \notin DOMAIN queue
      BY <1>10, <1>12, <2>2
    <3> QED  BY <1>10, <3>1
  <2> QED  BY <1>6, <1>7, <1>8, <1>9, <2>1, <2>2 DEF QueueOrder
<1>14. RunOn'
  <2>1. ASSUME NEW x \in Targets
        PROVE  \/ \E k \in DOMAIN queue' : queue'[k].kind = "Complete" /\ queue'[k].index = x
               \/ results'[x].job = Len(jobs') /\ results'[x].status \in {"Complete", "Failed"}
    <3>1. \/ \E k \in DOMAIN queue : queue[k].kind = "Complete" /\ queue[k].index = x
          \/ results[x].job = Len(jobs) /\ results[x].status \in {"Complete", "Failed"}
      BY <1>7, <1>9 DEF Waits, RunOn
    <3>2. \A k \in DOMAIN queue : k \in DOMAIN queue' /\ queue'[k] = queue[k]
      BY <1>10
    <3> QED  BY <1>1, <1>8, <3>1, <3>2
  <2>2. \E k \in DOMAIN queue' : queue'[k].kind = "AllComplete"
    BY <1>2, <1>10
  <2> QED  BY <1>6, <1>7, <2>1, <2>2 DEF RunOn
<1>15. RunOver'
  BY <1>8, <1>9 DEF RunOver
<1> QED  BY <1>11, <1>13, <1>14, <1>15 DEF Waits

(* Taking an update off the head keeps the order of the rest.              *)
LEMMA TailOrder ==
  ASSUME QueueOrder, NEW kind, queue \in Seq(Updates), Take(kind), UNCHANGED <<testing, jobs>>
  PROVE  QueueOrder'
<1>1. \A k \in DOMAIN queue' : k \in Nat /\ k + 1 \in DOMAIN queue /\ queue'[k] = queue[k + 1]
  BY TakeFacts
<1>2. last' = last
  BY DEF last
<1>3. ASSUME NEW k \in DOMAIN queue', queue'[k].kind = "Complete"
      PROVE  jobs # <<>> /\ queue'[k].job = Len(jobs)
  BY <1>1, <1>3 DEF QueueOrder
<1>4. ASSUME NEW k \in DOMAIN queue', queue'[k].kind = "AllComplete"
      PROVE  /\ testing /\ jobs # <<>> /\ last.kind = "ended run" /\ last.todo = {}
             /\ \A l \in DOMAIN queue' :
                  queue'[l].kind \in {"Complete", "AllComplete"} => l <= k
  <2>1. k + 1 \in DOMAIN queue /\ queue[k + 1].kind = "AllComplete" /\ k \in Nat
    BY <1>1, <1>4
  <2>2. /\ testing /\ jobs # <<>> /\ last.kind = "ended run" /\ last.todo = {}
        /\ \A l \in DOMAIN queue :
             queue[l].kind \in {"Complete", "AllComplete"} => l <= k + 1
    BY <2>1 DEF QueueOrder
  <2>3. ASSUME NEW l \in DOMAIN queue', queue'[l].kind \in {"Complete", "AllComplete"}
        PROVE  l <= k
    <3>1. l \in Nat /\ l + 1 <= k + 1
      BY <1>1, <2>2, <2>3
    <3> QED  BY <2>1, <3>1
  <2> QED  BY <2>2, <2>3
<1> QED  BY <1>2, <1>3, <1>4 DEF QueueOrder

LEMMA ApplyCompleteStep ==
  ASSUME Types, Waits, ApplyComplete
  PROVE  Waits'
<1> DEFINE u == queue[1]
<1>1. /\ Take("Complete") /\ u.index \in Targets
      /\ \A i \in Targets : i # u.index => results'[i] = results[i]
      /\ results'[u.index].status \in {"Complete", "Failed"} /\ results'[u.index].job = u.job
  BY ApplyFacts
<1>2. UNCHANGED <<channel, testing, verdict, jobs>>
  BY DEF ApplyComplete
<1>3. queue \in Seq(Updates)
  BY DEF Types
<1>4. /\ 1 \in DOMAIN queue /\ u.kind = "Complete"
      /\ \A k \in DOMAIN queue' : k \in Nat /\ k + 1 \in DOMAIN queue /\ queue'[k] = queue[k + 1]
      /\ \A k \in DOMAIN queue : k # 1 => k - 1 \in DOMAIN queue' /\ queue'[k - 1] = queue[k]
  BY <1>1, <1>3, TakeFacts
<1>5. jobs # <<>> /\ u.job = Len(jobs)
  BY <1>4 DEF Waits, QueueOrder
<1>6. last' = last /\ runs' = runs /\ \A j : UnderWay(j)' <=> UnderWay(j)
  BY <1>2 DEF last, runs, UnderWay
<1>7. OnlyLast'
  BY <1>2, <1>6 DEF Waits, OnlyLast
<1>8. QueueOrder'
  BY <1>1, <1>2, <1>3, TailOrder DEF Waits
<1> HIDE DEF u
<1>9. RunOn'
  <2> SUFFICES ASSUME testing PROVE RunOn'
    BY <1>2 DEF RunOn
  <2>1. ASSUME last.kind = "ended run"
        PROVE  \E k \in DOMAIN queue' : queue'[k].kind = "AllComplete"
    <3>1. PICK k \in DOMAIN queue : queue[k].kind = "AllComplete"
      BY <2>1 DEF Waits, RunOn
    <3>2. k # 1
      BY <1>4, <3>1 DEF u
    <3> QED  BY <1>4, <3>1, <3>2
  <2>2. ASSUME NEW x \in Targets
        PROVE  \/ x \in last.todo
               \/ \E k \in DOMAIN queue' : queue'[k].kind = "Complete" /\ queue'[k].index = x
               \/ results'[x].job = Len(jobs) /\ results'[x].status \in {"Complete", "Failed"}
    <3>1. CASE x = u.index
      BY <1>1, <1>5, <3>1
    <3>2. CASE x # u.index
      <4>1. CASE \E k \in DOMAIN queue : queue[k].kind = "Complete" /\ queue[k].index = x
        <5>1. PICK k \in DOMAIN queue : queue[k].kind = "Complete" /\ queue[k].index = x
          BY <4>1
        <5>2. k # 1
          BY <3>2, <5>1 DEF u
        <5> QED  BY <1>4, <5>1, <5>2
      <4>2. CASE \/ x \in last.todo
                 \/ results[x].job = Len(jobs) /\ results[x].status \in {"Complete", "Failed"}
        BY <1>1, <3>2, <4>2
      <4> QED  BY <4>1, <4>2 DEF Waits, RunOn
    <3> QED  BY <3>1, <3>2
  <2>3. last.kind \in {"run", "ended run"}
    BY DEF Waits, RunOn
  <2> QED  BY <1>2, <1>5, <1>6, <2>1, <2>2, <2>3 DEF RunOn
<1>10. RunOver'
  <2> SUFFICES ASSUME ~testing PROVE RunOver'
    BY <1>2 DEF RunOver
  <2>1. last.kind # "run" /\ last.kind # "ended run"
    BY <1>4, <1>5 DEF Waits, RunOver, u
  <2>2. ASSUME NEW j \in runs, NEW x \in Targets
        PROVE  results'[x].status \in {"Complete", "Failed", "Testing"} /\ results'[x].job >= j
    <3>1. CASE x = u.index
      <4>1. j \in 1 .. Len(jobs) /\ Len(jobs) \in Nat
        BY <1>5, <2>2, LastJob DEF runs
      <4> QED  BY <1>1, <1>5, <3>1, <4>1
    <3>2. CASE x # u.index
      BY <1>1, <2>2, <3>2 DEF Waits, RunOver
    <3> QED  BY <3>1, <3>2
  <2> QED  BY <1>6, <2>1, <2>2 DEF RunOver
<1> QED  BY <1>7, <1>8, <1>9, <1>10 DEF Waits

LEMMA ApplyAllCompleteStep ==
  ASSUME Types, Waits, ApplyAllComplete
  PROVE  Waits'
<1>1. /\ Take("AllComplete") /\ testing' = FALSE
      /\ verdict' = IF found(results) = {} THEN verdict ELSE verdictOf(results)
      /\ UNCHANGED <<channel, results, jobs>>
  BY DEF ApplyAllComplete
<1>2. queue \in Seq(Updates)
  BY DEF Types
<1>3. /\ 1 \in DOMAIN queue /\ queue[1].kind = "AllComplete"
      /\ \A k \in DOMAIN queue' : k \in Nat /\ k + 1 \in DOMAIN queue /\ queue'[k] = queue[k + 1]
      /\ queue' \in Seq(Updates)
  BY <1>1, <1>2, TakeFacts
<1>4. /\ testing /\ jobs # <<>> /\ last.kind = "ended run" /\ last.todo = {}
      /\ \A l \in DOMAIN queue : queue[l].kind \in {"Complete", "AllComplete"} => l <= 1
  BY <1>3 DEF Waits, QueueOrder
<1>5. \A k \in DOMAIN queue' : queue'[k].kind \notin {"Complete", "AllComplete"}
  <2>1. \A k \in DOMAIN queue' : ~(k + 1 <= 1)
    BY <1>3, SeqDomain
  <2> QED  BY <1>3, <1>4, <2>1
<1>6. \A l \in DOMAIN queue : queue[l].kind # "Complete"
  <2>1. \A l \in DOMAIN queue : l <= 1 => l = 1
    BY <1>2, SeqDomain
  <2> QED  BY <1>3, <1>4, <2>1
<1>7. last' = last /\ runs' = runs /\ \A j : UnderWay(j)' <=> UnderWay(j)
  BY <1>1 DEF last, runs, UnderWay
<1>8. OnlyLast' /\ QueueOrder'
  BY <1>1, <1>5, <1>7 DEF Waits, OnlyLast, QueueOrder
<1>9. RunOn'
  BY <1>1 DEF RunOn
<1>10. RunOver'
  <2>1. ASSUME NEW j \in runs, NEW x \in Targets
        PROVE  results[x].status \in {"Complete", "Failed", "Testing"} /\ results[x].job >= j
    <3>1. results[x].job = Len(jobs) /\ results[x].status \in {"Complete", "Failed"}
      BY <1>4, <1>6 DEF Waits, RunOn
    <3>2. j \in 1 .. Len(jobs) /\ Len(jobs) \in Nat
      BY <1>4, <2>1, LastJob DEF runs
    <3> QED  BY <3>1, <3>2
  <2>2. found(results') = found(results) /\ verdictOf(results') = verdictOf(results)
    BY <1>1
  <2>3. found(results') # {} => verdict' = verdictOf(results')
    BY <1>1, <2>2
  <2> QED  BY <1>1, <1>4, <1>5, <1>7, <2>1, <2>3 DEF RunOver
<1> QED  BY <1>8, <1>9, <1>10 DEF Waits

LEMMA ApplyTraceStep ==
  ASSUME Types, Waits, ApplyTracepathOutput \/ ApplyTracepathComplete
  PROVE  Waits'
<1>1. PICK kind \in {"TracepathOutput", "TracepathComplete"} : Take(kind)
  BY DEF ApplyTracepathOutput, ApplyTracepathComplete
<1>2. UNCHANGED <<channel, results, testing, verdict, jobs>>
  BY DEF ApplyTracepathOutput, ApplyTracepathComplete
<1>3. queue \in Seq(Updates)
  BY DEF Types
<1>4. /\ 1 \in DOMAIN queue /\ queue[1].kind \notin {"Complete", "AllComplete"}
      /\ \A k \in DOMAIN queue' : k \in Nat /\ k + 1 \in DOMAIN queue /\ queue'[k] = queue[k + 1]
      /\ \A k \in DOMAIN queue : k # 1 => k - 1 \in DOMAIN queue' /\ queue'[k - 1] = queue[k]
  BY <1>1, <1>3, TakeFacts
<1>5. last' = last /\ runs' = runs /\ \A j : UnderWay(j)' <=> UnderWay(j)
  BY <1>2 DEF last, runs, UnderWay
<1>6. OnlyLast'
  BY <1>2, <1>5 DEF Waits, OnlyLast
<1>7. QueueOrder'
  BY <1>1, <1>2, <1>3, TailOrder DEF Waits
<1>8. \A k \in DOMAIN queue : queue[k].kind \in {"Complete", "AllComplete"} =>
        \E l \in DOMAIN queue' : queue'[l] = queue[k]
  BY <1>4
<1>9. RunOn'
  <2> SUFFICES ASSUME testing PROVE RunOn'
    BY <1>2 DEF RunOn
  <2>1. last.kind = "ended run" => \E k \in DOMAIN queue' : queue'[k].kind = "AllComplete"
    BY <1>8 DEF Waits, RunOn
  <2>2. ASSUME NEW x \in Targets
        PROVE  \/ x \in last.todo
               \/ \E k \in DOMAIN queue' : queue'[k].kind = "Complete" /\ queue'[k].index = x
               \/ results[x].job = Len(jobs) /\ results[x].status \in {"Complete", "Failed"}
    BY <1>8 DEF Waits, RunOn
  <2> QED  BY <1>2, <1>5, <2>1, <2>2 DEF Waits, RunOn
<1>10. RunOver'
  <2>1. found(results') = found(results) /\ verdictOf(results') = verdictOf(results)
    BY <1>2
  <2>2. (\A k \in DOMAIN queue : queue[k].kind # "Complete")
          => \A k \in DOMAIN queue' : queue'[k].kind # "Complete"
    BY <1>4
  <2> QED  BY <1>2, <1>5, <2>1, <2>2 DEF Waits, RunOver
<1> QED  BY <1>6, <1>7, <1>9, <1>10 DEF Waits

LEMMA PatientStep ==
  ASSUME Types, Waits, operator.patient, [Next]_vars
  PROVE  Waits'
<1>0. queue \in Seq(Updates)
  BY DEF Types
<1>1. CASE start_testing
  BY <1>1, StartStep
<1>2. ASSUME NEW i \in Targets, retest_target(i) PROVE Waits'
  BY <1>2, RetestStep
<1>3. CASE run_tracepath \/ SaveReport \/ UNCHANGED vars
  <2>1. UNCHANGED <<channel, results, testing, verdict, jobs, queue>>
    BY <1>3 DEF run_tracepath, SaveReport, vars
  <2> QED  BY <2>1, QuietStep
<1>4. ASSUME NEW j \in DOMAIN jobs, NEW i \in Targets, NEW a \in Answers, TestEnds(j, i, a)
      PROVE  Waits'
  BY <1>4, TestEndsStep
<1>5. ASSUME NEW j \in DOMAIN jobs, RunEnds(j) PROVE Waits'
  BY <1>5, RunEndsStep
<1>6. CASE TraceFails
  <2> DEFINE u == [kind |-> "TracepathOutput"]
  <2>1. u \in Updates /\ Send(trace, <<u>>) /\ u.kind = "TracepathOutput"
    BY <1>6, UpdateShapes DEF TraceFails
  <2> HIDE DEF u
  <2>2. /\ \A k \in DOMAIN queue : k \in DOMAIN queue' /\ queue'[k] = queue[k]
        /\ \A k \in DOMAIN queue' : k \in DOMAIN queue \/ queue'[k] = u
    BY <1>0, <2>1, SendOne
  <2>3. UNCHANGED <<channel, results, testing, verdict, jobs>>
    BY <1>6 DEF TraceFails
  <2> QED  BY <2>1, <2>2, <2>3, QuietStep
<1>7. CASE TraceEnds
  <2> DEFINE us == <<[kind |-> "TracepathOutput"], [kind |-> "TracepathComplete"]>>
  <2>1. us \in Seq(Updates) /\ Len(us) = 2 /\ Send(trace, us)
    BY <1>7, UpdateShapes DEF TraceEnds
  <2>2. \A m \in DOMAIN us : us[m].kind \notin {"Complete", "AllComplete"}
    <3>1. DOMAIN us = 1 .. 2
      BY <2>1, SeqDomain
    <3>2. us[1].kind = "TracepathOutput" /\ us[2].kind = "TracepathComplete"
      OBVIOUS
    <3>3. \A m \in 1 .. 2 : m = 1 \/ m = 2
      OBVIOUS
    <3> HIDE DEF us
    <3> QED  BY <3>1, <3>2, <3>3
  <2> HIDE DEF us
  <2>3. /\ \A k \in DOMAIN queue : k \in DOMAIN queue' /\ queue'[k] = queue[k]
        /\ \A k \in DOMAIN queue' :
             k \in DOMAIN queue \/ \E m \in DOMAIN us : queue'[k] = us[m]
    BY <1>0, <2>1, SendSeq
  <2>4. UNCHANGED <<channel, results, testing, verdict, jobs>>
    BY <1>7 DEF TraceEnds
  <2> QED  BY <2>2, <2>3, <2>4, QuietStep
<1>8. CASE ApplyComplete
  BY <1>8, ApplyCompleteStep
<1>9. CASE ApplyAllComplete
  BY <1>9, ApplyAllCompleteStep
<1>10. CASE ApplyTracepathOutput \/ ApplyTracepathComplete
  BY <1>10, ApplyTraceStep
<1> QED  BY <1>1, <1>2, <1>3, <1>4, <1>5, <1>6, <1>7, <1>8, <1>9, <1>10
         DEF Next, Threads, process_test_updates

-----------------------------------------------------------------------------
LEMMA TuiInvariant == Spec => []TuiInv
<1>1. Init => TuiInv
  <2> SUFFICES ASSUME Init PROVE TuiInv
    OBVIOUS
  <2>1. Types
    <3>1. Pending \in [status : {"Pending", "Testing", "Complete", "Failed"},
                       mtu : Mtus \cup {None}, job : Nat]
      BY DEF Pending
    <3>2. TypeOK
      BY <3>1 DEF Init, TypeOK
    <3> QED  BY <3>2 DEF Init, Types
  <2>2. DOMAIN queue = {} /\ jobs = <<>> /\ DOMAIN jobs = {}
    BY DEF Init
  <2>3. TraceInv
    BY <2>2 DEF Init, TraceInv
  <2>4. Waits
    BY <2>2 DEF Init, Waits, OnlyLast, QueueOrder, RunOn, RunOver, runs
  <2> QED  BY <2>1, <2>3, <2>4 DEF TuiInv, PatientInv, Waits
<1>2. TuiInv /\ [Next]_vars => TuiInv'
  <2> SUFFICES ASSUME TuiInv, [Next]_vars PROVE TuiInv'
    OBVIOUS
  <2>1. Types' /\ TraceInv'
    BY TypeStep, TraceStep DEF TuiInv
  <2>2. operator' = operator
    BY DEF Next, Threads, process_test_updates, start_testing, retest_target, run_tracepath,
           Presses, SaveReport, TestEnds, RunEnds, TraceFails, TraceEnds, ApplyComplete,
           ApplyAllComplete, ApplyTracepathOutput, ApplyTracepathComplete, vars
  <2>3. operator.patient => Waits'
    BY PatientStep DEF TuiInv, PatientInv, Waits
  <2> QED  BY <2>1, <2>2, <2>3 DEF TuiInv, PatientInv, Waits
<1> QED  BY <1>1, <1>2, PTL DEF Spec

(* Every variable keeps its type, whatever the operator presses.           *)
THEOREM TypeCorrect == Spec => []TypeOK
<1>1. TuiInv => TypeOK
  BY DEF TuiInv, Types
<1> QED  BY TuiInvariant, <1>1, PTL

(* A tracepath's completion clears the flag its own start set, for every   *)
(* operator, hasty ones included.                                          *)
THEOREM OneTrace == Spec => []OneTraceAtATime
<1> DEFINE due == {k \in DOMAIN queue : queue[k].kind = "TracepathComplete"}
<1>1. ASSUME TuiInv PROVE OneTraceAtATime
  <2>1. /\ trace # None \/ due # {} => tracing
        /\ trace = None \/ due = {}
        /\ \A k, l \in due : k = l
    BY <1>1 DEF TuiInv, TraceInv
  <2>2. Cardinality(due) <= 1
    <3>1. CASE due = {}
      BY <3>1, FS_EmptySet
    <3>2. CASE due # {}
      <4>1. PICK k \in due : TRUE
        BY <3>2
      <4>2. due = {k}
        BY <2>1, <4>1
      <4>3. Cardinality({k}) = 1
        BY FS_Singleton
      <4> QED  BY <4>2, <4>3
    <3> QED  BY <3>1, <3>2
  <2> QED  BY <2>1, <2>2 DEF OneTraceAtATime
<1>2. TuiInv => OneTraceAtATime
  BY <1>1
<1> QED  BY TuiInvariant, <1>2, PTL

(* For an operator who waits, a run that is over has every result, and its *)
(* verdict is the verdict of those results.                                *)
THEOREM DoneMeansDone == Spec => []DoneMeansAllResultsIn
<1>1. ASSUME TuiInv PROVE DoneMeansAllResultsIn
  <2> SUFFICES ASSUME operator.patient, ~testing
               PROVE  /\ \A j \in runs : \A i \in Targets :
                           /\ results[i].status \in {"Complete", "Failed", "Testing"}
                           /\ results[i].job >= j
                      /\ Len(jobs) \in runs /\ found(results) # {} =>
                           verdict = verdictOf(results)
    BY DEF DoneMeansAllResultsIn
  <2>1. RunOver /\ Types
    BY <1>1 DEF TuiInv, PatientInv
  <2>2. ASSUME Len(jobs) \in runs PROVE jobs # <<>> /\ last.kind = "ended run"
    <3>1. Len(jobs) \in DOMAIN jobs
      BY <2>2 DEF runs
    <3>2. last.kind \in {"run", "ended run"}
      BY <2>2 DEF runs, last
    <3>3. Len(jobs) \in 1 .. Len(jobs) /\ Len(jobs) \in Nat
      BY <2>1, <3>1, SeqDomain DEF Types
    <3>4. Len(jobs) # 0
      BY <3>3
    <3>5. jobs # <<>>
      BY <3>4
    <3> QED  BY <2>1, <3>2, <3>5 DEF RunOver
  <2> QED  BY <2>1, <2>2 DEF RunOver
<1>2. TuiInv => DoneMeansAllResultsIn
  BY <1>1
<1> QED  BY TuiInvariant, <1>2, PTL

=============================================================================

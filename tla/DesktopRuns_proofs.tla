------------------------- MODULE DesktopRuns_proofs -------------------------
(***************************************************************************)
(* Proofs about DesktopRuns, for every set of registered tests, every      *)
(* number of runs, every channel capacity and every length of the history. *)
(***************************************************************************)
EXTENDS DesktopRuns, FiniteSetTheorems, SequenceTheorems, TLAPS

-----------------------------------------------------------------------------
(* The inductive invariant.                                                *)

Updates == [run : Runs, what : {"Started", "Completed", "Failed"}]
             \cup [run : Runs, what : {"Result"}, result : Result]

(* TypeOK, with the types of the queues.                                   *)
Types ==
  /\ TypeOK
  /\ todo \in [Runs -> Seq(Updates)]
  /\ chan \in [Runs -> Seq(Updates)]
  /\ inbox \in Seq(Updates)
  /\ history \in Seq([run : Runs, results : SUBSET Result])

IsEnd(u) == u.what \in {"Completed", "Failed"}

(* One run's task and channel: the end is announced once, last, and the    *)
(* channel is empty without a receiver.                                    *)
Pipe(r, ph, td, ch, fw) ==
  /\ ph = "unused" => fw = "none"
  /\ ph # "done" => fw # "ended"
  /\ fw # "live" => ch = <<>>
  /\ ph # "sending" => td = <<>>
  /\ ph = "sending" => td # <<>> /\ IsEnd(td[Len(td)])
  /\ \A k \in DOMAIN td : td[k].run = r /\ (IsEnd(td[k]) => k = Len(td))
  /\ \A k \in DOMAIN ch : ch[k].run = r /\ (IsEnd(ch[k]) => k = Len(ch) /\ ph = "done")
  /\ ph = "done" /\ ch # <<>> => IsEnd(ch[Len(ch)])

Pipes == \A r \in Runs : Pipe(r, phase[r], todo[r], chan[r], forwarder[r])

(* What was received or recorded comes from a run that was started, whose  *)
(* kind is settled.                                                        *)
Known ==
  /\ \A k \in DOMAIN inbox : phase[inbox[k].run] # "unused"
  /\ \A i \in DOMAIN history : phase[history[i].run] # "unused"

(* The end of run r is still to be forwarded, and will be.                 *)
Expected(ph, ch, fw) ==
  /\ fw = "live"
  /\ ph \in {"started", "running", "sending"} \/ \E k \in DOMAIN ch : IsEnd(ch[k])

Coming(r) == Expected(phase[r], chan[r], forwarder[r])

(* The flag is up only while something will lower it, or something that    *)
(* would have was lost; and so it will be when a Started is handled.       *)
BusyInv ==
  /\ testing => \/ report \in {"running", "dropped"}
                \/ \E r \in Runs : forwarder[r] = "gone" \/ Coming(r)
                \/ \E k \in DOMAIN inbox : IsEnd(inbox[k])
  /\ \A k \in DOMAIN inbox : inbox[k].what = "Started" =>
       \/ forwarder[inbox[k].run] = "gone" \/ Coming(inbox[k].run)
       \/ \E l \in DOMAIN inbox : l > k /\ IsEnd(inbox[l])

(* The result of test t of run r has arrived, or is in a queue, ahead of   *)
(* position k of it.                                                       *)
Has(r, t) == \E x \in results \cup cleared : x.run = r /\ x.test = t

ResultOf(u, r, t) == u.what = "Result" /\ u.result.run = r /\ u.result.test = t

Carries(q, r, t) == \E l \in DOMAIN q : ResultOf(q[l], r, t)

Ahead(q, k, r, t) == \E l \in DOMAIN q : l < k /\ ResultOf(q[l], r, t)

Got(r, t) == Has(r, t) \/ Carries(inbox, r, t)

(* Wherever a Completed is on its way, every result of its run is ahead.   *)
Recorded ==
  \A i \in DOMAIN history : \A t \in tests_of(history[i].run) :
    \E x \in history[i].results \cup cleared : x.run = history[i].run /\ x.test = t

Arriving ==
  \A k \in DOMAIN inbox : inbox[k].what = "Completed" =>
    \A t \in tests_of(inbox[k].run) : Has(inbox[k].run, t) \/ Ahead(inbox, k, inbox[k].run, t)

OnTheWay(r) ==
  /\ \A k \in DOMAIN chan[r] : chan[r][k].what = "Completed" =>
       \A t \in tests_of(r) : Got(r, t) \/ Ahead(chan[r], k, r, t)
  /\ forwarder[r] = "live" =>
       \A k \in DOMAIN todo[r] : todo[r][k].what = "Completed" =>
         \A t \in tests_of(r) : Got(r, t) \/ Carries(chan[r], r, t) \/ Ahead(todo[r], k, r, t)

HistoryInv == Recorded /\ Arriving /\ \A r \in Runs : OnTheWay(r)

DesktopInv == Types /\ Pipes /\ Known /\ BusyInv /\ HistoryInv

-----------------------------------------------------------------------------
(* Sequences.                                                              *)

LEMMA SeqDomain ==
  ASSUME NEW S, NEW q \in Seq(S)
  PROVE  /\ Len(q) \in Nat /\ DOMAIN q = 1 .. Len(q)
         /\ \A k \in DOMAIN q : k \in Nat /\ q[k] \in S
         /\ q = <<>> <=> Len(q) = 0
         /\ q = <<>> => DOMAIN q = {}
         /\ q # <<>> => Len(q) \in DOMAIN q /\ 1 \in DOMAIN q
<1>1. Len(q) \in Nat /\ DOMAIN q = 1 .. Len(q) /\ (q = <<>> <=> Len(q) = 0)
  OBVIOUS
<1>2. \A k \in DOMAIN q : k \in Nat /\ q[k] \in S
  BY <1>1
<1>3. q = <<>> => DOMAIN q = {}
  OBVIOUS
<1>4. q # <<>> => Len(q) \in 1 .. Len(q) /\ 1 \in 1 .. Len(q)
  <2>1. Len(q) # 0 => Len(q) \in 1 .. Len(q) /\ 1 \in 1 .. Len(q)
    BY <1>1
  <2> QED  BY <1>1, <2>1
<1> QED  BY <1>1, <1>2, <1>3, <1>4

LEMMA TailSeq ==
  ASSUME NEW S, NEW q \in Seq(S), q # <<>>
  PROVE  /\ Tail(q) \in Seq(S) /\ Len(q) \in Nat \ {0} /\ Len(Tail(q)) = Len(q) - 1
         /\ 1 \in DOMAIN q /\ Head(q) = q[1] /\ q[1] \in S
         /\ \A k \in DOMAIN Tail(q) : k \in Nat \ {0} /\ k + 1 \in DOMAIN q /\ Tail(q)[k] = q[k + 1]
         /\ \A k \in DOMAIN q : k # 1 => k - 1 \in DOMAIN Tail(q) /\ Tail(q)[k - 1] = q[k]
<1>1. Len(q) \in Nat \ {0} /\ DOMAIN q = 1 .. Len(q)
  OBVIOUS
<1>2. Tail(q) \in Seq(S) /\ Len(Tail(q)) = Len(q) - 1
      /\ \A k \in 1 .. Len(q) - 1 : Tail(q)[k] = q[k + 1]
  BY <1>1
<1>3. DOMAIN Tail(q) = 1 .. Len(q) - 1
  BY <1>1, <1>2
<1>4. ASSUME NEW k \in DOMAIN q, k # 1
      PROVE  k - 1 \in DOMAIN Tail(q) /\ Tail(q)[k - 1] = q[k]
  <2>1. k - 1 \in 1 .. Len(q) - 1 /\ (k - 1) + 1 = k
    BY <1>1, <1>4
  <2> QED  BY <1>2, <1>3, <2>1
<1> QED  BY <1>1, <1>2, <1>3, <1>4

LEMMA AppendSeq ==
  ASSUME NEW S, NEW q \in Seq(S), NEW x \in S
  PROVE  /\ Append(q, x) \in Seq(S) /\ Append(q, x) # <<>>
         /\ Len(q) \in Nat /\ Len(Append(q, x)) = Len(q) + 1
         /\ \A k \in DOMAIN q :
              k \in Nat /\ k < Len(q) + 1 /\ k \in DOMAIN Append(q, x) /\ Append(q, x)[k] = q[k]
         /\ Len(q) + 1 \in DOMAIN Append(q, x) /\ Append(q, x)[Len(q) + 1] = x
         /\ \A k \in DOMAIN Append(q, x) : k \in DOMAIN q \/ k = Len(q) + 1
<1>1. Len(q) \in Nat /\ DOMAIN q = 1 .. Len(q)
  OBVIOUS
<1>2. /\ Append(q, x) \in Seq(S) /\ Len(Append(q, x)) = Len(q) + 1
      /\ Append(q, x)[Len(q) + 1] = x
      /\ \A k \in 1 .. Len(q) : Append(q, x)[k] = q[k]
  OBVIOUS
<1>3. DOMAIN Append(q, x) = 1 .. Len(q) + 1
  BY <1>1, <1>2
<1>4. Append(q, x) # <<>>
  BY <1>1, <1>2, SeqDomain
<1> QED  BY <1>1, <1>2, <1>3, <1>4

-----------------------------------------------------------------------------
(* The updates of a run.                                                   *)

LEMMA RunsFacts == Runs \subseteq Nat /\ \A r \in Runs : r # 0
BY DesktopAssumption DEF Runs

LEMMA TestsFinite ==
  ASSUME NEW r
  PROVE  Cardinality(tests_of(r)) \in Nat
<1>1. Len(Tests) \in Nat /\ DOMAIN Tests = 1 .. Len(Tests)
  BY DesktopAssumption, SeqDomain
<1>2. IsFiniteSet(1 .. Len(Tests))
  BY <1>1, FS_Interval
<1>3. tests_of(r) \subseteq 1 .. Len(Tests)
  BY <1>1 DEF tests_of
<1>4. IsFiniteSet(tests_of(r))
  BY <1>2, <1>3, FS_Subset
<1> QED  BY <1>4, FS_CardinalityType

LEMMA UpdateShapes ==
  /\ \A r \in Runs, w \in {"Started", "Completed", "Failed"} :
       Update(r, w) \in Updates /\ Update(r, w).run = r /\ Update(r, w).what = w
  /\ \A u \in Updates : /\ u.run \in Runs
                        /\ u.what \in {"Started", "Completed", "Failed", "Result"}
                        /\ u.what = "Result" => u.result \in Result
BY DEF Update, Updates

(* The results of an order, as updates: one for every test, none the end.  *)
LEMMA ResultUpdates ==
  ASSUME NEW r \in Runs, NEW order \in run_orders(r)
  PROVE  LET q == result_updates(r, order)
         IN  /\ q \in Seq(Updates)
             /\ \A k \in DOMAIN q : q[k].run = r /\ q[k].what = "Result"
             /\ \A t \in tests_of(r) : Carries(q, r, t)
<1> DEFINE n == Cardinality(tests_of(r))
           q == result_updates(r, order)
           res(k) == [run |-> r, test |-> order[k], status |-> run_single(order[k])]
<1>1. n \in Nat
  BY TestsFinite
<1>2. /\ DOMAIN order = 1 .. n /\ \A k \in 1 .. n : order[k] \in tests_of(r)
      /\ \A t \in tests_of(r) : \E k \in 1 .. n : order[k] = t
  <2>1. order \in [1 .. n -> tests_of(r)] /\ Range(order) = tests_of(r)
    BY DEF run_orders
  <2> QED  BY <2>1 DEF Range
<1>3. \A k \in 1 .. n : res(k) \in Result
  <2>1. \A k \in 1 .. n : order[k] \in DOMAIN Tests
    BY <1>2 DEF tests_of
  <2>2. \A k \in 1 .. n : run_single(order[k]) \in {"Ran", "Skipped"}
    BY DEF run_single
  <2> QED  BY <2>1, <2>2 DEF Result
<1>4. q = [k \in 1 .. n |-> [run |-> r, what |-> "Result", result |-> res(k)]]
  BY <1>2 DEF result_updates, run_results
<1>5. \A k \in 1 .. n : [run |-> r, what |-> "Result", result |-> res(k)] \in Updates
  <2> HIDE DEF res
  <2> QED  BY <1>3 DEF Updates
<1>6. q \in [1 .. n -> Updates]
  BY <1>4, <1>5
<1>7. q \in Seq(Updates) /\ DOMAIN q = 1 .. n
  BY <1>1, <1>6
<1>8. \A k \in 1 .. n : /\ q[k].run = r /\ q[k].what = "Result"
                        /\ q[k].result.run = r /\ q[k].result.test = order[k]
  BY <1>4
<1> HIDE DEF q
<1>9. \A t \in tests_of(r) : Carries(q, r, t)
  BY <1>2, <1>7, <1>8 DEF Carries, ResultOf
<1> QED  BY <1>7, <1>8, <1>9 DEF q

(* What a task sends after its tests: the end, once and last, and if it is *)
(* Completed, every result ahead of it.                                    *)
LEMMA UpdatesOf ==
  ASSUME NEW r \in Runs, NEW joined \in BOOLEAN, NEW order \in run_orders(r)
  PROVE  LET q == updates_of(r, joined, order)
         IN  /\ q \in Seq(Updates) /\ q # <<>> /\ IsEnd(q[Len(q)])
             /\ \A k \in DOMAIN q : q[k].run = r /\ (IsEnd(q[k]) => k = Len(q))
             /\ \A k \in DOMAIN q : q[k].what = "Completed" =>
                  \A t \in tests_of(r) : Ahead(q, k, r, t)
<1> DEFINE q == updates_of(r, joined, order)
           d == result_updates(r, order)
<1>1. CASE joined
  <2> DEFINE u == Update(r, "Completed")
  <2>1. u \in Updates /\ u.run = r /\ u.what = "Completed"
    BY UpdateShapes
  <2>2. /\ d \in Seq(Updates)
        /\ \A k \in DOMAIN d : d[k].run = r /\ d[k].what = "Result"
        /\ \A t \in tests_of(r) : Carries(d, r, t)
    BY ResultUpdates
  <2> HIDE DEF u, d
  <2>3. q = Append(d, u)
    <3>1. q = d \o <<u>>
      BY <1>1 DEF updates_of, d, u
    <3>2. d \o <<u>> = Append(d, u)
      BY <2>1, <2>2
    <3> QED  BY <3>1, <3>2
  <2> HIDE DEF q
  <2>4. /\ q \in Seq(Updates) /\ q # <<>> /\ Len(q) = Len(d) + 1
        /\ \A k \in DOMAIN d : k < Len(d) + 1 /\ k \in DOMAIN q /\ q[k] = d[k]
        /\ q[Len(d) + 1] = u
        /\ \A k \in DOMAIN q : k \in DOMAIN d \/ k = Len(d) + 1
    BY <2>1, <2>2, <2>3, AppendSeq
  <2>5. \A k \in DOMAIN q : q[k].run = r /\ (IsEnd(q[k]) => k = Len(q))
    BY <2>1, <2>2, <2>4 DEF IsEnd
  <2>6. ASSUME NEW k \in DOMAIN q, q[k].what = "Completed", NEW t \in tests_of(r)
        PROVE  Ahead(q, k, r, t)
    <3>1. k = Len(d) + 1
      BY <2>2, <2>4, <2>6
    <3>2. PICK l \in DOMAIN d : ResultOf(d[l], r, t)
      BY <2>2 DEF Carries
    <3> QED  BY <2>4, <3>1, <3>2 DEF Ahead
  <2>7. IsEnd(q[Len(q)])
    BY <2>1, <2>4 DEF IsEnd
  <2> QED  BY <2>4, <2>5, <2>6, <2>7 DEF q
<1>2. CASE ~joined
  <2> DEFINE u == Update(r, "Failed")
  <2>1. u \in Updates /\ u.run = r /\ u.what = "Failed"
    BY UpdateShapes
  <2> HIDE DEF u
  <2>2. q = <<u>>
    BY <1>2 DEF updates_of, u
  <2> HIDE DEF q
  <2>3. q \in Seq(Updates) /\ Len(q) = 1 /\ q[1] = u /\ q # <<>>
    BY <2>1, <2>2
  <2>4. DOMAIN q = {1}
    BY <2>3, SeqDomain
  <2> QED  BY <2>1, <2>3, <2>4 DEF q, IsEnd
<1> QED  BY <1>1, <1>2

-----------------------------------------------------------------------------
(* Types.                                                                  *)

(* The new history: the new entry and old ones, no more than it keeps.     *)
LEMMA HistoryPushed ==
  ASSUME Types, NEW r \in Runs
  PROVE  LET h == save_to_history(r)
         IN  /\ h \in Seq([run : Runs, results : SUBSET Result]) /\ Len(h) <= MaxHistory
             /\ \A i \in DOMAIN h : \/ h[i] = [run |-> r, results |-> results]
                                    \/ \E j \in DOMAIN history : h[i] = history[j]
<1> DEFINE E == [run : Runs, results : SUBSET Result]
           x == [run |-> r, results |-> results]
           n == IF Len(history) < MaxHistory THEN Len(history) + 1 ELSE MaxHistory
           h == save_to_history(r)
<1>1. history \in Seq(E) /\ x \in E /\ Len(history) <= MaxHistory
  BY DEF Types, TypeOK
<1>2. CASE results = {} \/ window = "detached"
  <2>1. h = history
    BY <1>2 DEF save_to_history
  <2> QED  BY <1>1, <2>1
<1>3. CASE ~(results = {} \/ window = "detached")
  <2> DEFINE s == <<x>> \o history
  <2>1. h = SubSeq(s, 1, n)
    BY <1>3 DEF save_to_history
  <2> HIDE DEF x, E
  <2>2. /\ s \in Seq(E) /\ Len(s) = Len(history) + 1 /\ Len(history) \in Nat
        /\ DOMAIN history = 1 .. Len(history)
        /\ \A i \in 1 .. Len(history) + 1 : s[i] = IF i <= 1 THEN x ELSE history[i - 1]
    <3>1. <<x>> \in Seq(E) /\ Len(<<x>>) = 1 /\ <<x>>[1] = x
      BY <1>1
    <3>2. Len(history) \in Nat /\ DOMAIN history = 1 .. Len(history)
      BY <1>1, SeqDomain
    <3>3. s \in Seq(E) /\ Len(s) = 1 + Len(history)
      BY <1>1, <3>1, <3>2
    <3>4. \A i \in 1 .. Len(history) + 1 : s[i] = IF i <= 1 THEN <<x>>[i] ELSE history[i - 1]
      BY <1>1, <3>1, <3>2
    <3>5. \A i \in 1 .. Len(history) + 1 : i <= 1 => i = 1
      BY <3>2
    <3> QED  BY <3>1, <3>2, <3>3, <3>4, <3>5
  <2> HIDE DEF s
  <2>3. n \in Nat \ {0} /\ n <= MaxHistory /\ n <= Len(history) + 1
    BY <1>1, <2>2, DesktopAssumption
  <2>4. \A i \in 1 .. n : s[i] \in E
    BY <2>2, <2>3
  <2> HIDE DEF n
  <2>5. /\ SubSeq(s, 1, n) \in Seq(E) /\ Len(SubSeq(s, 1, n)) = n
        /\ \A i \in 1 .. n : SubSeq(s, 1, n)[i] = s[i]
    <3>1. /\ SubSeq(s, 1, n) \in Seq(E)
          /\ Len(SubSeq(s, 1, n)) = IF 1 <= n THEN n - 1 + 1 ELSE 0
          /\ \A i \in 1 .. n - 1 + 1 : SubSeq(s, 1, n)[i] = s[1 + i - 1]
      BY <2>3, <2>4, SubSeqProperties
    <3>2. 1 <= n /\ n - 1 + 1 = n /\ \A i \in 1 .. n : 1 + i - 1 = i
      BY <2>3
    <3> QED  BY <3>1, <3>2
  <2>6. DOMAIN SubSeq(s, 1, n) = 1 .. n
    BY <2>5, SeqDomain
  <2>7. ASSUME NEW i \in 1 .. n
        PROVE  s[i] = x \/ \E j \in DOMAIN history : s[i] = history[j]
    <3>1. CASE i = 1
      BY <2>2, <3>1
    <3>2. CASE i # 1
      <4>1. i - 1 \in DOMAIN history /\ i \in 1 .. Len(history) + 1 /\ ~(i <= 1)
        BY <2>2, <2>3, <3>2
      <4> QED  BY <2>2, <4>1
    <3> QED  BY <3>1, <3>2
  <2> QED  BY <2>1, <2>3, <2>5, <2>6, <2>7 DEF E, x
<1> QED  BY <1>2, <1>3

LEMMA QueueTypes ==
  ASSUME Types, NEW r \in Runs
  PROVE  /\ todo[r] \in Seq(Updates) /\ chan[r] \in Seq(Updates)
         /\ Len(todo[r]) \in Nat /\ Len(chan[r]) \in Nat
BY SeqDomain DEF Types

(* What a send does to the channel.                                        *)
LEMMA SendFacts ==
  ASSUME Types, NEW r \in Runs, NEW u \in Updates, send(r, u)
  PROVE  /\ chan' \in [Runs -> Seq(Updates)]
         /\ chan'[r] = IF forwarder[r] = "live" THEN Append(chan[r], u) ELSE chan[r]
         /\ \A q \in Runs : q # r => chan'[q] = chan[q]
         /\ CanSend(r) => \A q \in Runs : Len(chan'[q]) <= ChannelSize
<1>1. chan \in [Runs -> Seq(Updates)] /\ \A q \in Runs : Len(chan[q]) <= ChannelSize
  BY DEF Types, TypeOK
<1>2. /\ Append(chan[r], u) \in Seq(Updates) /\ Len(Append(chan[r], u)) = Len(chan[r]) + 1
      /\ Len(chan[r]) \in Nat
  BY <1>1, AppendSeq, QueueTypes
<1>3. CASE forwarder[r] = "live"
  <2>1. chan' = [chan EXCEPT ![r] = Append(chan[r], u)]
    BY <1>3 DEF send
  <2>2. /\ chan' \in [Runs -> Seq(Updates)] /\ chan'[r] = Append(chan[r], u)
        /\ \A q \in Runs : q # r => chan'[q] = chan[q]
    BY <1>1, <1>2, <2>1
  <2>3. CanSend(r) => Len(chan'[r]) <= ChannelSize
    BY <1>2, <1>3, <2>2, DesktopAssumption DEF CanSend
  <2> QED  BY <1>1, <1>3, <2>2, <2>3
<1>4. CASE forwarder[r] # "live"
  BY <1>1, <1>4 DEF send
<1> QED  BY <1>3, <1>4

LEMMA TypeStep ==
  ASSUME Types, [Next]_vars
  PROVE  Types'
<1>1. ASSUME NEW r \in Runs, RunTests(r) \/ Generate(r) PROVE Types'
  <2>1. PICK cats \in {{"Fuzzing"}} \cup Selections : start(r, cats) /\ panel \in {"tests", "fuzzing"}
    BY <1>1 DEF RunTests, Generate
  <2>2. /\ kind' \in [Runs -> Kinds]
        /\ phase' \in [Runs -> {"unused", "started", "running", "sending", "done"}]
        /\ forwarder' \in [Runs -> {"none", "live", "ended", "gone"}]
    BY <2>1 DEF start, Types, TypeOK, Kinds
  <2>3. generating' \in BOOLEAN /\ cancelled' \in BOOLEAN
    BY <1>1 DEF RunTests, Generate, Types, TypeOK
  <2> QED  BY <2>1, <2>2, <2>3 DEF start, stored, Types, TypeOK
<1>2. CASE StopFuzzing
  BY <1>2 DEF StopFuzzing, task, stored, Types, TypeOK
<1>3. CASE StopTests
  BY <1>3 DEF StopTests, screen, task, stored, Types, TypeOK
<1>4. CASE GenerateReport \/ ReportGenerated
  BY <1>4 DEF GenerateReport, ReportGenerated, task, stored, Types, TypeOK
<1>5. CASE ClearResults
  BY <1>5 DEF ClearResults, screen, task, Types, TypeOK
<1>6. ASSUME NEW p \in Panels, SwitchPanel(p) PROVE Types'
  <2>1. /\ panel' \in Panels
        /\ forwarder' \in [Runs -> {"none", "live", "ended", "gone"}]
        /\ \A r \in Runs : chan'[r] = chan[r] \/ chan'[r] = <<>>
        /\ DOMAIN chan' = Runs
    BY <1>6 DEF SwitchPanel, Types, TypeOK
  <2>2. chan' = [r \in Runs |-> chan'[r]]
    BY <1>6 DEF SwitchPanel
  <2>3. \A r \in Runs : chan'[r] \in Seq(Updates) /\ Len(chan'[r]) <= ChannelSize
    <3>1. <<>> \in Seq(Updates) /\ Len(<<>>) = 0 /\ 0 <= ChannelSize
      BY DesktopAssumption
    <3> QED  BY <2>1, <3>1 DEF Types, TypeOK
  <2>4. chan' \in [Runs -> Seq(Updates)]
    BY <2>2, <2>3
  <2>5. generating' = FALSE /\ report' \in {"idle", "running", "dropped"}
    BY <1>6 DEF SwitchPanel, Types, TypeOK
  <2> QED  BY <1>6, <2>1, <2>3, <2>4, <2>5 DEF SwitchPanel, task, stored, Types, TypeOK
<1>7. ASSUME NEW r \in Runs, SendStarted(r) PROVE Types'
  <2>1. chan' \in [Runs -> Seq(Updates)] /\ \A q \in Runs : Len(chan'[q]) <= ChannelSize
    BY <1>7, SendFacts, UpdateShapes DEF SendStarted
  <2>2. phase' \in [Runs -> {"unused", "started", "running", "sending", "done"}]
    BY <1>7 DEF SendStarted, Types, TypeOK
  <2> QED  BY <1>7, <2>1, <2>2 DEF SendStarted, screen, stored, Types, TypeOK
<1>8. ASSUME NEW r \in Runs, NEW joined \in BOOLEAN, NEW order \in run_orders(r),
             TestsRan(r, joined, order)
      PROVE  Types'
  <2>1. updates_of(r, joined, order) \in Seq(Updates)
    BY UpdatesOf
  <2>2. /\ phase' \in [Runs -> {"unused", "started", "running", "sending", "done"}]
        /\ todo' \in [Runs -> Seq(Updates)]
    BY <1>8, <2>1 DEF TestsRan, Types, TypeOK
  <2> QED  BY <1>8, <2>2 DEF TestsRan, screen, stored, Types, TypeOK
<1>9. ASSUME NEW r \in Runs, SendNext(r) PROVE Types'
  <2>1. todo[r] # <<>> /\ todo[r] \in Seq(Updates)
    BY <1>9, QueueTypes DEF SendNext
  <2>2. Head(todo[r]) \in Updates /\ Tail(todo[r]) \in Seq(Updates)
    BY <2>1, TailSeq
  <2>3. chan' \in [Runs -> Seq(Updates)] /\ \A q \in Runs : Len(chan'[q]) <= ChannelSize
    BY <1>9, <2>2, SendFacts DEF SendNext
  <2>4. todo' \in [Runs -> Seq(Updates)]
    BY <1>9, <2>2 DEF SendNext, Types
  <2>5. phase' \in [Runs -> {"unused", "started", "running", "sending", "done"}]
    BY <1>9 DEF SendNext, Types, TypeOK
  <2> QED  BY <1>9, <2>3, <2>4, <2>5 DEF SendNext, screen, stored, Types, TypeOK
<1>10. ASSUME NEW r \in Runs, Forward(r) PROVE Types'
  <2>1. chan[r] # <<>> /\ chan[r] \in Seq(Updates) /\ Len(chan[r]) <= ChannelSize
    BY <1>10, QueueTypes DEF Forward, Types, TypeOK
  <2>2. /\ Head(chan[r]) \in Updates /\ Tail(chan[r]) \in Seq(Updates)
        /\ Len(Tail(chan[r])) = Len(chan[r]) - 1 /\ Len(chan[r]) \in Nat
    BY <2>1, TailSeq
  <2>3. chan' = [chan EXCEPT ![r] = Tail(chan[r])] /\ inbox' = Append(inbox, Head(chan[r]))
    BY <1>10 DEF Forward
  <2>4. /\ chan' \in [Runs -> Seq(Updates)] /\ chan'[r] = Tail(chan[r])
        /\ \A q \in Runs : q # r => chan'[q] = chan[q]
    BY <2>2, <2>3 DEF Types
  <2>5. \A q \in Runs : Len(chan'[q]) <= ChannelSize
    <3>1. Len(chan'[r]) <= ChannelSize
      BY <2>1, <2>2, <2>4, DesktopAssumption
    <3> QED  BY <2>4, <3>1 DEF Types, TypeOK
  <2>6. inbox' \in Seq(Updates)
    BY <2>2, <2>3, AppendSeq DEF Types
  <2> QED  BY <1>10, <2>4, <2>5, <2>6 DEF Forward, screen, task, stored, Types, TypeOK
<1>11. ASSUME NEW r \in Runs, GiveUp(r) PROVE Types'
  <2>1. /\ chan' = [chan EXCEPT ![r] = <<>>] /\ <<>> \in Seq(Updates)
        /\ Len(<<>>) = 0 /\ 0 <= ChannelSize
    BY <1>11, DesktopAssumption DEF GiveUp
  <2>2. /\ chan' \in [Runs -> Seq(Updates)] /\ chan'[r] = <<>>
        /\ \A q \in Runs : q # r => chan'[q] = chan[q]
    BY <2>1 DEF Types
  <2>3. \A q \in Runs : Len(chan'[q]) <= ChannelSize
    BY <2>1, <2>2 DEF Types, TypeOK
  <2>4. forwarder' \in [Runs -> {"none", "live", "ended", "gone"}]
    BY <1>11 DEF GiveUp, Types, TypeOK
  <2> QED  BY <1>11, <2>2, <2>3, <2>4 DEF GiveUp, task, stored, Types, TypeOK
<1>12. ASSUME NEW r \in Runs, ForwarderEnds(r) PROVE Types'
  <2>1. forwarder' \in [Runs -> {"none", "live", "ended", "gone"}]
    BY <1>12 DEF ForwarderEnds, Types, TypeOK
  <2>2. generating' \in BOOLEAN
    BY <1>12 DEF ForwarderEnds, Types, TypeOK
  <2> QED  BY <1>12, <2>1, <2>2 DEF ForwarderEnds, task, stored, Types, TypeOK
<1>13. CASE Handle
  <2> DEFINE u == Head(inbox)
  <2>1. inbox # <<>> /\ inbox \in Seq(Updates) /\ inbox' = Tail(inbox)
    BY <1>13 DEF Handle, Types
  <2>2. u \in Updates /\ inbox' \in Seq(Updates)
    BY <2>1, TailSeq
  <2>3. /\ u.run \in Runs /\ u.what \in {"Started", "Completed", "Failed", "Result"}
        /\ u.what = "Result" => u.result \in Result
    BY <2>2, UpdateShapes
  <2>4. testing' \in BOOLEAN /\ cancelled' \in BOOLEAN /\ results' \subseteq Result
    BY <1>13, <2>3 DEF Handle, Types, TypeOK
  <2>5. history' = history \/ history' = save_to_history(u.run)
    BY <1>13, <2>3 DEF Handle
  <2>6. history' \in Seq([run : Runs, results : SUBSET Result]) /\ Len(history') <= MaxHistory
    <3>1. CASE history' = history
      BY <3>1 DEF Types, TypeOK
    <3>2. CASE history' = save_to_history(u.run)
      BY <2>3, <3>2, HistoryPushed
    <3> QED  BY <2>5, <3>1, <3>2
  <2> QED  BY <1>13, <2>2, <2>4, <2>6 DEF Handle, screen, task, Types, TypeOK
<1>14. CASE UNCHANGED vars
  BY <1>14 DEF vars, Types, TypeOK
<1> QED  BY <1>1, <1>2, <1>3, <1>4, <1>5, <1>6, <1>7, <1>8, <1>9, <1>10, <1>11, <1>12,
            <1>13, <1>14 DEF Next, User, Task, Forwarding

-----------------------------------------------------------------------------
(* What each step does to the runs.                                        *)

Same(r) == /\ phase'[r] = phase[r] /\ todo'[r] = todo[r] /\ chan'[r] = chan[r]
           /\ forwarder'[r] = forwarder[r]

LEMMA StartFacts ==
  ASSUME Types, NEW r \in Runs, RunTests(r) \/ Generate(r)
  PROVE  /\ phase[r] = "unused" /\ phase'[r] = "started" /\ forwarder'[r] = "live"
         /\ todo'[r] = todo[r] /\ chan'[r] = chan[r]
         /\ \A q \in Runs : q # r => Same(q) /\ kind'[q] = kind[q]
         /\ UNCHANGED <<inbox, testing, report, results, cleared, history>>
<1>1. PICK cats \in {{"Fuzzing"}} \cup Selections : start(r, cats)
  BY DEF RunTests, Generate
<1> QED  BY <1>1 DEF start, stored, Same, Types, TypeOK

LEMMA LeaveFacts ==
  ASSUME Types, NEW p \in Panels, SwitchPanel(p)
  PROVE  /\ \A q \in Runs : /\ phase'[q] = phase[q] /\ todo'[q] = todo[q]
                            /\ \/ Same(q)
                               \/ forwarder[q] = "live" /\ forwarder'[q] = "gone" /\ chan'[q] = <<>>
         /\ report' = report \/ report' = "dropped"
         /\ UNCHANGED <<kind, inbox, testing, results, cleared, history>>
BY DEF SwitchPanel, task, stored, Same

LEMMA StartedFacts ==
  ASSUME Types, NEW r \in Runs, SendStarted(r)
  PROVE  /\ phase[r] = "started" /\ phase'[r] = "running"
         /\ todo'[r] = todo[r] /\ forwarder'[r] = forwarder[r]
         /\ chan'[r] = IF forwarder[r] = "live" THEN Append(chan[r], Update(r, "Started"))
                       ELSE chan[r]
         /\ \A q \in Runs : q # r => Same(q)
         /\ UNCHANGED <<kind, inbox, testing, report, results, cleared, history>>
<1>1. Update(r, "Started") \in Updates /\ send(r, Update(r, "Started"))
  BY UpdateShapes DEF SendStarted
<1>2. /\ \A q \in Runs : q # r => chan'[q] = chan[q]
      /\ chan'[r] = IF forwarder[r] = "live" THEN Append(chan[r], Update(r, "Started"))
                    ELSE chan[r]
  BY <1>1, SendFacts
<1> QED  BY <1>2 DEF SendStarted, screen, stored, Same, Types, TypeOK

LEMMA RanFacts ==
  ASSUME Types, NEW r \in Runs, NEW joined \in BOOLEAN, NEW order \in run_orders(r),
         TestsRan(r, joined, order)
  PROVE  /\ phase[r] = "running" /\ phase'[r] = "sending"
         /\ todo'[r] = updates_of(r, joined, order)
         /\ chan'[r] = chan[r] /\ forwarder'[r] = forwarder[r]
         /\ \A q \in Runs : q # r => Same(q)
         /\ UNCHANGED <<kind, inbox, testing, report, results, cleared, history>>
BY DEF TestsRan, screen, stored, Same, Types, TypeOK

LEMMA NextFacts ==
  ASSUME Types, NEW r \in Runs, SendNext(r)
  PROVE  /\ phase[r] = "sending" /\ todo[r] # <<>> /\ Head(todo[r]) \in Updates
         /\ phase'[r] = IF Len(todo[r]) = 1 THEN "done" ELSE "sending"
         /\ todo'[r] = Tail(todo[r]) /\ forwarder'[r] = forwarder[r]
         /\ chan'[r] = IF forwarder[r] = "live" THEN Append(chan[r], Head(todo[r])) ELSE chan[r]
         /\ \A q \in Runs : q # r => Same(q)
         /\ UNCHANGED <<kind, inbox, testing, report, results, cleared, history>>
<1>1. todo[r] # <<>> /\ todo[r] \in Seq(Updates)
  BY QueueTypes DEF SendNext
<1>2. Head(todo[r]) \in Updates /\ send(r, Head(todo[r]))
  BY <1>1, TailSeq DEF SendNext
<1>3. /\ \A q \in Runs : q # r => chan'[q] = chan[q]
      /\ chan'[r] = IF forwarder[r] = "live" THEN Append(chan[r], Head(todo[r])) ELSE chan[r]
  BY <1>2, SendFacts
<1>4. /\ phase'[r] = IF Len(todo[r]) = 1 THEN "done" ELSE "sending"
      /\ todo'[r] = Tail(todo[r])
      /\ \A q \in Runs : q # r => phase'[q] = phase[q] /\ todo'[q] = todo[q]
  BY DEF SendNext, Types, TypeOK
<1> QED  BY <1>1, <1>2, <1>3, <1>4 DEF SendNext, screen, stored, Same

LEMMA ForwardFacts ==
  ASSUME Types, NEW r \in Runs, Forward(r)
  PROVE  /\ forwarder[r] = "live" /\ chan[r] # <<>> /\ Head(chan[r]) \in Updates
         /\ chan'[r] = Tail(chan[r]) /\ inbox' = Append(inbox, Head(chan[r]))
         /\ \A q \in Runs : q # r => chan'[q] = chan[q]
         /\ UNCHANGED <<kind, phase, todo, forwarder, testing, report, results, cleared, history>>
<1>1. chan[r] # <<>> /\ chan[r] \in Seq(Updates)
  BY QueueTypes DEF Forward
<1>2. Head(chan[r]) \in Updates
  BY <1>1, TailSeq
<1>3. chan'[r] = Tail(chan[r]) /\ \A q \in Runs : q # r => chan'[q] = chan[q]
  BY DEF Forward, Types
<1> QED  BY <1>1, <1>2, <1>3 DEF Forward, screen, task, stored

LEMMA GiveUpFacts ==
  ASSUME Types, NEW r \in Runs, GiveUp(r)
  PROVE  /\ forwarder[r] = "live" /\ forwarder'[r] = "gone" /\ chan'[r] = <<>>
         /\ \A q \in Runs : q # r => Same(q)
         /\ UNCHANGED <<kind, phase, todo, inbox, testing, report, results, cleared, history>>
BY DEF GiveUp, task, stored, Same, Types, TypeOK

LEMMA EndsFacts ==
  ASSUME Types, NEW r \in Runs, ForwarderEnds(r)
  PROVE  /\ forwarder[r] = "live" /\ chan[r] = <<>> /\ phase[r] = "done"
         /\ forwarder'[r] = "ended"
         /\ \A q \in Runs : q # r => Same(q)
         /\ UNCHANGED <<kind, phase, todo, chan, inbox, testing, report, results, cleared, history>>
BY DEF ForwarderEnds, task, stored, Same, Types, TypeOK

(* The steps that leave the tasks, the channels and the forwarders alone.  *)
QuietStep == StopFuzzing \/ StopTests \/ GenerateReport \/ ReportGenerated \/ ClearResults
               \/ Handle \/ UNCHANGED vars

LEMMA QuietFacts ==
  ASSUME QuietStep
  PROVE  UNCHANGED <<kind, phase, todo, chan, forwarder>>
BY DEF QuietStep, StopFuzzing, StopTests, GenerateReport, ReportGenerated, ClearResults, Handle,
       vars, task, screen, stored

-----------------------------------------------------------------------------
(* One run's task and channel.                                             *)

LEMMA PipeStarts ==
  ASSUME NEW r, NEW td, NEW ch, NEW fw, Pipe(r, "unused", td, ch, fw)
  PROVE  Pipe(r, "started", td, ch, "live")
<1>1. td = <<>> /\ ch = <<>>
  BY DEF Pipe
<1> QED  BY <1>1 DEF Pipe

LEMMA PipeSendsStarted ==
  ASSUME NEW r \in Runs, NEW td, NEW ch \in Seq(Updates), NEW fw, Pipe(r, "started", td, ch, fw)
  PROVE  Pipe(r, "running", td,
              IF fw = "live" THEN Append(ch, Update(r, "Started")) ELSE ch, fw)
<1> DEFINE u == Update(r, "Started")
<1>1. u \in Updates /\ u.run = r /\ u.what = "Started"
  BY UpdateShapes
<1> HIDE DEF u
<1>2. /\ \A k \in DOMAIN ch : Append(ch, u)[k] = ch[k]
      /\ Append(ch, u)[Len(ch) + 1] = u
      /\ \A k \in DOMAIN Append(ch, u) : k \in DOMAIN ch \/ k = Len(ch) + 1
  BY <1>1, AppendSeq
<1>3. CASE fw = "live"
  <2>1. \A k \in DOMAIN Append(ch, u) : Append(ch, u)[k].run = r /\ ~IsEnd(Append(ch, u)[k])
    BY <1>1, <1>2 DEF Pipe, IsEnd
  <2> QED  BY <1>3, <2>1 DEF Pipe, u
<1>4. CASE fw # "live"
  BY <1>4 DEF Pipe
<1> QED  BY <1>3, <1>4

LEMMA PipeRan ==
  ASSUME NEW r, NEW td, NEW ch, NEW fw, Pipe(r, "running", td, ch, fw),
         NEW q, q # <<>>, IsEnd(q[Len(q)]),
         \A k \in DOMAIN q : q[k].run = r /\ (IsEnd(q[k]) => k = Len(q))
  PROVE  Pipe(r, "sending", q, ch, fw)
BY DEF Pipe

LEMMA PipeSends ==
  ASSUME NEW r, NEW td \in Seq(Updates), NEW ch \in Seq(Updates), NEW fw,
         Pipe(r, "sending", td, ch, fw)
  PROVE  Pipe(r, IF Len(td) = 1 THEN "done" ELSE "sending", Tail(td),
              IF fw = "live" THEN Append(ch, Head(td)) ELSE ch, fw)
<1> DEFINE u == Head(td)
           c == IF fw = "live" THEN Append(ch, u) ELSE ch
<1>1. /\ td # <<>> /\ IsEnd(td[Len(td)])
      /\ \A k \in DOMAIN td : td[k].run = r /\ (IsEnd(td[k]) => k = Len(td))
      /\ \A k \in DOMAIN ch : ch[k].run = r /\ ~IsEnd(ch[k])
      /\ fw # "live" => ch = <<>>
      /\ fw # "ended"
  BY DEF Pipe
<1>2. /\ Tail(td) \in Seq(Updates) /\ Len(td) \in Nat \ {0} /\ Len(Tail(td)) = Len(td) - 1
      /\ 1 \in DOMAIN td /\ u = td[1] /\ u \in Updates
      /\ \A k \in DOMAIN Tail(td) : k \in Nat \ {0} /\ k + 1 \in DOMAIN td /\ Tail(td)[k] = td[k + 1]
  BY <1>1, TailSeq
<1> HIDE DEF u
<1>3. /\ \A k \in DOMAIN ch : Append(ch, u)[k] = ch[k]
      /\ Append(ch, u)[Len(ch) + 1] = u /\ Append(ch, u) # <<>>
      /\ \A k \in DOMAIN Append(ch, u) : k \in DOMAIN ch \/ k = Len(ch) + 1
      /\ Len(Append(ch, u)) = Len(ch) + 1
  BY <1>2, AppendSeq
<1>4. u.run = r /\ (IsEnd(u) <=> Len(td) = 1)
  BY <1>1, <1>2
<1>5. fw = "live" => /\ \A k \in DOMAIN c : c[k].run = r /\ (IsEnd(c[k]) => k = Len(c) /\ Len(td) = 1)
                     /\ Len(td) = 1 => IsEnd(c[Len(c)])
  BY <1>1, <1>3, <1>4
<1>6. fw # "live" => c = <<>>
  BY <1>1
<1>7. \A k \in DOMAIN Tail(td) : Tail(td)[k].run = r /\ (IsEnd(Tail(td)[k]) => k = Len(Tail(td)))
  BY <1>1, <1>2
<1>8. CASE Len(td) = 1
  <2>1. Tail(td) = <<>>
    BY <1>2, <1>8, SeqDomain
  <2> HIDE DEF c
  <2> QED  BY <1>1, <1>5, <1>6, <1>8, <2>1 DEF Pipe, c, u
<1>9. CASE Len(td) # 1
  <2>1. Len(Tail(td)) # 0
    BY <1>2, <1>9
  <2>2. Tail(td) # <<>>
    BY <1>2, <2>1, SeqDomain
  <2>3. IsEnd(Tail(td)[Len(Tail(td))])
    <3>1. Len(Tail(td)) \in DOMAIN Tail(td)
      BY <1>2, <2>2, SeqDomain
    <3>2. Tail(td)[Len(Tail(td))] = td[Len(Tail(td)) + 1] /\ Len(Tail(td)) + 1 = Len(td)
      BY <1>2, <3>1
    <3> QED  BY <1>1, <3>2
  <2> HIDE DEF c
  <2> QED  BY <1>1, <1>5, <1>6, <1>7, <1>9, <2>2, <2>3 DEF Pipe, c, u
<1> QED  BY <1>8, <1>9

LEMMA PipeForwards ==
  ASSUME NEW r, NEW ph, NEW td, NEW ch \in Seq(Updates), ch # <<>>, Pipe(r, ph, td, ch, "live")
  PROVE  Pipe(r, ph, td, Tail(ch), "live")
<1>1. /\ Tail(ch) \in Seq(Updates) /\ Len(ch) \in Nat \ {0} /\ Len(Tail(ch)) = Len(ch) - 1
      /\ \A k \in DOMAIN Tail(ch) : k \in Nat \ {0} /\ k + 1 \in DOMAIN ch /\ Tail(ch)[k] = ch[k + 1]
  BY TailSeq
<1>2. \A k \in DOMAIN ch : ch[k].run = r /\ (IsEnd(ch[k]) => k = Len(ch) /\ ph = "done")
  BY DEF Pipe
<1>3. \A k \in DOMAIN Tail(ch) :
        Tail(ch)[k].run = r /\ (IsEnd(Tail(ch)[k]) => k = Len(Tail(ch)) /\ ph = "done")
  BY <1>1, <1>2
<1>4. ASSUME ph = "done", Tail(ch) # <<>> PROVE IsEnd(Tail(ch)[Len(Tail(ch))])
  <2>1. Len(Tail(ch)) \in DOMAIN Tail(ch)
    BY <1>1, <1>4, SeqDomain
  <2>2. Tail(ch)[Len(Tail(ch))] = ch[Len(Tail(ch)) + 1] /\ Len(Tail(ch)) + 1 = Len(ch)
    BY <1>1, <2>1
  <2> QED  BY <1>4, <2>2 DEF Pipe
<1> QED  BY <1>3, <1>4 DEF Pipe

LEMMA PipeLost ==
  ASSUME NEW r, NEW ph, NEW td, NEW ch, Pipe(r, ph, td, ch, "live")
  PROVE  Pipe(r, ph, td, <<>>, "gone")
BY DEF Pipe

LEMMA PipeEnds ==
  ASSUME NEW r, NEW td, Pipe(r, "done", td, <<>>, "live")
  PROVE  Pipe(r, "done", td, <<>>, "ended")
BY DEF Pipe

LEMMA PipesStep ==
  ASSUME Types, Pipes, [Next]_vars
  PROVE  Pipes'
<1> DEFINE P(q) == Pipe(q, phase[q], todo[q], chan[q], forwarder[q])
           Q(q) == Pipe(q, phase'[q], todo'[q], chan'[q], forwarder'[q])
<1>1. \A q \in Runs : P(q) /\ todo[q] \in Seq(Updates) /\ chan[q] \in Seq(Updates)
  BY QueueTypes DEF Pipes
<1>2. \A q \in Runs : Same(q) => Q(q)
  BY <1>1 DEF Same
<1> SUFFICES ASSUME NEW q \in Runs PROVE Q(q)
  BY DEF Pipes
<1>3. ASSUME NEW r \in Runs, RunTests(r) \/ Generate(r) PROVE Q(q)
  <2>1. q = r => Q(q)
    BY <1>1, <1>3, StartFacts, PipeStarts
  <2>2. q # r => Q(q)
    BY <1>2, <1>3, StartFacts
  <2> QED  BY <2>1, <2>2
<1>4. ASSUME NEW p \in Panels, SwitchPanel(p) PROVE Q(q)
  BY <1>1, <1>2, <1>4, LeaveFacts, PipeLost
<1>5. ASSUME NEW r \in Runs, SendStarted(r) PROVE Q(q)
  <2>1. q = r => Q(q)
    BY <1>1, <1>5, StartedFacts, PipeSendsStarted
  <2>2. q # r => Q(q)
    BY <1>2, <1>5, StartedFacts
  <2> QED  BY <2>1, <2>2
<1>6. ASSUME NEW r \in Runs, NEW joined \in BOOLEAN, NEW order \in run_orders(r),
             TestsRan(r, joined, order)
      PROVE  Q(q)
  <2>1. q = r => Q(q)
    BY <1>1, <1>6, RanFacts, UpdatesOf, PipeRan
  <2>2. q # r => Q(q)
    BY <1>2, <1>6, RanFacts
  <2> QED  BY <2>1, <2>2
<1>7. ASSUME NEW r \in Runs, SendNext(r) PROVE Q(q)
  <2>1. q = r => Q(q)
    BY <1>1, <1>7, NextFacts, PipeSends
  <2>2. q # r => Q(q)
    BY <1>2, <1>7, NextFacts
  <2> QED  BY <2>1, <2>2
<1>8. ASSUME NEW r \in Runs, Forward(r) PROVE Q(q)
  <2>1. q = r => Q(q)
    BY <1>1, <1>8, ForwardFacts, PipeForwards
  <2>2. q # r => Q(q)
    BY <1>1, <1>8, ForwardFacts
  <2> QED  BY <2>1, <2>2
<1>9. ASSUME NEW r \in Runs, GiveUp(r) PROVE Q(q)
  <2>1. q = r => Q(q)
    BY <1>1, <1>9, GiveUpFacts, PipeLost
  <2>2. q # r => Q(q)
    BY <1>2, <1>9, GiveUpFacts
  <2> QED  BY <2>1, <2>2
<1>10. ASSUME NEW r \in Runs, ForwarderEnds(r) PROVE Q(q)
  <2>1. q = r => Q(q)
    BY <1>1, <1>10, EndsFacts, PipeEnds
  <2>2. q # r => Q(q)
    BY <1>2, <1>10, EndsFacts
  <2> QED  BY <2>1, <2>2
<1>11. CASE QuietStep
  BY <1>1, <1>11, QuietFacts
<1> QED  BY <1>3, <1>4, <1>5, <1>6, <1>7, <1>8, <1>9, <1>10, <1>11
            DEF Next, User, Task, Forwarding, QuietStep

-----------------------------------------------------------------------------
(* The queue of the coroutine.                                             *)

LEMMA HandleFacts ==
  ASSUME Types, Handle
  PROVE  /\ inbox # <<>> /\ inbox' = Tail(inbox) /\ Head(inbox) = inbox[1] /\ inbox[1] \in Updates
         /\ UNCHANGED <<report, cleared, kind, phase, todo, chan, forwarder>>
         /\ inbox[1].what = "Started" => UNCHANGED <<results, history>>
         /\ inbox[1].what = "Result" => /\ results' = results \cup {inbox[1].result}
                                        /\ UNCHANGED <<testing, history>>
         /\ inbox[1].what = "Completed" => /\ history' = save_to_history(inbox[1].run)
                                           /\ testing' = FALSE /\ UNCHANGED results
         /\ inbox[1].what = "Failed" => testing' = FALSE /\ UNCHANGED <<results, history>>
<1>1. inbox # <<>> /\ inbox \in Seq(Updates) /\ inbox' = Tail(inbox)
  BY DEF Handle, Types
<1>2. Head(inbox) = inbox[1] /\ inbox[1] \in Updates
  BY <1>1, TailSeq
<1>3. inbox[1].what \in {"Started", "Completed", "Failed", "Result"}
  BY <1>2, UpdateShapes
<1>4. UNCHANGED <<report, cleared, kind, phase, todo, chan, forwarder>>
  BY DEF Handle, screen, task
<1>5. /\ inbox[1].what = "Started" => UNCHANGED <<results, history>>
      /\ inbox[1].what = "Result" => /\ results' = results \cup {inbox[1].result}
                                     /\ UNCHANGED <<testing, history>>
      /\ inbox[1].what = "Completed" => /\ history' = save_to_history(inbox[1].run)
                                        /\ testing' = FALSE /\ UNCHANGED results
      /\ inbox[1].what = "Failed" => testing' = FALSE /\ UNCHANGED <<results, history>>
  BY <1>2 DEF Handle
<1> QED  BY <1>1, <1>2, <1>4, <1>5

(* A step changes the queue of the coroutine and the history only by       *)
(* forwarding or by handling, and Clear moves results without losing one.  *)
Elsewhere == /\ UNCHANGED <<inbox, history>> /\ cleared \subseteq cleared'
             /\ results \cup cleared \subseteq results' \cup cleared'

LEMMA StepKinds ==
  ASSUME Types, [Next]_vars
  PROVE  Elsewhere \/ (\E r \in Runs : Forward(r)) \/ Handle
<1>1. ASSUME NEW r \in Runs, RunTests(r) \/ Generate(r) PROVE Elsewhere
  BY <1>1, StartFacts DEF Elsewhere
<1>2. ASSUME NEW p \in Panels, SwitchPanel(p) PROVE Elsewhere
  BY <1>2, LeaveFacts DEF Elsewhere
<1>3. ASSUME NEW r \in Runs, SendStarted(r) PROVE Elsewhere
  BY <1>3, StartedFacts DEF Elsewhere
<1>4. ASSUME NEW r \in Runs, NEW joined \in BOOLEAN, NEW order \in run_orders(r),
             TestsRan(r, joined, order)
      PROVE  Elsewhere
  BY <1>4, RanFacts DEF Elsewhere
<1>5. ASSUME NEW r \in Runs, SendNext(r) PROVE Elsewhere
  BY <1>5, NextFacts DEF Elsewhere
<1>6. ASSUME NEW r \in Runs, GiveUp(r) PROVE Elsewhere
  BY <1>6, GiveUpFacts DEF Elsewhere
<1>7. ASSUME NEW r \in Runs, ForwarderEnds(r) PROVE Elsewhere
  BY <1>7, EndsFacts DEF Elsewhere
<1>8. CASE StopFuzzing \/ StopTests \/ GenerateReport \/ ReportGenerated \/ UNCHANGED vars
  BY <1>8 DEF StopFuzzing, StopTests, GenerateReport, ReportGenerated, stored, vars, Elsewhere
<1>9. CASE ClearResults
  BY <1>9 DEF ClearResults, Elsewhere
<1> QED  BY <1>1, <1>2, <1>3, <1>4, <1>5, <1>6, <1>7, <1>8, <1>9
            DEF Next, User, Task, Forwarding

(* A run that was started stays so, and so does its kind.                  *)
LEMMA KindKept ==
  ASSUME Types, [Next]_vars, NEW q \in Runs, phase[q] # "unused"
  PROVE  phase'[q] # "unused" /\ kind'[q] = kind[q] /\ tests_of(q)' = tests_of(q)
<1> DEFINE K == phase'[q] # "unused" /\ kind'[q] = kind[q]
<1>1. ASSUME NEW r \in Runs, RunTests(r) \/ Generate(r) PROVE K
  BY <1>1, StartFacts DEF Same
<1>2. ASSUME NEW p \in Panels, SwitchPanel(p) PROVE K
  BY <1>2, LeaveFacts
<1>3. ASSUME NEW r \in Runs, SendStarted(r) PROVE K
  BY <1>3, StartedFacts DEF Same
<1>4. ASSUME NEW r \in Runs, NEW joined \in BOOLEAN, NEW order \in run_orders(r),
             TestsRan(r, joined, order)
      PROVE  K
  BY <1>4, RanFacts DEF Same
<1>5. ASSUME NEW r \in Runs, SendNext(r) PROVE K
  BY <1>5, NextFacts DEF Same
<1>6. ASSUME NEW r \in Runs, Forward(r) PROVE K
  BY <1>6, ForwardFacts
<1>7. ASSUME NEW r \in Runs, GiveUp(r) PROVE K
  BY <1>7, GiveUpFacts
<1>8. ASSUME NEW r \in Runs, ForwarderEnds(r) PROVE K
  BY <1>8, EndsFacts
<1>9. ASSUME QuietStep PROVE K
  BY <1>9, QuietFacts
<1>10. K
  BY <1>1, <1>2, <1>3, <1>4, <1>5, <1>6, <1>7, <1>8, <1>9
     DEF Next, User, Task, Forwarding, QuietStep
<1> QED  BY <1>10 DEF tests_of

(* What is forwarded: the head of a channel with a receiver.               *)
LEMMA ForwardedUpdate ==
  ASSUME Types, Pipes, NEW r \in Runs, Forward(r)
  PROVE  /\ Head(chan[r]) = chan[r][1] /\ chan[r][1] \in Updates /\ chan[r][1].run = r
         /\ phase[r] # "unused" /\ chan[r] \in Seq(Updates) /\ chan[r] # <<>>
<1>1. chan[r] \in Seq(Updates) /\ chan[r] # <<>> /\ forwarder[r] = "live"
  BY ForwardFacts, QueueTypes
<1>2. Head(chan[r]) = chan[r][1] /\ chan[r][1] \in Updates /\ 1 \in DOMAIN chan[r]
  BY <1>1, TailSeq
<1>3. Pipe(r, phase[r], todo[r], chan[r], forwarder[r])
  BY DEF Pipes
<1> QED  BY <1>1, <1>2, <1>3 DEF Pipe

LEMMA KnownStep ==
  ASSUME Types, Pipes, Known, [Next]_vars
  PROVE  Known'
<1>1. \A k \in DOMAIN inbox : inbox[k] \in Updates /\ inbox[k].run \in Runs
  BY SeqDomain, UpdateShapes DEF Types
<1>2. \A i \in DOMAIN history : history[i].run \in Runs
  <2>1. \A i \in DOMAIN history : history[i] \in [run : Runs, results : SUBSET Result]
    BY SeqDomain DEF Types
  <2> QED  BY <2>1
<1>3. /\ \A k \in DOMAIN inbox : phase'[inbox[k].run] # "unused"
      /\ \A i \in DOMAIN history : phase'[history[i].run] # "unused"
  BY <1>1, <1>2, KindKept DEF Known
<1>4. CASE Elsewhere
  BY <1>3, <1>4 DEF Elsewhere, Known
<1>5. ASSUME NEW r \in Runs, Forward(r) PROVE Known'
  <2>1. Head(chan[r]) \in Updates /\ Head(chan[r]).run = r /\ phase[r] # "unused"
    BY <1>5, ForwardedUpdate
  <2>2. inbox' = Append(inbox, Head(chan[r])) /\ UNCHANGED <<phase, history>>
    BY <1>5, ForwardFacts
  <2>3. /\ \A k \in DOMAIN inbox : inbox'[k] = inbox[k]
        /\ inbox'[Len(inbox) + 1] = Head(chan[r])
        /\ \A k \in DOMAIN inbox' : k \in DOMAIN inbox \/ k = Len(inbox) + 1
    BY <2>1, <2>2, AppendSeq DEF Types
  <2> QED  BY <1>3, <2>1, <2>2, <2>3 DEF Known
<1>6. CASE Handle
  <2>1. inbox # <<>> /\ inbox \in Seq(Updates) /\ inbox' = Tail(inbox)
    BY <1>6, HandleFacts DEF Types
  <2>2. \A k \in DOMAIN inbox' : k + 1 \in DOMAIN inbox /\ inbox'[k] = inbox[k + 1]
    BY <2>1, TailSeq
  <2>3. \A k \in DOMAIN inbox' : phase'[inbox'[k].run] # "unused"
    BY <1>3, <2>2
  <2>4. inbox[1].what \in {"Started", "Completed", "Failed", "Result"} /\ 1 \in DOMAIN inbox
    BY <2>1, <1>6, HandleFacts, UpdateShapes, TailSeq
  <2>5. history' = history \/ history' = save_to_history(inbox[1].run)
    BY <1>6, <2>4, HandleFacts
  <2>6. \A i \in DOMAIN history' : phase'[history'[i].run] # "unused"
    <3>1. CASE history' = history
      BY <1>3, <3>1
    <3>2. CASE history' = save_to_history(inbox[1].run)
      <4>1. \A i \in DOMAIN history' :
              \/ history'[i] = [run |-> inbox[1].run, results |-> results]
              \/ \E j \in DOMAIN history : history'[i] = history[j]
        BY <1>1, <2>4, <3>2, HistoryPushed
      <4> QED  BY <1>3, <2>4, <4>1
    <3> QED  BY <2>5, <3>1, <3>2
  <2> QED  BY <2>3, <2>6 DEF Known
<1> QED  BY <1>4, <1>5, <1>6, StepKinds

-----------------------------------------------------------------------------
(* The flag that disables the buttons.                                     *)

ComingNext(r) == Expected(phase'[r], chan'[r], forwarder'[r])

(* A step that leaves the queue of the coroutine alone.                    *)
LEMMA BusyKept ==
  ASSUME BusyInv, UNCHANGED inbox, \A k \in DOMAIN inbox : inbox[k].run \in Runs,
         \A q \in Runs : forwarder[q] = "gone" => forwarder'[q] = "gone",
         \A q \in Runs : Coming(q) => ComingNext(q) \/ forwarder'[q] = "gone",
         testing' => \/ report' \in {"running", "dropped"}
                     \/ testing /\ ~(report \in {"running", "dropped"})
  PROVE  BusyInv'
<1>1. testing' => \/ report' \in {"running", "dropped"}
                  \/ \E r \in Runs : forwarder'[r] = "gone" \/ ComingNext(r)
                  \/ \E k \in DOMAIN inbox' : IsEnd(inbox'[k])
  BY DEF BusyInv
<1>2. \A k \in DOMAIN inbox' : inbox'[k].what = "Started" =>
        \/ forwarder'[inbox'[k].run] = "gone" \/ ComingNext(inbox'[k].run)
        \/ \E l \in DOMAIN inbox' : l > k /\ IsEnd(inbox'[l])
  BY DEF BusyInv
<1> QED  BY <1>1, <1>2 DEF BusyInv, Coming, ComingNext

LEMMA ComingSame ==
  ASSUME NEW q \in Runs, Same(q)
  PROVE  Coming(q) <=> ComingNext(q)
BY DEF Same, Coming, ComingNext

(* A run with a receiver that is not done, or has a filled channel, will   *)
(* have its end forwarded.                                                 *)
LEMMA ComingWhenLive ==
  ASSUME NEW q, NEW ph \in {"unused", "started", "running", "sending", "done"}, NEW td,
         NEW ch \in Seq(Updates), Pipe(q, ph, td, ch, "live"), ph # "done" \/ ch # <<>>
  PROVE  Expected(ph, ch, "live")
<1>1. CASE ph = "done"
  <2>1. ch # <<>> /\ Len(ch) \in DOMAIN ch
    BY <1>1, SeqDomain
  <2>2. IsEnd(ch[Len(ch)])
    BY <1>1, <2>1 DEF Pipe
  <2> QED  BY <2>1, <2>2 DEF Expected
<1>2. CASE ph # "done"
  BY <1>2 DEF Expected, Pipe
<1> QED  BY <1>1, <1>2

LEMMA BusyForward ==
  ASSUME Types, Pipes, BusyInv, Types', Pipes', NEW r \in Runs, Forward(r)
  PROVE  BusyInv'
<1> DEFINE u == Head(chan[r])
           n == Len(inbox) + 1
<1>1. /\ u = chan[r][1] /\ u \in Updates /\ u.run = r
      /\ chan[r] \in Seq(Updates) /\ chan[r] # <<>> /\ forwarder[r] = "live"
  BY ForwardedUpdate, ForwardFacts
<1>2. /\ chan'[r] = Tail(chan[r]) /\ inbox' = Append(inbox, u)
      /\ \A q \in Runs : q # r => chan'[q] = chan[q]
      /\ UNCHANGED <<phase, forwarder, testing, report>>
  BY ForwardFacts
<1> HIDE DEF u
<1>3. /\ \A k \in DOMAIN inbox : k < n /\ k \in Nat /\ k \in DOMAIN inbox' /\ inbox'[k] = inbox[k]
      /\ n \in DOMAIN inbox' /\ inbox'[n] = u
      /\ \A k \in DOMAIN inbox' : k \in DOMAIN inbox \/ k = n
      /\ n \in Nat
  BY <1>1, <1>2, AppendSeq DEF Types
<1> HIDE DEF n
<1>4. ASSUME NEW q \in Runs, Coming(q) PROVE ComingNext(q) \/ IsEnd(u)
  <2>1. CASE q # r
    BY <1>2, <1>4, <2>1 DEF Coming, ComingNext, Expected
  <2>2. CASE q = r /\ phase[r] \in {"started", "running", "sending"}
    BY <1>1, <1>2, <2>2 DEF ComingNext, Expected
  <2>3. CASE q = r /\ \E k \in DOMAIN chan[r] : IsEnd(chan[r][k])
    <3>1. PICK k \in DOMAIN chan[r] : IsEnd(chan[r][k])
      BY <2>3
    <3>2. CASE k = 1
      BY <1>1, <3>1, <3>2
    <3>3. CASE k # 1
      <4>1. k - 1 \in DOMAIN chan'[r] /\ chan'[r][k - 1] = chan[r][k]
        BY <1>1, <1>2, <3>3, TailSeq
      <4> QED  BY <1>1, <1>2, <2>3, <3>1, <4>1 DEF ComingNext, Expected
    <3> QED  BY <3>2, <3>3
  <2> QED  BY <1>4, <2>1, <2>2, <2>3 DEF Coming, Expected
<1>5. ASSUME u.what = "Started" PROVE ComingNext(r)
  <2>1. Expected(phase[r], chan[r], "live")
    <3>1. Pipe(r, phase[r], todo[r], chan[r], "live")
      BY <1>1 DEF Pipes
    <3> QED  BY <1>1, <3>1, ComingWhenLive DEF Types, TypeOK
  <2> QED  BY <1>1, <1>4, <1>5, <2>1 DEF Coming, IsEnd
<1>6. testing' => \/ report' \in {"running", "dropped"}
                  \/ \E q \in Runs : forwarder'[q] = "gone" \/ ComingNext(q)
                  \/ \E k \in DOMAIN inbox' : IsEnd(inbox'[k])
  BY <1>2, <1>3, <1>4 DEF BusyInv
<1>7. ASSUME NEW k \in DOMAIN inbox', inbox'[k].what = "Started"
      PROVE  \/ forwarder'[inbox'[k].run] = "gone" \/ ComingNext(inbox'[k].run)
             \/ \E l \in DOMAIN inbox' : l > k /\ IsEnd(inbox'[l])
  <2>1. CASE k \in DOMAIN inbox
    <3>1. inbox'[k] = inbox[k] /\ inbox[k].what = "Started" /\ k < n /\ inbox[k].run \in Runs
      BY <1>3, <1>7, <2>1, SeqDomain, UpdateShapes DEF Types
    <3>2. \/ forwarder[inbox[k].run] = "gone" \/ Coming(inbox[k].run)
          \/ \E l \in DOMAIN inbox : l > k /\ IsEnd(inbox[l])
      BY <2>1, <3>1 DEF BusyInv
    <3>3. n > k /\ n \in DOMAIN inbox' /\ inbox'[n] = u
      BY <1>3, <2>1, <3>1
    <3> QED  BY <1>2, <1>3, <1>4, <3>1, <3>2, <3>3
  <2>2. CASE k = n
    BY <1>1, <1>3, <1>5, <1>7, <2>2
  <2> QED  BY <1>3, <2>1, <2>2
<1> QED  BY <1>6, <1>7 DEF BusyInv, Coming, ComingNext

LEMMA BusyHandle ==
  ASSUME Types, BusyInv, Handle
  PROVE  BusyInv'
<1>1. /\ inbox # <<>> /\ inbox \in Seq(Updates) /\ inbox' = Tail(inbox) /\ inbox[1] \in Updates
      /\ UNCHANGED <<report, phase, chan, forwarder>>
  BY HandleFacts DEF Types
<1>2. /\ 1 \in DOMAIN inbox
      /\ \A k \in DOMAIN inbox' : k \in Nat \ {0} /\ k + 1 \in DOMAIN inbox /\ inbox'[k] = inbox[k + 1]
      /\ \A k \in DOMAIN inbox : k \in Nat /\ (k # 1 => k - 1 \in DOMAIN inbox' /\ inbox'[k - 1] = inbox[k])
  BY <1>1, TailSeq, SeqDomain
<1>3. \A q : ComingNext(q) <=> Coming(q)
  BY <1>1 DEF Coming, ComingNext
<1>4. \A k \in DOMAIN inbox : inbox[k].run \in Runs
  BY <1>1, SeqDomain, UpdateShapes
<1>5. ASSUME testing'
      PROVE  \/ report' \in {"running", "dropped"}
             \/ \E q \in Runs : forwarder'[q] = "gone" \/ ComingNext(q)
             \/ \E k \in DOMAIN inbox' : IsEnd(inbox'[k])
  <2>1. inbox[1].what \in {"Started", "Result"}
    BY <1>1, <1>5, HandleFacts, UpdateShapes
  <2>2. CASE inbox[1].what = "Started"
    <3>1. \/ forwarder[inbox[1].run] = "gone" \/ Coming(inbox[1].run)
          \/ \E l \in DOMAIN inbox : l > 1 /\ IsEnd(inbox[l])
      BY <1>2, <2>2 DEF BusyInv
    <3>2. inbox[1].run \in Runs /\ \A l \in DOMAIN inbox : l > 1 => l # 1
      BY <1>2, <1>4
    <3>3. (\E l \in DOMAIN inbox : l > 1 /\ IsEnd(inbox[l]))
            => \E k \in DOMAIN inbox' : IsEnd(inbox'[k])
      BY <1>2, <3>2
    <3> QED  BY <1>1, <1>3, <3>1, <3>2, <3>3
  <2>3. CASE inbox[1].what = "Result"
    <3>1. testing /\ ~IsEnd(inbox[1])
      BY <1>5, <2>3, HandleFacts DEF IsEnd
    <3> QED  BY <1>1, <1>2, <1>3, <3>1 DEF BusyInv
  <2> QED  BY <2>1, <2>2, <2>3
<1>6. ASSUME NEW k \in DOMAIN inbox', inbox'[k].what = "Started"
      PROVE  \/ forwarder'[inbox'[k].run] = "gone" \/ ComingNext(inbox'[k].run)
             \/ \E l \in DOMAIN inbox' : l > k /\ IsEnd(inbox'[l])
  <2>1. k + 1 \in DOMAIN inbox /\ inbox'[k] = inbox[k + 1] /\ k \in Nat \ {0}
    BY <1>2
  <2>2. \/ forwarder[inbox[k + 1].run] = "gone" \/ Coming(inbox[k + 1].run)
        \/ \E l \in DOMAIN inbox : l > k + 1 /\ IsEnd(inbox[l])
    BY <1>6, <2>1 DEF BusyInv
  <2>3. \A l \in DOMAIN inbox : l > k + 1 => l # 1 /\ l - 1 > k
    BY <1>2, <2>1
  <2> QED  BY <1>1, <1>2, <1>3, <2>1, <2>2, <2>3
<1> QED  BY <1>5, <1>6 DEF BusyInv, Coming, ComingNext

LEMMA BusyStep ==
  ASSUME Types, Pipes, BusyInv, Types', Pipes', [Next]_vars
  PROVE  BusyInv'
<1>1. \A k \in DOMAIN inbox : inbox[k].run \in Runs
  BY SeqDomain, UpdateShapes DEF Types
<1> DEFINE Kept(q) == /\ forwarder[q] = "gone" => forwarder'[q] = "gone"
                      /\ Coming(q) => ComingNext(q) \/ forwarder'[q] = "gone"
<1>2. \A q \in Runs : Same(q) => Kept(q)
  BY ComingSame DEF Same
<1>3. ASSUME \A q \in Runs : Kept(q), UNCHANGED inbox,
             testing' => \/ report' \in {"running", "dropped"}
                         \/ testing /\ ~(report \in {"running", "dropped"})
      PROVE  BusyInv'
  BY <1>1, <1>3, BusyKept
<1>4. UNCHANGED <<testing, report>> =>
        (testing' => \/ report' \in {"running", "dropped"}
                     \/ testing /\ ~(report \in {"running", "dropped"}))
  OBVIOUS
<1>5. ASSUME NEW r \in Runs, RunTests(r) \/ Generate(r) PROVE BusyInv'
  <2>1. Kept(r)
    <3>1. phase[r] = "unused" /\ Pipe(r, phase[r], todo[r], chan[r], forwarder[r])
      BY <1>5, StartFacts DEF Pipes
    <3>2. forwarder[r] = "none"
      BY <3>1 DEF Pipe
    <3> QED  BY <3>2 DEF Coming, Expected
  <2> QED  BY <1>2, <1>3, <1>4, <1>5, <2>1, StartFacts
<1>6. ASSUME NEW p \in Panels, SwitchPanel(p) PROVE BusyInv'
  <2>1. \A q \in Runs : Kept(q)
    BY <1>2, <1>6, LeaveFacts
  <2> QED  BY <1>3, <1>6, <2>1, LeaveFacts
<1>7. ASSUME NEW r \in Runs, SendStarted(r) PROVE BusyInv'
  <2>1. Kept(r)
    BY <1>7, StartedFacts DEF Coming, ComingNext, Expected
  <2> QED  BY <1>2, <1>3, <1>4, <1>7, <2>1, StartedFacts
<1>8. ASSUME NEW r \in Runs, NEW joined \in BOOLEAN, NEW order \in run_orders(r),
             TestsRan(r, joined, order)
      PROVE  BusyInv'
  <2>1. Kept(r)
    BY <1>8, RanFacts DEF Coming, ComingNext, Expected
  <2> QED  BY <1>2, <1>3, <1>4, <1>8, <2>1, RanFacts
<1>9. ASSUME NEW r \in Runs, SendNext(r) PROVE BusyInv'
  <2>1. ASSUME forwarder[r] = "live" PROVE ComingNext(r)
    <3>1. forwarder'[r] = "live" /\ chan'[r] # <<>>
      <4>1. chan'[r] = Append(chan[r], Head(todo[r])) /\ forwarder'[r] = "live"
        BY <1>9, <2>1, NextFacts
      <4> QED  BY <1>9, <4>1, NextFacts, QueueTypes, AppendSeq
    <3>2. /\ Pipe(r, phase'[r], todo'[r], chan'[r], "live")
          /\ phase'[r] \in {"unused", "started", "running", "sending", "done"}
          /\ chan'[r] \in Seq(Updates)
      BY <3>1 DEF Pipes, Types, TypeOK
    <3> QED  BY <3>1, <3>2, ComingWhenLive DEF ComingNext
  <2>2. Kept(r)
    BY <1>9, <2>1, NextFacts DEF Coming, Expected
  <2> QED  BY <1>2, <1>3, <1>4, <1>9, <2>2, NextFacts
<1>10. ASSUME NEW r \in Runs, GiveUp(r) PROVE BusyInv'
  <2>1. Kept(r)
    BY <1>10, GiveUpFacts
  <2> QED  BY <1>2, <1>3, <1>4, <1>10, <2>1, GiveUpFacts
<1>11. ASSUME NEW r \in Runs, ForwarderEnds(r) PROVE BusyInv'
  <2>1. Kept(r)
    BY <1>11, EndsFacts DEF Coming, Expected
  <2> QED  BY <1>2, <1>3, <1>4, <1>11, <2>1, EndsFacts
<1>12. ASSUME StopFuzzing \/ StopTests \/ GenerateReport \/ ReportGenerated \/ ClearResults
                \/ UNCHANGED vars
       PROVE  BusyInv'
  <2>1. UNCHANGED <<kind, phase, todo, chan, forwarder>>
    BY <1>12, QuietFacts DEF QuietStep
  <2>2. \A q \in Runs : Kept(q)
    BY <1>2, <2>1 DEF Same
  <2>3. /\ UNCHANGED inbox
        /\ testing' => \/ report' \in {"running", "dropped"}
                       \/ testing /\ ~(report \in {"running", "dropped"})
    BY <1>12 DEF StopFuzzing, StopTests, GenerateReport, ReportGenerated, ClearResults, screen, vars
  <2> QED  BY <1>3, <2>2, <2>3
<1> QED  BY <1>5, <1>6, <1>7, <1>8, <1>9, <1>10, <1>11, <1>12, BusyForward, BusyHandle
            DEF Next, User, Task, Forwarding

-----------------------------------------------------------------------------
(* The history.                                                            *)

(* Queues that move on by one update.                                      *)
LEMMA CarriesAppend ==
  ASSUME NEW q \in Seq(Updates), NEW u \in Updates, NEW r, NEW t
  PROVE  /\ Carries(q, r, t) => /\ Carries(Append(q, u), r, t)
                                /\ Ahead(Append(q, u), Len(q) + 1, r, t)
         /\ ResultOf(u, r, t) => Carries(Append(q, u), r, t)
         /\ \A k \in DOMAIN q : Ahead(q, k, r, t) => Ahead(Append(q, u), k, r, t)
BY AppendSeq DEF Carries, Ahead

LEMMA CarriesTail ==
  ASSUME NEW q \in Seq(Updates), q # <<>>, NEW r, NEW t
  PROVE  /\ Carries(q, r, t) => ResultOf(q[1], r, t) \/ Carries(Tail(q), r, t)
         /\ \A k \in DOMAIN Tail(q) :
              Ahead(q, k + 1, r, t) => ResultOf(q[1], r, t) \/ Ahead(Tail(q), k, r, t)
         /\ ~Ahead(q, 1, r, t)
<1>1. /\ \A k \in DOMAIN Tail(q) : k \in Nat \ {0}
      /\ \A k \in DOMAIN q : k \in Nat /\ k # 0
      /\ \A k \in DOMAIN q : k # 1 => k - 1 \in DOMAIN Tail(q) /\ Tail(q)[k - 1] = q[k]
  BY TailSeq, SeqDomain
<1>2. Carries(q, r, t) => ResultOf(q[1], r, t) \/ Carries(Tail(q), r, t)
  BY <1>1 DEF Carries
<1>3. ASSUME NEW k \in DOMAIN Tail(q), Ahead(q, k + 1, r, t), ~ResultOf(q[1], r, t)
      PROVE  Ahead(Tail(q), k, r, t)
  <2>1. PICK l \in DOMAIN q : l < k + 1 /\ ResultOf(q[l], r, t)
    BY <1>3 DEF Ahead
  <2>2. l # 1
    BY <1>3, <2>1
  <2>3. l - 1 \in DOMAIN Tail(q) /\ Tail(q)[l - 1] = q[l] /\ l - 1 < k
    BY <1>1, <2>1, <2>2
  <2> QED  BY <2>1, <2>3 DEF Ahead
<1>4. ~Ahead(q, 1, r, t)
  BY <1>1 DEF Ahead
<1> QED  BY <1>2, <1>3, <1>4

(* A result is never lost once its update has been forwarded.              *)
LEMMA GotKept ==
  ASSUME Types, [Next]_vars, NEW r \in Runs, NEW t
  PROVE  /\ Has(r, t) => Has(r, t)'
         /\ Got(r, t) => Got(r, t)'
<1>1. CASE Elsewhere
  BY <1>1 DEF Elsewhere, Got, Has, Carries
<1>2. ASSUME NEW q \in Runs, Forward(q)
      PROVE  (Has(r, t) => Has(r, t)') /\ (Got(r, t) => Got(r, t)')
  <2>1. /\ inbox' = Append(inbox, Head(chan[q])) /\ Head(chan[q]) \in Updates
        /\ UNCHANGED <<results, cleared>> /\ inbox \in Seq(Updates)
    BY <1>2, ForwardFacts DEF Types
  <2>2. Carries(inbox, r, t) => Carries(inbox', r, t)
    BY <2>1, CarriesAppend
  <2> QED  BY <2>1, <2>2 DEF Got, Has, Carries
<1>3. CASE Handle
  <2>1. /\ inbox # <<>> /\ inbox' = Tail(inbox) /\ inbox \in Seq(Updates) /\ UNCHANGED cleared
        /\ inbox[1].what \in {"Started", "Completed", "Failed", "Result"}
    BY <1>3, HandleFacts, UpdateShapes DEF Types
  <2>2. results \subseteq results' /\ (inbox[1].what = "Result" => inbox[1].result \in results')
    BY <1>3, <2>1, HandleFacts
  <2>3. Has(r, t) => Has(r, t)'
    BY <2>1, <2>2 DEF Has
  <2>4. ResultOf(inbox[1], r, t) => Has(r, t)'
    BY <2>1, <2>2 DEF Has, ResultOf
  <2>5. Carries(inbox, r, t) => ResultOf(inbox[1], r, t) \/ Carries(inbox', r, t)
    BY <2>1, CarriesTail
  <2> QED  BY <2>3, <2>4, <2>5 DEF Got, Carries
<1> QED  BY <1>1, <1>2, <1>3, StepKinds

LEMMA RecordedStep ==
  ASSUME Types, Known, Recorded, Arriving, [Next]_vars
  PROVE  Recorded'
<1>1. \A i \in DOMAIN history : /\ history[i] \in [run : Runs, results : SUBSET Result]
                                /\ history[i].run \in Runs
  <2>1. \A i \in DOMAIN history : history[i] \in [run : Runs, results : SUBSET Result]
    BY SeqDomain DEF Types
  <2> QED  BY <2>1
<1>2. \A i \in DOMAIN history : tests_of(history[i].run) = {t \in DOMAIN Tests :
        Tests[t].category \in kind'[history[i].run].categories}
  BY <1>1, KindKept DEF Known, tests_of
<1> DEFINE Told(e) == \A t \in DOMAIN Tests :
                        Tests[t].category \in kind'[e.run].categories =>
                          \E x \in e.results \cup cleared' : x.run = e.run /\ x.test = t
<1>3. ASSUME cleared \subseteq cleared' PROVE \A i \in DOMAIN history : Told(history[i])
  BY <1>2, <1>3 DEF Recorded
<1>4. (\A i \in DOMAIN history' : Told(history'[i])) => Recorded'
  BY DEF Recorded, tests_of
<1>5. CASE Elsewhere
  BY <1>3, <1>4, <1>5 DEF Elsewhere
<1>6. ASSUME NEW r \in Runs, Forward(r) PROVE Recorded'
  BY <1>3, <1>4, <1>6, ForwardFacts
<1>7. CASE Handle
  <2>1. /\ inbox # <<>> /\ inbox \in Seq(Updates) /\ UNCHANGED <<cleared, kind>>
        /\ inbox[1] \in Updates /\ inbox[1].run \in Runs
        /\ inbox[1].what \in {"Started", "Completed", "Failed", "Result"}
    BY <1>7, HandleFacts, UpdateShapes DEF Types
  <2>2. CASE history' = history
    BY <1>3, <1>4, <2>1, <2>2
  <2>3. CASE inbox[1].what = "Completed"
    <3> DEFINE e == [run |-> inbox[1].run, results |-> results]
    <3>1. history' = save_to_history(inbox[1].run)
      BY <1>7, <2>3, HandleFacts
    <3>2. \A i \in DOMAIN history' : \/ history'[i] = e
                                     \/ \E j \in DOMAIN history : history'[i] = history[j]
      BY <2>1, <3>1, HistoryPushed
    <3>3. \A t \in tests_of(inbox[1].run) : Has(inbox[1].run, t)
      <4>1. 1 \in DOMAIN inbox
        BY <2>1, TailSeq
      <4> QED  BY <2>1, <2>3, <4>1, CarriesTail DEF Arriving
    <3>4. Told(e)
      <4>1. e.run = inbox[1].run /\ e.results = results /\ cleared' = cleared /\ kind' = kind
        BY <2>1
      <4> HIDE DEF e
      <4> QED  BY <3>3, <4>1 DEF tests_of, Has
    <3>5. \A j \in DOMAIN history : Told(history[j])
      BY <1>3, <2>1
    <3> HIDE DEF Told, e
    <3>6. \A i \in DOMAIN history' : Told(history'[i])
      BY <3>2, <3>4, <3>5
    <3> QED  BY <1>4, <3>6
  <2>4. inbox[1].what # "Completed" => history' = history
    BY <1>7, <2>1, HandleFacts
  <2> QED  BY <2>2, <2>3, <2>4
<1> QED  BY <1>5, <1>6, <1>7, StepKinds

TestsNext(r) == {t \in DOMAIN Tests : Tests[t].category \in kind'[r].categories}

HasNext(r, t) == \E x \in results' \cup cleared' : x.run = r /\ x.test = t

GotNext(r, t) == HasNext(r, t) \/ Carries(inbox', r, t)

LEMMA NextKept ==
  ASSUME Types, [Next]_vars, NEW r \in Runs
  PROVE  /\ \A t : (Has(r, t) => HasNext(r, t)) /\ (Got(r, t) => GotNext(r, t))
         /\ phase[r] # "unused" => TestsNext(r) = tests_of(r)
<1>1. ASSUME NEW t PROVE (Has(r, t) => HasNext(r, t)) /\ (Got(r, t) => GotNext(r, t))
  BY GotKept DEF Has, HasNext, Got, GotNext, Carries
<1>2. phase[r] # "unused" => TestsNext(r) = tests_of(r)
  BY KindKept DEF TestsNext, tests_of
<1> QED  BY <1>1, <1>2

LEMMA ArrivingStep ==
  ASSUME Types, Pipes, Known, Arriving, \A r \in Runs : OnTheWay(r), [Next]_vars
  PROVE  Arriving'
<1> DEFINE Told(r, q, k) == \A t \in TestsNext(r) : HasNext(r, t) \/ Ahead(q, k, r, t)
<1>1. \A k \in DOMAIN inbox : inbox[k].run \in Runs /\ phase[inbox[k].run] # "unused"
  BY SeqDomain, UpdateShapes DEF Types, Known
<1>2. \A k \in DOMAIN inbox : inbox[k].what = "Completed" => Told(inbox[k].run, inbox, k)
  BY <1>1, NextKept DEF Arriving
<1>3. ASSUME \A k \in DOMAIN inbox' : inbox'[k].what = "Completed" => Told(inbox'[k].run, inbox', k)
      PROVE  Arriving'
  BY <1>3 DEF Arriving, TestsNext, tests_of, HasNext, Has, Ahead
<1>4. CASE Elsewhere
  BY <1>2, <1>3, <1>4 DEF Elsewhere
<1>5. ASSUME NEW r \in Runs, Forward(r) PROVE Arriving'
  <2> DEFINE u == Head(chan[r])
             n == Len(inbox) + 1
  <2>1. /\ u = chan[r][1] /\ u \in Updates /\ u.run = r /\ phase[r] # "unused"
        /\ chan[r] \in Seq(Updates) /\ chan[r] # <<>> /\ 1 \in DOMAIN chan[r]
        /\ inbox' = Append(inbox, u) /\ inbox \in Seq(Updates)
    BY <1>5, ForwardedUpdate, ForwardFacts, SeqDomain DEF Types
  <2> HIDE DEF u
  <2>2. /\ \A k \in DOMAIN inbox : inbox'[k] = inbox[k]
        /\ inbox'[n] = u
        /\ \A k \in DOMAIN inbox' : k \in DOMAIN inbox \/ k = n
    BY <2>1, AppendSeq
  <2>3. /\ \A k \in DOMAIN inbox : \A q, t : Ahead(inbox, k, q, t) => Ahead(inbox', k, q, t)
        /\ \A t : Carries(inbox, r, t) => Ahead(inbox', n, r, t)
    BY <2>1, CarriesAppend
  <2> HIDE DEF n
  <2>4. ASSUME NEW k \in DOMAIN inbox, inbox'[k].what = "Completed"
        PROVE  Told(inbox'[k].run, inbox', k)
    BY <1>2, <2>2, <2>3, <2>4
  <2>5. ASSUME u.what = "Completed" PROVE Told(r, inbox', n)
    <3>1. \A t \in tests_of(r) : Got(r, t)
      BY <2>1, <2>5, CarriesTail DEF OnTheWay
    <3>2. \A t \in tests_of(r) : HasNext(r, t) \/ Ahead(inbox', n, r, t)
      BY <1>5, <2>3, <3>1, NextKept DEF Got
    <3> QED  BY <2>1, <3>2, NextKept
  <2> HIDE DEF Told
  <2>6. \A k \in DOMAIN inbox' : inbox'[k].what = "Completed" => Told(inbox'[k].run, inbox', k)
    BY <2>1, <2>2, <2>4, <2>5
  <2> QED  BY <1>3, <2>6
<1>6. CASE Handle
  <2>1. /\ inbox # <<>> /\ inbox' = Tail(inbox) /\ inbox \in Seq(Updates) /\ UNCHANGED cleared
        /\ inbox[1].what = "Result" => inbox[1].result \in results'
    BY <1>6, HandleFacts DEF Types
  <2>2. \A r, t : ResultOf(inbox[1], r, t) => HasNext(r, t)
    BY <2>1 DEF ResultOf, HasNext
  <2>3. ASSUME NEW k \in DOMAIN inbox', inbox'[k].what = "Completed"
        PROVE  Told(inbox'[k].run, inbox', k)
    <3>1. k + 1 \in DOMAIN inbox /\ inbox'[k] = inbox[k + 1]
      BY <2>1, TailSeq
    <3>2. Told(inbox[k + 1].run, inbox, k + 1)
      BY <1>2, <2>3, <3>1
    <3>3. \A r, t : Ahead(inbox, k + 1, r, t) => ResultOf(inbox[1], r, t) \/ Ahead(inbox', k, r, t)
      BY <2>1, CarriesTail
    <3> QED  BY <2>2, <3>1, <3>2, <3>3
  <2> HIDE DEF Told
  <2> QED  BY <1>3, <2>3
<1> QED  BY <1>4, <1>5, <1>6, StepKinds

(* The two parts of OnTheWay, after a step.                                *)
ChanNext(r) ==
  \A k \in DOMAIN chan'[r] : chan'[r][k].what = "Completed" =>
    \A t \in TestsNext(r) : GotNext(r, t) \/ Ahead(chan'[r], k, r, t)

TodoNext(r) ==
  forwarder'[r] = "live" =>
    \A k \in DOMAIN todo'[r] : todo'[r][k].what = "Completed" =>
      \A t \in TestsNext(r) : GotNext(r, t) \/ Carries(chan'[r], r, t) \/ Ahead(todo'[r], k, r, t)

LEMMA OnTheWayNext ==
  ASSUME NEW r \in Runs, ChanNext(r), TodoNext(r)
  PROVE  OnTheWay(r)'
<1>1. \A k \in DOMAIN chan'[r] : chan'[r][k].what = "Completed" =>
        \A t \in tests_of(r)' : Got(r, t)' \/ Ahead(chan'[r], k, r, t)
  BY DEF ChanNext, TestsNext, tests_of, GotNext, Got, HasNext, Has, Carries
<1>2. forwarder'[r] = "live" =>
        \A k \in DOMAIN todo'[r] : todo'[r][k].what = "Completed" =>
          \A t \in tests_of(r)' :
            Got(r, t)' \/ Carries(chan'[r], r, t) \/ Ahead(todo'[r], k, r, t)
  BY DEF TodoNext, TestsNext, tests_of, GotNext, Got, HasNext, Has, Carries
<1> QED  BY <1>1, <1>2 DEF OnTheWay, Ahead, Carries

LEMMA EmptyQueues ==
  ASSUME NEW r \in Runs
  PROVE  /\ chan'[r] = <<>> => ChanNext(r)
         /\ todo'[r] = <<>> \/ forwarder'[r] # "live" => TodoNext(r)
BY DEF ChanNext, TodoNext

(* A channel or a list of updates to send that the step leaves alone.      *)
LEMMA SameQueues ==
  ASSUME Types, Pipes, [Next]_vars, NEW r \in Runs, OnTheWay(r)
  PROVE  /\ chan'[r] = chan[r] => ChanNext(r)
         /\ Same(r) => TodoNext(r)
<1>1. CASE phase[r] = "unused"
  <2>1. Pipe(r, "unused", todo[r], chan[r], forwarder[r])
    BY <1>1 DEF Pipes
  <2>2. chan[r] = <<>> /\ todo[r] = <<>>
    BY <2>1 DEF Pipe
  <2> QED  BY <2>2, EmptyQueues DEF Same
<1>2. CASE phase[r] # "unused"
  BY <1>2, NextKept DEF OnTheWay, ChanNext, TodoNext, Same
<1> QED  BY <1>1, <1>2

LEMMA SendOnTheWay ==
  ASSUME Types, Pipes, NEW r \in Runs, SendNext(r), OnTheWay(r)
  PROVE  ChanNext(r) /\ TodoNext(r)
<1> DEFINE u == Head(todo[r])
<1>1. /\ phase[r] = "sending" /\ todo[r] # <<>> /\ u \in Updates
      /\ todo'[r] = Tail(todo[r]) /\ forwarder'[r] = forwarder[r]
      /\ chan'[r] = IF forwarder[r] = "live" THEN Append(chan[r], u) ELSE chan[r]
  BY NextFacts
<1>2. todo[r] \in Seq(Updates) /\ chan[r] \in Seq(Updates)
  BY QueueTypes
<1>3. 1 \in DOMAIN todo[r] /\ u = todo[r][1]
  BY <1>1, <1>2, TailSeq
<1>4. [Next]_vars
  BY DEF Next, Task
<1>5. /\ \A t : Got(r, t) => GotNext(r, t)
      /\ TestsNext(r) = tests_of(r)
  BY <1>1, <1>4, NextKept
<1> HIDE DEF u
<1>6. CASE forwarder[r] # "live"
  <2>1. Pipe(r, phase[r], todo[r], chan[r], forwarder[r])
    BY DEF Pipes
  <2>2. chan'[r] = <<>>
    BY <1>1, <1>6, <2>1 DEF Pipe
  <2> QED  BY <1>1, <1>6, <2>2, EmptyQueues
<1>7. CASE forwarder[r] = "live"
  <2> DEFINE n == Len(chan[r]) + 1
  <2>1. chan'[r] = Append(chan[r], u)
    BY <1>1, <1>7
  <2>2. /\ \A k \in DOMAIN chan[r] : chan'[r][k] = chan[r][k]
        /\ chan'[r][n] = u
        /\ \A k \in DOMAIN chan'[r] : k \in DOMAIN chan[r] \/ k = n
    BY <1>1, <1>2, <2>1, AppendSeq
  <2>3. \A t : /\ Carries(chan[r], r, t) => Carries(chan'[r], r, t) /\ Ahead(chan'[r], n, r, t)
               /\ ResultOf(u, r, t) => Carries(chan'[r], r, t)
               /\ \A k \in DOMAIN chan[r] : Ahead(chan[r], k, r, t) => Ahead(chan'[r], k, r, t)
    BY <1>1, <1>2, <2>1, CarriesAppend
  <2> HIDE DEF n
  <2>4. \A t : /\ ~Ahead(todo[r], 1, r, t)
               /\ \A k \in DOMAIN todo'[r] :
                    Ahead(todo[r], k + 1, r, t) => ResultOf(u, r, t) \/ Ahead(todo'[r], k, r, t)
    <3>1. \A t : /\ ~Ahead(todo[r], 1, r, t)
                 /\ \A k \in DOMAIN Tail(todo[r]) : Ahead(todo[r], k + 1, r, t) =>
                      ResultOf(todo[r][1], r, t) \/ Ahead(Tail(todo[r]), k, r, t)
      BY <1>1, <1>2, CarriesTail, ZenonT(30)
    <3> QED  BY <1>1, <1>3, <3>1
  <2>5. u.what = "Completed" => \A t \in tests_of(r) : Got(r, t) \/ Carries(chan[r], r, t)
    BY <1>3, <1>7, <2>4 DEF OnTheWay
  <2>6. ASSUME NEW k \in DOMAIN chan'[r], chan'[r][k].what = "Completed", NEW t \in tests_of(r)
        PROVE  GotNext(r, t) \/ Ahead(chan'[r], k, r, t)
    <3>1. CASE k \in DOMAIN chan[r]
      BY <1>5, <2>2, <2>3, <2>6, <3>1 DEF OnTheWay
    <3>2. CASE k = n
      BY <1>5, <2>2, <2>3, <2>5, <2>6, <3>2
    <3> QED  BY <2>2, <3>1, <3>2
  <2>7. ASSUME NEW k \in DOMAIN todo'[r], todo'[r][k].what = "Completed", NEW t \in tests_of(r)
        PROVE  GotNext(r, t) \/ Carries(chan'[r], r, t) \/ Ahead(todo'[r], k, r, t)
    <3>1. k + 1 \in DOMAIN todo[r] /\ todo'[r][k] = todo[r][k + 1]
      BY <1>1, <1>2, TailSeq
    <3>2. Got(r, t) \/ Carries(chan[r], r, t) \/ Ahead(todo[r], k + 1, r, t)
      BY <1>7, <2>7, <3>1 DEF OnTheWay
    <3> QED  BY <1>5, <2>3, <2>4, <3>2
  <2>8. ChanNext(r)
    BY <1>5, <2>6 DEF ChanNext
  <2>9. TodoNext(r)
    BY <1>5, <2>7 DEF TodoNext
  <2> QED  BY <2>8, <2>9
<1> QED  BY <1>6, <1>7

LEMMA ForwardOnTheWay ==
  ASSUME Types, Pipes, NEW r \in Runs, Forward(r), OnTheWay(r)
  PROVE  ChanNext(r) /\ TodoNext(r)
<1> DEFINE u == Head(chan[r])
<1>1. /\ u = chan[r][1] /\ u \in Updates /\ u.run = r /\ phase[r] # "unused"
      /\ chan[r] \in Seq(Updates) /\ chan[r] # <<>> /\ inbox \in Seq(Updates)
      /\ inbox' = Append(inbox, u) /\ chan'[r] = Tail(chan[r])
      /\ UNCHANGED <<todo, forwarder>>
  BY ForwardedUpdate, ForwardFacts DEF Types
<1>2. [Next]_vars
  BY DEF Next, Forwarding
<1>3. /\ \A t : Got(r, t) => GotNext(r, t)
      /\ TestsNext(r) = tests_of(r)
  BY <1>1, <1>2, NextKept
<1> HIDE DEF u
<1>4. \A t : ResultOf(u, r, t) => GotNext(r, t)
  BY <1>1, CarriesAppend DEF GotNext
<1>5. \A t : /\ Carries(chan[r], r, t) => ResultOf(u, r, t) \/ Carries(chan'[r], r, t)
             /\ \A k \in DOMAIN chan'[r] :
                  Ahead(chan[r], k + 1, r, t) => ResultOf(u, r, t) \/ Ahead(chan'[r], k, r, t)
  BY <1>1, CarriesTail
<1>6. ASSUME NEW k \in DOMAIN chan'[r], chan'[r][k].what = "Completed", NEW t \in tests_of(r)
      PROVE  GotNext(r, t) \/ Ahead(chan'[r], k, r, t)
  <2>1. k + 1 \in DOMAIN chan[r] /\ chan'[r][k] = chan[r][k + 1]
    BY <1>1, TailSeq
  <2>2. Got(r, t) \/ Ahead(chan[r], k + 1, r, t)
    BY <1>6, <2>1 DEF OnTheWay
  <2> QED  BY <1>3, <1>4, <1>5, <2>2
<1>7. ASSUME forwarder'[r] = "live", NEW k \in DOMAIN todo'[r], todo'[r][k].what = "Completed",
             NEW t \in tests_of(r)
      PROVE  GotNext(r, t) \/ Carries(chan'[r], r, t) \/ Ahead(todo'[r], k, r, t)
  <2>1. Got(r, t) \/ Carries(chan[r], r, t) \/ Ahead(todo[r], k, r, t)
    BY <1>1, <1>7 DEF OnTheWay
  <2> QED  BY <1>1, <1>3, <1>4, <1>5, <2>1
<1>8. ChanNext(r)
  BY <1>3, <1>6 DEF ChanNext
<1>9. TodoNext(r)
  BY <1>3, <1>7 DEF TodoNext
<1> QED  BY <1>8, <1>9

LEMMA OnTheWayStep ==
  ASSUME Types, Pipes, \A r \in Runs : OnTheWay(r), [Next]_vars
  PROVE  \A r \in Runs : OnTheWay(r)'
<1> SUFFICES ASSUME NEW q \in Runs PROVE ChanNext(q) /\ TodoNext(q)
  BY OnTheWayNext
<1> DEFINE G == ChanNext(q) /\ TodoNext(q)
<1>1. Same(q) => G
  BY SameQueues DEF Same
<1>2. chan'[q] = chan[q] => ChanNext(q)
  BY SameQueues
<1>3. Pipe(q, phase[q], todo[q], chan[q], forwarder[q])
  BY DEF Pipes
<1>4. ASSUME NEW r \in Runs, RunTests(r) \/ Generate(r) PROVE G
  <2>1. CASE q = r
    <3>1. phase[q] = "unused" /\ todo'[q] = todo[q] /\ chan'[q] = chan[q]
      BY <1>4, <2>1, StartFacts
    <3>2. todo'[q] = <<>>
      BY <1>3, <3>1 DEF Pipe
    <3> QED  BY <1>2, <3>1, <3>2, EmptyQueues
  <2>2. CASE q # r
    BY <1>1, <1>4, <2>2, StartFacts
  <2> QED  BY <2>1, <2>2
<1>5. ASSUME NEW p \in Panels, SwitchPanel(p) PROVE G
  <2>1. Same(q) \/ (forwarder'[q] = "gone" /\ chan'[q] = <<>>)
    BY <1>5, LeaveFacts
  <2> QED  BY <1>1, <2>1, EmptyQueues
<1>6. ASSUME NEW r \in Runs, SendStarted(r) PROVE G
  <2>1. CASE q = r
    <3> DEFINE u == Update(q, "Started")
    <3>1. /\ phase[q] = "started" /\ todo'[q] = todo[q] /\ todo[q] = <<>>
          /\ chan'[q] = IF forwarder[q] = "live" THEN Append(chan[q], u) ELSE chan[q]
      BY <1>3, <1>6, <2>1, StartedFacts DEF Pipe
    <3>2. u \in Updates /\ u.what = "Started" /\ chan[q] \in Seq(Updates)
      BY UpdateShapes, QueueTypes
    <3> HIDE DEF u
    <3>3. CASE chan'[q] = Append(chan[q], u)
      <4>1. /\ \A k \in DOMAIN chan[q] : chan'[q][k] = chan[q][k]
            /\ chan'[q][Len(chan[q]) + 1] = u
            /\ \A k \in DOMAIN chan'[q] : k \in DOMAIN chan[q] \/ k = Len(chan[q]) + 1
        BY <3>2, <3>3, AppendSeq
      <4>2. \A k \in DOMAIN chan[q] : ~IsEnd(chan[q][k])
        BY <1>3, <3>1 DEF Pipe
      <4>3. \A k \in DOMAIN chan'[q] : chan'[q][k].what # "Completed"
        BY <3>2, <4>1, <4>2 DEF IsEnd
      <4> QED  BY <3>1, <4>3, EmptyQueues DEF ChanNext
    <3> QED  BY <1>2, <3>1, <3>3, EmptyQueues
  <2>2. CASE q # r
    BY <1>1, <1>6, <2>2, StartedFacts
  <2> QED  BY <2>1, <2>2
<1>7. ASSUME NEW r \in Runs, NEW joined \in BOOLEAN, NEW order \in run_orders(r),
             TestsRan(r, joined, order)
      PROVE  G
  <2>1. CASE q = r
    <3>1. /\ phase[q] = "running" /\ chan'[q] = chan[q]
          /\ todo'[q] = updates_of(q, joined, order)
      BY <1>7, <2>1, RanFacts
    <3>2. \A k \in DOMAIN todo'[q] : todo'[q][k].what = "Completed" =>
            \A t \in tests_of(q) : Ahead(todo'[q], k, q, t)
      BY <2>1, <3>1, UpdatesOf
    <3>3. TestsNext(q) = tests_of(q)
      BY <3>1, NextKept
    <3>4. TodoNext(q)
      BY <3>2, <3>3 DEF TodoNext
    <3> QED  BY <1>2, <3>1, <3>4
  <2>2. CASE q # r
    BY <1>1, <1>7, <2>2, RanFacts
  <2> QED  BY <2>1, <2>2
<1>8. ASSUME NEW r \in Runs, SendNext(r) PROVE G
  <2>1. CASE q = r
    BY <1>8, <2>1, SendOnTheWay
  <2>2. CASE q # r
    BY <1>1, <1>8, <2>2, NextFacts
  <2> QED  BY <2>1, <2>2
<1>9. ASSUME NEW r \in Runs, Forward(r) PROVE G
  <2>1. CASE q = r
    BY <1>9, <2>1, ForwardOnTheWay
  <2>2. CASE q # r
    BY <1>1, <1>9, <2>2, ForwardFacts DEF Same
  <2> QED  BY <2>1, <2>2
<1>10. ASSUME NEW r \in Runs, GiveUp(r) PROVE G
  <2>1. CASE q = r
    BY <1>10, <2>1, GiveUpFacts, EmptyQueues
  <2>2. CASE q # r
    BY <1>1, <1>10, <2>2, GiveUpFacts
  <2> QED  BY <2>1, <2>2
<1>11. ASSUME NEW r \in Runs, ForwarderEnds(r) PROVE G
  <2>1. CASE q = r
    BY <1>2, <1>11, <2>1, EndsFacts, EmptyQueues
  <2>2. CASE q # r
    BY <1>1, <1>11, <2>2, EndsFacts
  <2> QED  BY <2>1, <2>2
<1>12. ASSUME QuietStep PROVE G
  BY <1>1, <1>12, QuietFacts DEF Same
<1> QED  BY <1>4, <1>5, <1>6, <1>7, <1>8, <1>9, <1>10, <1>11, <1>12
            DEF Next, User, Task, Forwarding, QuietStep

-----------------------------------------------------------------------------
(* The theorems.                                                           *)

LEMMA InitInv ==
  ASSUME Init
  PROVE  DesktopInv
<1>1. Types
  <2>1. /\ todo \in [Runs -> Seq(Updates)] /\ chan \in [Runs -> Seq(Updates)]
        /\ inbox \in Seq(Updates) /\ history \in Seq([run : Runs, results : SUBSET Result])
    BY DEF Init
  <2>2. /\ \A r \in Runs : Len(chan[r]) <= ChannelSize
        /\ Len(history) <= MaxHistory
    BY DesktopAssumption DEF Init
  <2>3. panel \in Panels /\ window \in {"main", "detached"} /\ report \in {"idle", "running", "dropped"}
    BY DEF Init
  <2>4. /\ kind \in [Runs -> Kinds]
        /\ phase \in [Runs -> {"unused", "started", "running", "sending", "done"}]
        /\ forwarder \in [Runs -> {"none", "live", "ended", "gone"}]
    BY DEF Init, Kinds
  <2>5. {testing, generating, cancelled} \subseteq BOOLEAN /\ results = {} /\ cleared = {}
    BY DEF Init
  <2> QED  BY <2>1, <2>2, <2>3, <2>4, <2>5 DEF Types, TypeOK
<1>2. Pipes
  BY DEF Init, Pipes, Pipe
<1>3. Known /\ BusyInv
  BY DEF Init, Known, BusyInv
<1>4. HistoryInv
  BY DEF Init, HistoryInv, Recorded, Arriving, OnTheWay
<1> QED  BY <1>1, <1>2, <1>3, <1>4 DEF DesktopInv

LEMMA Invariant == Spec => []DesktopInv
<1>1. ASSUME DesktopInv, [Next]_vars PROVE DesktopInv'
  <2>1. Types' /\ Pipes'
    BY <1>1, TypeStep, PipesStep DEF DesktopInv
  <2>2. Known'
    BY <1>1, KnownStep DEF DesktopInv
  <2>3. BusyInv'
    BY <1>1, <2>1, BusyStep DEF DesktopInv
  <2>4. Recorded' /\ Arriving'
    BY <1>1, RecordedStep, ArrivingStep DEF DesktopInv, HistoryInv
  <2>5. \A r \in Runs : OnTheWay(r)'
    BY <1>1, OnTheWayStep DEF DesktopInv, HistoryInv
  <2>6. HistoryInv'
    BY <2>4, <2>5 DEF HistoryInv
  <2> QED  BY <2>1, <2>2, <2>3, <2>6 DEF DesktopInv
<1> QED  BY <1>1, InitInv, PTL DEF Spec

(* Every reachable state is well formed, and no channel of a run and no    *)
(* history ever holds more than its capacity.                              *)
THEOREM TypeCorrect == Spec => []TypeOK
<1>1. DesktopInv => TypeOK
  BY DEF DesktopInv, Types
<1> QED  BY <1>1, Invariant, PTL

(* An entry of the history holds every result of its run that the user had *)
(* not cleared, for every set of tests, every order the categories come in *)
(* and every channel capacity: the results overtake nothing and nothing    *)
(* overtakes them.                                                         *)
THEOREM HistoryKept == Spec => []HistoryHoldsItsRun
<1>1. DesktopInv => HistoryHoldsItsRun
  BY DEF DesktopInv, HistoryInv, Recorded, HistoryHoldsItsRun, tests_of
<1> QED  BY <1>1, Invariant, PTL

(* The buttons stay disabled with nothing left to enable them only after   *)
(* a panel was left, or fuzzing stopped, in the middle of a run.           *)
THEOREM BusyExplained == Spec => []BusyOnlyForLostUpdates
<1>1. ASSUME DesktopInv PROVE BusyOnlyForLostUpdates
  <2>1. BusyInv /\ report \in {"idle", "running", "dropped"}
    BY <1>1 DEF DesktopInv, Types, TypeOK
  <2>2. \A r \in Runs : Coming(r) => forwarder[r] = "live"
    BY DEF Coming, Expected
  <2>3. inbox = <<>> => ~\E k \in DOMAIN inbox : IsEnd(inbox[k])
    OBVIOUS
  <2> QED  BY <2>1, <2>2, <2>3 DEF BusyInv, BusyOnlyForLostUpdates, InFlight
<1> QED  BY <1>1, Invariant, PTL

=============================================================================

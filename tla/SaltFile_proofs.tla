--------------------------- MODULE SaltFile_proofs --------------------------
(***************************************************************************)
(* Proofs about SaltFile, for every set of threads and every assignment of *)
(* threads to processes, which may all be alive at once.                   *)
(***************************************************************************)
EXTENDS SaltFile, TLAPS

(* Between taking SALT_LOCK and returning.                                 *)
Inside(t) == pc[t] \in {"read", "create", "write", "overwrite", "reread", "truncate"}

(* A thread inside the call holds the lock of its process.                 *)
HoldsLock == \A t \in Threads : Inside(t) => lock[Process[t]] = t

(* Without a race, one thread of all processes writes, and what it is      *)
(* about to write replaces no salt.                                        *)
OneWriter ==
  ~raced => \A t, u \in Threads : Writing(t) /\ Writing(u) => t = u

WritesEmptyFile == ~raced => \A t \in Threads : Writing(t) => file = "empty"

SaltInv == TypeOK /\ HoldsLock /\ OneWriter /\ WritesEmptyFile /\ SaltIsForever

-----------------------------------------------------------------------------
LEMMA ProcessOfThread == \A t \in Threads : Process[t] \in Processes
BY DEF Processes

LEMMA InitSaltInv == Init => SaltInv
<1> SUFFICES ASSUME Init PROVE SaltInv
  OBVIOUS
<1>1. TypeOK
  BY DEF Init, TypeOK
<1>2. HoldsLock /\ OneWriter /\ WritesEmptyFile
  BY DEF Init, HoldsLock, OneWriter, WritesEmptyFile, Writing, Inside
<1>3. SaltIsForever
  BY SaltAssumption DEF Init, SaltIsForever, Salts
<1> QED  BY <1>1, <1>2, <1>3 DEF SaltInv

LEMMA TypeStep ==
  ASSUME TypeOK, [Next]_vars
  PROVE  TypeOK'
<1> USE DEF TypeOK, goto, Return, Ended, Salts
<1>1. ASSUME NEW t \in Threads, Call(t) PROVE TypeOK'
  BY <1>1 DEF Call
<1>2. ASSUME NEW t \in Threads, Lock(t) PROVE TypeOK'
  BY <1>2 DEF Lock
<1>3. ASSUME NEW t \in Threads, Read(t) \/ ReadFails(t) \/ SetupFails(t) PROVE TypeOK'
  BY <1>3 DEF Read, ReadFails, SetupFails
<1>4. ASSUME NEW t \in Threads, CreateNew(t) PROVE TypeOK'
  BY <1>4 DEF CreateNew
<1>5. ASSUME NEW t \in Threads, WriteAll(t) \/ WriteFails(t) \/ RestrictFails(t) PROVE TypeOK'
  BY <1>5 DEF WriteAll, WriteFails, RestrictFails
<1>6. ASSUME NEW t \in Threads, Reread(t) PROVE TypeOK'
  <2>1. raced' \in BOOLEAN
    BY <1>6, Zenon DEF Reread
  <2> QED  BY <1>6, <2>1 DEF Reread
<1>7. ASSUME NEW t \in Threads, Truncate(t) PROVE TypeOK'
  BY <1>7 DEF Truncate
<1>8. ASSUME NEW p \in Processes, Kill(p) PROVE TypeOK'
  BY <1>8 DEF Kill
<1>9. CASE Finished \/ UNCHANGED vars
  BY <1>9 DEF Finished, vars
<1> QED  BY <1>1, <1>2, <1>3, <1>4, <1>5, <1>6, <1>7, <1>8, <1>9 DEF Next, Step

(* The lock of each process.                                               *)
LEMMA ExclusionStep ==
  ASSUME SaltInv, [Next]_vars
  PROVE  HoldsLock'
<1> USE DEF SaltInv
<1>1. ASSUME NEW t \in Threads, Call(t) PROVE HoldsLock'
  BY <1>1 DEF Call, goto, HoldsLock, Inside, TypeOK
<1>2. ASSUME NEW t \in Threads, Lock(t) PROVE HoldsLock'
  <2>1. /\ pc[t] = "lock" /\ pc' = [pc EXCEPT ![t] = "read"]
        /\ lock[Process[t]] = None /\ lock' = [lock EXCEPT ![Process[t]] = t]
    BY <1>2 DEF Lock, goto
  <2>2. \A u \in Threads : Inside(u) => Process[u] # Process[t]
    BY <2>1, SaltAssumption DEF HoldsLock
  <2> QED  BY <2>1, <2>2, ProcessOfThread DEF HoldsLock, Inside, TypeOK
<1>3. ASSUME NEW t \in Threads,
             \/ Read(t) \/ ReadFails(t) \/ SetupFails(t) \/ CreateNew(t) \/ WriteAll(t)
             \/ WriteFails(t) \/ RestrictFails(t) \/ Reread(t) \/ Truncate(t)
      PROVE  HoldsLock'
  <2>1. Inside(t)
    BY <1>3 DEF Read, ReadFails, SetupFails, CreateNew, WriteAll, WriteFails, RestrictFails,
                Reread, Truncate, Inside, Writing
  <2>2. \/ /\ lock' = lock
           /\ \E w \in {"create", "write", "overwrite", "reread", "truncate"} :
                pc' = [pc EXCEPT ![t] = w]
        \/ /\ lock' = [lock EXCEPT ![Process[t]] = None]
           /\ pc' = [pc EXCEPT ![t] = "returned"]
    BY <1>3 DEF Read, ReadFails, SetupFails, CreateNew, WriteAll, WriteFails, RestrictFails,
                Reread, Truncate, goto, Return
  <2>3. \A u \in Threads : Inside(u) /\ u # t => Process[u] # Process[t]
    BY <2>1 DEF HoldsLock
  <2> QED  BY <2>1, <2>2, <2>3, ProcessOfThread DEF HoldsLock, Inside, TypeOK
<1>4. ASSUME NEW p \in Processes, Kill(p) PROVE HoldsLock'
  BY <1>4, ProcessOfThread DEF Kill, HoldsLock, Inside, TypeOK
<1>5. CASE Finished \/ UNCHANGED vars
  BY <1>5 DEF Finished, vars, HoldsLock, Inside
<1> QED  BY <1>1, <1>2, <1>3, <1>4, <1>5 DEF Next, Step

(* A thread that creates the file, or finds it empty outside a race, is    *)
(* the only one to write it: nobody writes an absent file, and of those    *)
(* that write an empty one the same process is kept out by its lock and    *)
(* every other process would make it a race.                               *)
LEMMA WriterStep ==
  ASSUME SaltInv, [Next]_vars, ~raced'
  PROVE  OneWriter' /\ WritesEmptyFile'
<1> USE DEF SaltInv
<1> DEFINE Same == \A u \in Threads : Writing(u)' => Writing(u)
<1>1. ASSUME ~raced, Same, file' = file PROVE OneWriter' /\ WritesEmptyFile'
  BY <1>1 DEF OneWriter, WritesEmptyFile
<1>2. ASSUME NEW t \in Threads, CreateNew(t) PROVE OneWriter' /\ WritesEmptyFile'
  <2>1. ~raced
    BY <1>2 DEF CreateNew
  <2>2. CASE file = "absent" /\ file' = "empty" /\ goto(t, "write")
    <3>1. \A u \in Threads : ~Writing(u)
      BY <2>1, <2>2 DEF WritesEmptyFile
    <3>2. \A u \in Threads : Writing(u)' => u = t
      BY <3>1, <2>2 DEF goto, Writing, TypeOK
    <3> QED  BY <2>2, <3>2 DEF OneWriter, WritesEmptyFile
  <2>3. CASE file' = file /\ goto(t, "reread")
    <3>1. Same
      BY <2>3 DEF goto, Writing, TypeOK
    <3> QED  BY <1>1, <2>1, <2>3, <3>1
  <2> QED  BY <1>2, <2>2, <2>3 DEF CreateNew
<1>3. ASSUME NEW t \in Threads, WriteAll(t) \/ RestrictFails(t)
      PROVE  OneWriter' /\ WritesEmptyFile'
  <2>1. ~raced /\ Writing(t) /\ pc' = [pc EXCEPT ![t] = "returned"]
    BY <1>3 DEF WriteAll, RestrictFails, Writing, Return, goto
  <2>2. \A u \in Threads : ~Writing(u)'
    BY <2>1 DEF OneWriter, Writing, TypeOK
  <2> QED  BY <2>2 DEF OneWriter, WritesEmptyFile
<1>4. ASSUME NEW t \in Threads, Reread(t) PROVE OneWriter' /\ WritesEmptyFile'
  <2>1. ~raced
    BY <1>4 DEF Reread
  <2>2. CASE goto(t, "truncate") /\ file \notin Salts /\ file # "absent"
    <3>1. file = "empty" /\ file' = file
      BY <1>4, <2>2 DEF Reread, TypeOK
    <3>2. \A u \in Threads : Process[u] # Process[t] => ~Writing(u)
      BY <1>4, <3>1 DEF Reread
    <3>3. \A u \in Threads : Process[u] = Process[t] /\ Writing(u) => u = t
      BY <1>4 DEF Reread, HoldsLock, Inside, Writing
    <3>4. \A u \in Threads : Writing(u)' => u = t
      BY <2>2, <3>2, <3>3 DEF goto, Writing, TypeOK
    <3> QED  BY <3>1, <3>4 DEF OneWriter, WritesEmptyFile
  <2>3. CASE \E a \in Salts \cup {"error"} : Return(t, a)
    <3>1. Same /\ file' = file
      BY <1>4, <2>3 DEF Reread, Return, goto, Writing, TypeOK
    <3> QED  BY <1>1, <2>1, <3>1
  <2> QED  BY <1>4, <2>2, <2>3 DEF Reread
<1>5. ASSUME NEW t \in Threads, Truncate(t) PROVE OneWriter' /\ WritesEmptyFile'
  <2>1. ~raced /\ Writing(t) /\ file' = "empty" /\ pc' = [pc EXCEPT ![t] = "overwrite"]
    BY <1>5 DEF Truncate, Writing, goto
  <2>2. \A u \in Threads : Writing(u)' => Writing(u)
    BY <2>1 DEF Writing, TypeOK
  <2> QED  BY <2>1, <2>2 DEF OneWriter, WritesEmptyFile
<1>6. ASSUME NEW t \in Threads,
             Call(t) \/ Lock(t) \/ Read(t) \/ ReadFails(t) \/ SetupFails(t) \/ WriteFails(t)
      PROVE  OneWriter' /\ WritesEmptyFile'
  <2>1. ~raced /\ file' = file
    BY <1>6 DEF Call, Lock, Read, ReadFails, SetupFails, WriteFails
  <2>2. \E w \in {"lock", "read", "create", "returned"} : pc' = [pc EXCEPT ![t] = w]
    BY <1>6 DEF Call, Lock, Read, ReadFails, SetupFails, WriteFails, Return, goto
  <2>3. Same
    BY <2>2 DEF Writing, TypeOK
  <2> QED  BY <1>1, <2>1, <2>3
<1>7. ASSUME NEW p \in Processes, Kill(p) PROVE OneWriter' /\ WritesEmptyFile'
  <2>1. ~raced /\ file' = file /\ Same
    BY <1>7 DEF Kill, Writing
  <2> QED  BY <1>1, <2>1
<1>8. CASE Finished \/ UNCHANGED vars
  BY <1>8 DEF Finished, vars, OneWriter, WritesEmptyFile, Writing
<1> QED  BY <1>2, <1>3, <1>4, <1>5, <1>6, <1>7, <1>8 DEF Next, Step

(* What a step may do to the file: nothing, or it creates it where there   *)
(* was none, or a thread that writes it empties it or puts its own salt in.*)
LEMMA FileStep ==
  ASSUME SaltInv, [Next]_vars, file' # file
  PROVE  /\ raced' = raced
         /\ \/ file = "absent"
            \/ \E t \in Threads : Writing(t)
         /\ \/ file' = "empty" /\ answer' = answer
            \/ \E t \in Threads : file' = t /\ \E a \in {t, "error"} : Return(t, a)
<1>1. PICK t \in Threads : CreateNew(t) \/ WriteAll(t) \/ RestrictFails(t) \/ Truncate(t)
  BY DEF Next, Step, Call, Lock, Read, ReadFails, SetupFails, WriteFails, Reread, Kill,
         Finished, vars
<1> QED  BY <1>1 DEF CreateNew, WriteAll, RestrictFails, Truncate, Writing

(* What a step may do to the answers: nothing, or one call returns an      *)
(* error, the salt in the file, or its own salt, which is in the file now. *)
LEMMA AnswerStep ==
  ASSUME SaltInv, [Next]_vars
  PROVE  \/ answer' = answer
         \/ \E t \in Threads, a \in {"error"} \cup Salts :
              /\ answer' = [answer EXCEPT ![t] = a]
              /\ a = "error" \/ a = file'
<1>1. ASSUME NEW t \in Threads, Read(t) \/ ReadFails(t) \/ SetupFails(t) \/ Reread(t)
      PROVE  \/ answer' = answer
             \/ \E a \in {"error"} \cup Salts :
                  /\ answer' = [answer EXCEPT ![t] = a]
                  /\ a = "error" \/ a = file'
  BY <1>1 DEF Read, ReadFails, SetupFails, Reread, Return
<1>2. ASSUME NEW t \in Threads, WriteAll(t) \/ WriteFails(t) \/ RestrictFails(t)
      PROVE  \E a \in {"error"} \cup Salts :
               /\ answer' = [answer EXCEPT ![t] = a]
               /\ a = "error" \/ a = file'
  BY <1>2 DEF WriteAll, WriteFails, RestrictFails, Return, Salts
<1>3. ASSUME NEW t \in Threads, Call(t) \/ Lock(t) \/ CreateNew(t) \/ Truncate(t)
      PROVE  answer' = answer
  BY <1>3 DEF Call, Lock, CreateNew, Truncate
<1>4. ASSUME Finished \/ UNCHANGED vars \/ \E p \in Processes : Kill(p)
      PROVE  answer' = answer
  BY <1>4 DEF Finished, vars, Kill
<1> QED  BY <1>1, <1>2, <1>3, <1>4 DEF Next, Step

(* A race is never forgotten.                                              *)
LEMMA RaceStays ==
  ASSUME [Next]_vars, raced
  PROVE  raced'
BY DEF Next, Step, Call, Lock, Read, ReadFails, SetupFails, CreateNew, WriteAll, WriteFails,
       RestrictFails, Reread, Truncate, Kill, Finished, vars

LEMMA SaltStep ==
  ASSUME SaltInv, [Next]_vars, ~raced'
  PROVE  SaltIsForever'
<1> USE DEF SaltInv
<1>0. ~raced
  BY RaceStays
<1>1. CASE file' = file
  BY <1>0, <1>1, AnswerStep, SaltAssumption DEF SaltIsForever, TypeOK, Salts
<1>2. CASE file' # file
  <2>1. file \notin Salts
    BY <1>0, <1>2, FileStep, SaltAssumption DEF WritesEmptyFile, Salts
  <2>2. \A u \in Threads : answer[u] \notin Salts
    BY <1>0, <2>1 DEF SaltIsForever
  <2>3. CASE file' = "empty" /\ answer' = answer
    BY <2>2, <2>3 DEF SaltIsForever
  <2>4. CASE \E t \in Threads : file' = t /\ \E a \in {t, "error"} : Return(t, a)
    BY <2>2, <2>4, SaltAssumption DEF SaltIsForever, Return, TypeOK, Salts
  <2> QED  BY <1>2, <2>3, <2>4, FileStep
<1> QED  BY <1>1, <1>2

LEMMA SaltInvariant == Spec => []SaltInv
<1>1. SaltInv /\ [Next]_vars => SaltInv'
  <2> SUFFICES ASSUME SaltInv, [Next]_vars PROVE SaltInv'
    OBVIOUS
  <2>1. TypeOK'
    BY TypeStep DEF SaltInv
  <2>2. OneWriter' /\ WritesEmptyFile'
    BY WriterStep DEF OneWriter, WritesEmptyFile
  <2>3. SaltIsForever'
    BY SaltStep DEF SaltIsForever
  <2> QED  BY <2>1, <2>2, <2>3, ExclusionStep DEF SaltInv
<1> QED  BY InitSaltInv, <1>1, PTL DEF Spec

-----------------------------------------------------------------------------
(* Every variable keeps its type, whatever processes overlap, fail or are  *)
(* killed.                                                                 *)
THEOREM TypeCorrect == Spec => []TypeOK
<1>1. SaltInv => TypeOK
  BY DEF SaltInv
<1> QED  BY SaltInvariant, <1>1, PTL

(* SALT_LOCK works: of the threads of one process at most one is between   *)
(* its first read and its return, even with several processes alive.       *)
THEOREM OneThreadInside ==
  Spec => [](\A t, u \in Threads :
               Inside(t) /\ Inside(u) /\ Process[t] = Process[u] => t = u)
<1>1. SaltInv => \A t, u \in Threads :
               Inside(t) /\ Inside(u) /\ Process[t] = Process[u] => t = u
  BY DEF SaltInv, HoldsLock
<1> QED  BY SaltInvariant, <1>1, PTL

(* Whatever processes are alive at once, whoever is killed and whichever   *)
(* call fails: unless a call has found the file empty while another        *)
(* process was about to write it, a salt that any call ever returned is    *)
(* the one in the file.                                                    *)
THEOREM SaltForever == Spec => []SaltIsForever
<1>1. SaltInv => SaltIsForever
  BY DEF SaltInv
<1> QED  BY SaltInvariant, <1>1, PTL

(* A step that replaces a salt in the file is taken only after such a      *)
(* race: crashes, failures and threads of one process never lead to it.    *)
THEOREM SaltNeverReplaced == Spec => [][(file \in Salts /\ file' # file) => raced]_vars
<1>1. ASSUME SaltInv, [Next]_vars PROVE [(file \in Salts /\ file' # file) => raced]_vars
  BY <1>1, FileStep, SaltAssumption DEF SaltInv, WritesEmptyFile, Salts
<1> QED  BY SaltInvariant, <1>1, PTL DEF Spec
=============================================================================

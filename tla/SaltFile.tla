------------------------------ MODULE SaltFile ------------------------------
(***************************************************************************)
(* The persisted salt behind the opaque AP labels (load_or_create_salt in  *)
(* load_guard/ap_identity.rs) and node labels (load_or_create_node_salt in *)
(* network_tests/fleet_orchestrator.rs): read the file, or else create it  *)
(* with create_new, or else, if someone was faster, read what they wrote.  *)
(* A mutex serialises the threads of one process; processes share only the *)
(* file, and run at the same time as they please.  A process may be killed *)
(* between any two steps, and any call on the file system may fail.        *)
(*                                                                         *)
(* A label is a hash of the salt and an address, so two labels of one      *)
(* address agree exactly if the salts do.                                  *)
(***************************************************************************)
EXTENDS FiniteSets

CONSTANTS
  Threads,   \* the callers of load_or_create_salt
  Process,   \* the process each of them runs in
  None       \* no salt, no thread

ASSUME SaltAssumption ==
  /\ DOMAIN Process = Threads
  /\ None \notin Threads
  /\ Threads \cap {"absent", "empty", "error"} = {}

(* Each caller draws its own fresh salt, named after the caller.           *)
Salts == Threads

Processes == {Process[t] : t \in Threads}

VARIABLES
  file,     \* "absent", "empty" or the salt it holds
  lock,     \* per process: the thread that holds SALT_LOCK
  pc,       \* per thread
  answer,   \* per thread: None, "error" or the salt the call returned
  raced     \* history, for the properties only: has a call found the file
            \* empty while another process was about to write it?

vars == <<file, lock, pc, answer, raced>>

Init ==
  /\ file = "absent"
  /\ lock = [p \in Processes |-> None]
  /\ pc = [t \in Threads |-> "idle"]
  /\ answer = [t \in Threads |-> None]
  /\ raced = FALSE

Ended == {"returned", "killed"}

(* The process p has started and not ended.                                *)
Alive(p) == \E t \in Threads : Process[t] = p /\ pc[t] \notin Ended \cup {"idle"}

goto(t, where) == pc' = [pc EXCEPT ![t] = where]

(* Between opening the file for writing, or deciding to, and returning.    *)
Writing(t) == pc[t] \in {"write", "truncate", "overwrite"}

(* Return from the call, which drops the lock guard.                       *)
Return(t, a) ==
  /\ answer' = [answer EXCEPT ![t] = a]
  /\ lock' = [lock EXCEPT ![Process[t]] = None]
  /\ goto(t, "returned")

Call(t) ==
  /\ pc[t] = "idle"
  /\ \A u \in Threads : Process[u] = Process[t] => pc[u] # "killed"
  /\ goto(t, "lock")
  /\ UNCHANGED <<file, lock, answer, raced>>

(* Mutant: no lock.                                                        *)
LockNothing(t) ==
  /\ pc[t] = "lock"
  /\ goto(t, "read")
  /\ UNCHANGED <<file, lock, answer, raced>>

Lock(t) ==
  /\ pc[t] = "lock"
  /\ lock[Process[t]] = None
  /\ lock' = [lock EXCEPT ![Process[t]] = t]
  /\ goto(t, "read")
  /\ UNCHANGED <<file, answer, raced>>

Read(t) ==
  /\ pc[t] = "read"
  /\ IF file \in Salts
     THEN Return(t, file)
     ELSE goto(t, "create") /\ UNCHANGED <<lock, answer>>
  /\ UNCHANGED <<file, raced>>

(* A first read that fails counts as no salt; a second one is an error.    *)
ReadFails(t) ==
  /\ \/ pc[t] = "read" /\ goto(t, "create") /\ UNCHANGED <<lock, answer>>
     \/ pc[t] = "reread" /\ Return(t, "error")
  /\ UNCHANGED <<file, raced>>

(* No config directory, no entropy, or the directory cannot be created.    *)
SetupFails(t) ==
  /\ pc[t] \in {"read", "create"}
  /\ Return(t, "error")
  /\ UNCHANGED <<file, raced>>

(* OpenOptions::create_new: it creates the file, or fails, because the     *)
(* file is there or for any other reason.                                  *)
CreateNew(t) ==
  /\ pc[t] = "create"
  /\ \/ file = "absent" /\ file' = "empty" /\ goto(t, "write")
     \/ UNCHANGED file /\ goto(t, "reread")
  /\ UNCHANGED <<lock, answer, raced>>

(* write_all on the handle from create_new, or on the one fs::write opened *)
WriteAll(t) ==
  /\ pc[t] \in {"write", "overwrite"}
  /\ file' = t
  /\ Return(t, t)
  /\ UNCHANGED raced

(* The write fails, or fs::write cannot even open the file.                *)
WriteFails(t) ==
  /\ Writing(t)
  /\ UNCHANGED <<file, raced>>
  /\ Return(t, "error")

(* The AP salt is written, but its mode cannot be restricted to 0600.      *)
RestrictFails(t) ==
  /\ pc[t] \in {"write", "overwrite"}
  /\ file' = t
  /\ Return(t, "error")
  /\ UNCHANGED raced

(* Mutant: what the winner has written so far is taken for its salt.       *)
RereadAsIs(t) ==
  /\ pc[t] = "reread"
  /\ IF file = "absent" THEN Return(t, "error") ELSE Return(t, file)
  /\ UNCHANGED <<file, raced>>

(* Mutant: an empty file is waited for instead of being written.           *)
RereadRetrying(t) ==
  /\ pc[t] = "reread"
  /\ IF file \in Salts THEN Return(t, file)
     ELSE goto(t, "create") /\ UNCHANGED <<lock, answer>>
  /\ UNCHANGED <<file, raced>>

(* After a lost create: the winner's salt, unless the file is still empty. *)
Reread(t) ==
  /\ pc[t] = "reread"
  /\ IF file \in Salts THEN Return(t, file)
     ELSE IF file = "absent" THEN Return(t, "error")
     ELSE goto(t, "truncate") /\ UNCHANGED <<lock, answer>>
  /\ raced' = (raced \/ /\ file = "empty"
                        /\ \E u \in Threads : Process[u] # Process[t] /\ Writing(u))
  /\ UNCHANGED file

(* fs::write opens with truncation before it writes.                       *)
Truncate(t) ==
  /\ pc[t] = "truncate"
  /\ file' = "empty"
  /\ goto(t, "overwrite")
  /\ UNCHANGED <<lock, answer, raced>>

(* A process dies with every call it has under way.                        *)
Kill(p) ==
  /\ Alive(p)
  /\ pc' = [t \in Threads |->
              IF Process[t] = p /\ pc[t] # "returned" THEN "killed" ELSE pc[t]]
  /\ lock' = [lock EXCEPT ![p] = None]
  /\ UNCHANGED <<file, answer, raced>>

Step(t) == \/ Lock(t) \/ Read(t) \/ ReadFails(t) \/ SetupFails(t) \/ CreateNew(t)
           \/ WriteAll(t) \/ WriteFails(t) \/ RestrictFails(t) \/ Reread(t) \/ Truncate(t)

Finished == (\A t \in Threads : pc[t] \in Ended \cup {"idle"}) /\ UNCHANGED vars

Next == \/ \E t \in Threads : Call(t) \/ Step(t)
        \/ \E p \in Processes : Kill(p)
        \/ Finished

(* Threads are scheduled and SALT_LOCK is granted in turn: a waiting call  *)
(* gets it if it is free again and again.                                  *)
Spec == Init /\ [][Next]_vars /\ \A t \in Threads : SF_vars(Lock(t)) /\ WF_vars(Step(t))

-----------------------------------------------------------------------------
(* Every variable has the type the code gives it.                          *)
TypeOK ==
  /\ file \in {"absent", "empty"} \cup Salts
  /\ lock \in [Processes -> Threads \cup {None}]
  /\ pc \in [Threads -> {"idle", "lock", "read", "create", "write", "overwrite",
                         "reread", "truncate"} \cup Ended]
  /\ answer \in [Threads -> {None, "error"} \cup Salts]
  /\ raced \in BOOLEAN

(* "Same AP -> same label on this machine, forever (until the salt file is *)
(* deleted)" (ap_identity.rs 16-17), up to the one race the code leaves    *)
(* open: unless some call found the file created and still empty while     *)
(* another process was about to write it, a salt any call ever returned is *)
(* the one in the file, so every later call, of any process, returns it    *)
(* too, whoever was killed and whatever failed in between.  Threads of one *)
(* process never race, and processes that merely overlap need not.         *)
SaltIsForever == ~raced => \A t \in Threads : answer[t] \in Salts => file = answer[t]

(* A call that starts returns, or dies with its process: an empty file     *)
(* left behind by a crash or a failed write blocks nobody.                 *)
EveryCallEnds == \A t \in Threads : pc[t] = "lock" ~> pc[t] \in Ended
=============================================================================

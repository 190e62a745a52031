------------------------ MODULE ListenerPool_proofs -------------------------
(***************************************************************************)
(* Proofs about ListenerPool, for every allowlist, cap and set of          *)
(* sessions.                                                               *)
(***************************************************************************)
EXTENDS ListenerPool, FiniteSetTheorems, WellFoundedInduction, TLAPS

(* The cap compares the number of taken ports with the limit, the pool     *)
(* counts leases: the two numbers agree.                                   *)
CountsAgree ==
  /\ IsFiniteSet(in_use)
  /\ Cardinality(in_use) = Cardinality(Leasing)

(* The inductive invariant: the taken ports are those of the live leases,  *)
(* one lease to a port, and counting either gives the same number.         *)
PoolInv == TypeOK /\ OneSessionPerListener /\ CountsAgree

-----------------------------------------------------------------------------
(* allowlist.iter().find(..) returns one of the listeners it looked at.    *)
LEMMA FirstIsOneOf ==
  ASSUME NEW I \in SUBSET DOMAIN allowlist, I # {}
  PROVE  \E i \in I : First(I) = allowlist[i]
<1>1. DOMAIN allowlist \subseteq Nat
  <2>1. DOMAIN allowlist = 1 .. Len(allowlist) /\ Len(allowlist) \in Nat
    BY PoolAssumption
  <2> QED  BY <2>1
<1>2. IsWellFoundedOn({ss \in Nat \X Nat : ss[1] < ss[2]}, Nat)
  BY NatLessThanWellFounded, Zenon DEF OpToRel
<1>3. \E Lt : IsWellFoundedOn(Lt, Nat) /\ Lt = {ss \in Nat \X Nat : ss[1] < ss[2]}
  BY <1>2
<1>4. PICK i \in I : \A j \in I : i <= j
  <2>1. PICK Lt : IsWellFoundedOn(Lt, Nat) /\ Lt = {ss \in Nat \X Nat : ss[1] < ss[2]}
    BY <1>3
  <2>2. PICK i \in I : \A j \in I : ~(<<j, i>> \in Lt)
    BY ONLY I \in SUBSET DOMAIN allowlist, I # {}, <1>1, <2>1, WFMin
  <2>3. ASSUME NEW j \in I PROVE i <= j
    <3>1. i \in Nat /\ j \in Nat
      BY <1>1
    <3>2. j < i => <<j, i>> \in Lt
      BY <2>1, <3>1, Zenon
    <3> QED  BY <2>2, <3>1, <3>2
  <2> QED  BY <2>3
<1>5. (CHOOSE k \in I : \A j \in I : k <= j) \in I
  BY <1>4
<1> QED  BY <1>5 DEF First

LEMMA LeasingFinite == IsFiniteSet(Leasing)
BY PoolAssumption, FS_Subset DEF Leasing

LEMMA PoolCardinality == \A S : Pool!Cardinality(S) = Cardinality(S)
BY DEF Pool!Cardinality, Cardinality, Pool!IsFiniteSet, IsFiniteSet

(* A free listener granted to a session without one keeps the invariant    *)
(* and adds one holder.                                                    *)
LEMMA GrantSafe ==
  ASSUME PoolInv, NEW s \in Sessions, NEW i \in DOMAIN allowlist,
         lease[s] = None, allowlist[i].port \notin in_use, Grant(s, allowlist[i])
  PROVE  /\ PoolInv'
         /\ s \notin Leasing
         /\ Leasing' = Leasing \cup {s}
<1> DEFINE l == allowlist[i]
<1>1. l \in Listeners /\ l.port \in Ports /\ l # None
  BY PoolAssumption DEF Listeners
<1>2. /\ in_use' = in_use \cup {l.port}
      /\ lease' = [lease EXCEPT ![s] = l]
      /\ answer' = [answer EXCEPT ![s] = "Ok"]
  BY DEF Grant
<1>3. TypeOK'
  BY <1>1, <1>2 DEF PoolInv, TypeOK
<1>4. s \notin Leasing /\ Leasing' = Leasing \cup {s}
  BY <1>1, <1>2 DEF PoolInv, TypeOK, Leasing
<1>5. /\ \A r \in Leasing : lease'[r] = lease[r]
      /\ lease'[s] = l
  BY <1>2, <1>4 DEF PoolInv, TypeOK, Leasing
<1>6. OneSessionPerListener'
  <2>1. in_use' = {lease'[r].port : r \in Leasing'}
    BY <1>2, <1>4, <1>5 DEF PoolInv, OneSessionPerListener
  <2>2. ASSUME NEW r \in Leasing', NEW q \in Leasing', lease'[r].port = lease'[q].port
        PROVE  r = q
    <3>1. \A x \in Leasing : lease[x].port \in in_use
      BY DEF PoolInv, OneSessionPerListener
    <3> QED  BY <1>4, <1>5, <2>2, <3>1 DEF PoolInv, OneSessionPerListener
  <2> QED  BY <2>1, <2>2 DEF OneSessionPerListener
<1>7. CountsAgree'
  <2>1. IsFiniteSet(in_use') /\ Cardinality(in_use') = Cardinality(in_use) + 1
    BY <1>2, FS_AddElement DEF PoolInv, CountsAgree
  <2>2. Cardinality(Leasing') = Cardinality(Leasing) + 1
    BY <1>4, LeasingFinite, FS_AddElement
  <2> QED  BY <2>1, <2>2 DEF PoolInv, CountsAgree
<1> QED  BY <1>3, <1>4, <1>6, <1>7 DEF PoolInv

(* A dropped lease gives back its own port and no other session's.         *)
LEMMA DropSafe ==
  ASSUME PoolInv, NEW s \in Sessions, Drop(s)
  PROVE  /\ PoolInv'
         /\ s \in Leasing
         /\ Leasing' = Leasing \ {s}
<1>1. /\ lease[s] # None
      /\ in_use' = in_use \ {lease[s].port}
      /\ lease' = [lease EXCEPT ![s] = None]
      /\ answer' = answer
  BY DEF Drop
<1>2. TypeOK'
  BY <1>1 DEF PoolInv, TypeOK
<1>3. s \in Leasing /\ Leasing' = Leasing \ {s}
  BY <1>1 DEF PoolInv, TypeOK, Leasing
<1>4. \A r \in Leasing' : r # s /\ r \in Leasing /\ lease'[r] = lease[r]
  BY <1>1, <1>3 DEF PoolInv, TypeOK, Leasing
<1>5. OneSessionPerListener'
  <2>1. in_use' = {lease'[r].port : r \in Leasing'}
    BY <1>1, <1>3, <1>4 DEF PoolInv, OneSessionPerListener
  <2> QED  BY <2>1, <1>4 DEF PoolInv, OneSessionPerListener
<1>6. CountsAgree'
  <2>1. lease[s].port \in in_use
    BY <1>3 DEF PoolInv, OneSessionPerListener
  <2>2. IsFiniteSet(in_use') /\ Cardinality(in_use') = Cardinality(in_use) - 1
    BY <1>1, <2>1, FS_RemoveElement DEF PoolInv, CountsAgree
  <2>3. Cardinality(Leasing') = Cardinality(Leasing) - 1
    BY <1>3, LeasingFinite, FS_RemoveElement
  <2> QED  BY <2>2, <2>3 DEF PoolInv, CountsAgree
<1> QED  BY <1>2, <1>3, <1>5, <1>6 DEF PoolInv

(* A refusal changes nothing but the answer.                               *)
LEMMA DenySafe ==
  ASSUME PoolInv, NEW s \in Sessions,
         NEW e \in {"AllListenersInUse", "ConcurrencyCapReached", "PortNotAuthorized"},
         Deny(s, e)
  PROVE  PoolInv' /\ Leasing' = Leasing
BY DEF PoolInv, TypeOK, OneSessionPerListener, CountsAgree, Deny, Leasing

-----------------------------------------------------------------------------
LEMMA InitPoolInv == Init => PoolInv
<1> SUFFICES ASSUME Init PROVE PoolInv
  OBVIOUS
<1>1. TypeOK
  BY DEF Init, TypeOK
<1>2. Leasing = {}
  BY DEF Init, Leasing
<1>3. OneSessionPerListener
  BY <1>2 DEF Init, OneSessionPerListener
<1>4. CountsAgree
  BY <1>2, FS_EmptySet DEF Init, CountsAgree
<1> QED  BY <1>1, <1>3, <1>4 DEF PoolInv

(* Every step keeps the invariant and is, seen through the set of leasing  *)
(* sessions, an acquisition below the cap, a release, or nothing.          *)
LEMMA StepPoolInv ==
  ASSUME PoolInv, [Next]_vars
  PROVE  PoolInv' /\ [Pool!PoolNext]_Leasing
<1>1. ASSUME NEW s \in Sessions, Lease(s)
      PROVE  PoolInv' /\ [Pool!PoolNext]_Leasing
  <2>1. CASE Free = {}
    <3>1. Deny(s, "AllListenersInUse")
      BY <1>1, <2>1 DEF Lease
    <3> QED  BY <3>1, DenySafe
  <2>2. CASE Free # {} /\ Cardinality(in_use) >= MaxConcurrency
    <3>1. Deny(s, "ConcurrencyCapReached")
      BY <1>1, <2>2 DEF Lease
    <3> QED  BY <3>1, DenySafe
  <2>3. CASE Free # {} /\ ~(Cardinality(in_use) >= MaxConcurrency)
    <3>1. lease[s] = None /\ Grant(s, First(Free))
      BY <1>1, <2>3 DEF Lease
    <3>2. PICK i \in Free : First(Free) = allowlist[i]
      BY <2>3, FirstIsOneOf DEF Free
    <3>3. PoolInv' /\ s \notin Leasing /\ Leasing' = Leasing \cup {s}
      BY <3>1, <3>2, GrantSafe DEF Free
    <3>4. Cardinality(Leasing) < MaxConcurrency
      BY <2>3, PoolAssumption, FS_CardinalityType DEF PoolInv, CountsAgree
    <3> QED  BY <3>3, <3>4, PoolCardinality DEF Pool!PoolNext, Pool!Acquire
  <2> QED  BY <2>1, <2>2, <2>3
<1>2. ASSUME NEW s \in Sessions, NEW p \in Ports, LeaseSpecific(s, p)
      PROVE  PoolInv' /\ [Pool!PoolNext]_Leasing
  <2>1. CASE Deny(s, "PortNotAuthorized") \/ Deny(s, "ConcurrencyCapReached")
             \/ Deny(s, "AllListenersInUse")
    BY <2>1, DenySafe
  <2>2. CASE /\ Named(p) # {}
             /\ ~(Cardinality(in_use) >= MaxConcurrency)
             /\ p \notin in_use
             /\ lease[s] = None /\ Grant(s, First(Named(p)))
    <3>1. PICK i \in Named(p) : First(Named(p)) = allowlist[i]
      BY <2>2, FirstIsOneOf DEF Named
    <3>2. PoolInv' /\ s \notin Leasing /\ Leasing' = Leasing \cup {s}
      BY <2>2, <3>1, GrantSafe DEF Named
    <3>3. Cardinality(Leasing) < MaxConcurrency
      BY <2>2, PoolAssumption, FS_CardinalityType DEF PoolInv, CountsAgree
    <3> QED  BY <3>2, <3>3, PoolCardinality DEF Pool!PoolNext, Pool!Acquire
  <2> QED  BY <1>2, <2>1, <2>2 DEF LeaseSpecific
<1>3. ASSUME NEW s \in Sessions, Drop(s)
      PROVE  PoolInv' /\ [Pool!PoolNext]_Leasing
  BY <1>3, DropSafe DEF Pool!PoolNext, Pool!Release
<1>4. CASE UNCHANGED vars
  BY <1>4 DEF vars, PoolInv, TypeOK, OneSessionPerListener, CountsAgree, Leasing
<1> QED  BY <1>1, <1>2, <1>3, <1>4 DEF Next

(* Every variable keeps its type, whatever is leased and dropped.          *)
THEOREM TypeCorrect == Spec => []TypeOK
<1>1. PoolInv /\ [Next]_vars => PoolInv'
  BY StepPoolInv
<1>2. PoolInv => TypeOK
  BY DEF PoolInv
<1> QED  BY InitPoolInv, <1>1, <1>2, PTL DEF Spec

(* However many sessions lease, are refused and drop, each authorized      *)
(* listener serves at most one of them, and a port is taken exactly while  *)
(* its lease lives (ListenerPool::lease, lease_specific, Drop).            *)
THEOREM OneSession == Spec => []OneSessionPerListener
<1>1. PoolInv /\ [Next]_vars => PoolInv'
  BY StepPoolInv
<1>2. PoolInv => OneSessionPerListener
  BY DEF PoolInv
<1> QED  BY InitPoolInv, <1>1, <1>2, PTL DEF Spec

(* The pool of listeners implements the bounded pool: a lease is granted   *)
(* only while fewer than max_concurrency are held.                         *)
THEOREM PoolRefinement == Spec => ImplementsPool
<1>1. Init => Pool!PoolInit
  BY DEF Init, Pool!PoolInit, Leasing
<1>2. PoolInv /\ [Next]_vars => PoolInv' /\ [Pool!PoolNext]_Leasing
  BY StepPoolInv
<1> QED  BY InitPoolInv, <1>1, <1>2, PTL DEF Spec, ImplementsPool, Pool!Spec
=============================================================================

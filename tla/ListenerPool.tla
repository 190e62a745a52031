---------------------------- MODULE ListenerPool ----------------------------
(***************************************************************************)
(* ListenerPool (network_tests/listener_lease.rs): sessions lease one of   *)
(* the operator's authorized listeners, at most max_concurrency at a time; *)
(* dropping the lease gives the listener back.  Every operation runs under *)
(* the pool's mutex, so it is one step here.                               *)
(***************************************************************************)
EXTENDS Naturals, Sequences, FiniteSets

CONSTANTS
  Sessions,        \* the callers
  allowlist,       \* the authorized listeners, in the operator's order
  Ports,           \* the ports a caller may name
  MaxConcurrency,  \* ListenerPool::max_concurrency
  None             \* no lease

Listeners == {allowlist[i] : i \in DOMAIN allowlist}

ASSUME PoolAssumption ==
  /\ IsFiniteSet(Sessions)
  /\ MaxConcurrency \in Nat
  /\ allowlist \in Seq(Listeners)
  /\ \A l \in Listeners : l.port \in Ports
  /\ None \notin Listeners

VARIABLES
  in_use,   \* the ports that are leased
  lease,    \* per session: the listener it leases, or None
  answer    \* per session: what its last call returned

vars == <<in_use, lease, answer>>

Init ==
  /\ in_use = {}
  /\ lease = [s \in Sessions |-> None]
  /\ answer = [s \in Sessions |-> "none yet"]

is_authorized(port) == \E l \in Listeners : l.port = port

(* allowlist.iter().find(...): the first listener with the property.       *)
First(I) == allowlist[CHOOSE i \in I : \A j \in I : i <= j]

Grant(s, l) ==
  /\ in_use' = in_use \cup {l.port}
  /\ lease' = [lease EXCEPT ![s] = l]
  /\ answer' = [answer EXCEPT ![s] = "Ok"]

Deny(s, error) ==
  /\ answer' = [answer EXCEPT ![s] = error]
  /\ UNCHANGED <<in_use, lease>>

Free == {i \in DOMAIN allowlist : allowlist[i].port \notin in_use}

(* Mutant: the cap is off by one.                                          *)
LeaseOneTooMany(s) ==
  /\ lease[s] = None
  /\ IF Free = {} THEN Deny(s, "AllListenersInUse")
     ELSE IF Cardinality(in_use) > MaxConcurrency THEN Deny(s, "ConcurrencyCapReached")
     ELSE Grant(s, First(Free))

(* ListenerPool::lease: a free listener is looked for before the cap is.   *)
Lease(s) ==
  /\ lease[s] = None
  /\ IF Free = {} THEN Deny(s, "AllListenersInUse")
     ELSE IF Cardinality(in_use) >= MaxConcurrency THEN Deny(s, "ConcurrencyCapReached")
     ELSE Grant(s, First(Free))

Named(port) == {i \in DOMAIN allowlist : allowlist[i].port = port}

(* Mutant: a port somebody holds is leased again.                          *)
LeaseSpecificTwice(s, port) ==
  /\ lease[s] = None
  /\ IF Named(port) = {} THEN Deny(s, "PortNotAuthorized")
     ELSE IF Cardinality(in_use) >= MaxConcurrency THEN Deny(s, "ConcurrencyCapReached")
     ELSE Grant(s, First(Named(port)))

(* Mutant: a port nobody authorized is leased.                             *)
LeaseSpecificUnchecked(s, port) ==
  /\ lease[s] = None
  /\ IF Cardinality(in_use) >= MaxConcurrency THEN Deny(s, "ConcurrencyCapReached")
     ELSE IF port \in in_use THEN Deny(s, "AllListenersInUse")
     ELSE Grant(s, [host |-> "any", port |-> port])

(* ListenerPool::lease_specific: the cap is looked at before the port.     *)
LeaseSpecific(s, port) ==
  /\ lease[s] = None
  /\ IF Named(port) = {} THEN Deny(s, "PortNotAuthorized")
     ELSE IF Cardinality(in_use) >= MaxConcurrency THEN Deny(s, "ConcurrencyCapReached")
     ELSE IF port \in in_use THEN Deny(s, "AllListenersInUse")
     ELSE Grant(s, First(Named(port)))

(* Mutant: a dropped lease leaves its port taken.                          *)
DropLeaks(s) ==
  /\ lease[s] # None
  /\ lease' = [lease EXCEPT ![s] = None]
  /\ UNCHANGED <<in_use, answer>>

(* Drop for ListenerLease                                                  *)
Drop(s) ==
  /\ lease[s] # None
  /\ in_use' = in_use \ {lease[s].port}
  /\ lease' = [lease EXCEPT ![s] = None]
  /\ UNCHANGED answer

Next == \E s \in Sessions : Lease(s) \/ Drop(s) \/ \E p \in Ports : LeaseSpecific(s, p)

Spec == Init /\ [][Next]_vars

-----------------------------------------------------------------------------
Leasing == {s \in Sessions : lease[s] # None}

(* Every variable has the type the code gives it.                          *)
TypeOK ==
  /\ in_use \subseteq Ports
  /\ lease \in [Sessions -> Listeners \cup {None}]
  /\ answer \in [Sessions -> {"none yet", "Ok", "AllListenersInUse",
                              "ConcurrencyCapReached", "PortNotAuthorized"}]

(* Through any sequence of leases, refusals and drops the set of taken     *)
(* ports is exactly the ports of the live leases, and no two live leases   *)
(* are of one listener: "each XMission listener accepts one test at a      *)
(* time" (listener_lease.rs 3).                                            *)
OneSessionPerListener ==
  /\ in_use = {lease[s].port : s \in Leasing}
  /\ \A s, r \in Leasing : lease[s].port = lease[r].port => s = r

(* The pool is a bounded pool of leases.                                   *)
Pool == INSTANCE PermitPool WITH Clients <- Sessions, Limit <- MaxConcurrency,
                                 holders <- Leasing
ImplementsPool == Pool!Spec
=============================================================================

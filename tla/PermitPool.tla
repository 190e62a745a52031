----------------------------- MODULE PermitPool -----------------------------
(***************************************************************************)
(* What a bounded pool promises: at most Limit clients hold a permit at    *)
(* any moment, and only a holder gives one back.                           *)
(***************************************************************************)
EXTENDS Naturals, FiniteSets

CONSTANTS Clients, Limit

VARIABLE holders   \* the clients that hold a permit

PoolInit == holders = {}

Acquire(c) == /\ c \notin holders
              /\ Cardinality(holders) < Limit
              /\ holders' = holders \cup {c}

Release(c) == /\ c \in holders
              /\ holders' = holders \ {c}

PoolNext == \E c \in Clients : Acquire(c) \/ Release(c)

Spec == PoolInit /\ [][PoolNext]_holders
=============================================================================

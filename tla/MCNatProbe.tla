----------------------------- MODULE MCNatProbe -----------------------------
(* Small instances of NatProbe: a connect succeeds, fails at once, or      *)
(* times out past the end of the ramp step.                                *)
EXTENDS NatProbe

T(took, sent) == [took |-> took, bytes |-> sent, endpointError |-> FALSE,
                  latency |-> None, loss |-> None]
MCTicks == {T(0, 1), T(0, 0), T(2, 0)}
MCBudgets == {NewBudget("LiveEvent", 1, 1, 1, 2), NewBudget("LiveEvent", 51, 1, 1, 2),
              NewBudget("Maintenance", 1, 0, 2, 2)}
MCCounters == {ZeroCounters}
MCRadios == {Unavailable}
=============================================================================

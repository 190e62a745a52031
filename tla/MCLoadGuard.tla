---------------------------- MODULE MCLoadGuard -----------------------------
(* Small instances of LoadGuard.                                           *)
EXTENDS LoadGuard

Snap(band, channel, rssi, noise) ==
  [associated |-> TRUE, band |-> band, channel |-> channel, rssi |-> rssi,
   noise |-> noise]

(* The baseline, the baseline on a weak and on a noisy signal, and another *)
(* association.                                                            *)
Strong6 == Snap("6GHz", 197, -55, -92)
MCRadios == {Strong6, Snap("6GHz", 197, -75, -92), Snap("6GHz", 197, -60, -74),
             Snap("2GHz", 1, -70, -92)}

(* The snapshot the load-guard command substitutes for a failed read.      *)
strong_snapshot == Strong6

MCCounters == {[rx |-> 1, tx |-> 1], [rx |-> 2, tx |-> 0]}

T(took, sent, err, lat, loss) ==
  [took |-> took, bytes |-> sent, endpointError |-> err, latency |-> lat,
   loss |-> loss]

MCTicks == {T(0, 1, FALSE, 50, None), T(3, 0, FALSE, None, 2),
            T(0, 0, TRUE, None, None), T(0, 1, FALSE, 51, None),
            T(1, 1, FALSE, None, 3)}

MCBudgets == {NewBudget("LiveEvent", 20, 1, 1, 2),
              NewBudget("LiveEvent", 51, 1, 1, 2),
              NewBudget("LiveEvent", 20, 31, 1, 2),
              NewBudget("LiveEvent", 20, 1, 3, 2),
              NewBudget("Maintenance", 1000, 1, 16, 0)}

(* Budgets validate() accepts: a ramp of a single step, a duration of zero *)
(* seconds, an ordinary one.                                               *)
OneStepBudgets == {NewBudget("LiveEvent", 20, 1, 1, 1)}
ZeroSecondBudgets == {NewBudget("Maintenance", 10, 0, 2, 2)}
FewRadios == {Strong6, Snap("2GHz", 1, -70, -92)}
OneBudget == {NewBudget("LiveEvent", 20, 1, 1, 2)}
=============================================================================

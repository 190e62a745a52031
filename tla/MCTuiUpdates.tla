---------------------------- MODULE MCTuiUpdates ----------------------------
(* Small instances of TuiUpdates.                                          *)
EXTENDS TuiUpdates

Operator(keys, patient) == [keys |-> keys, patient |-> patient]

(* One who waits and uses every key, one who presses R and does not wait,  *)
(* one who starts tracepaths without waiting.                              *)
MCOperators == {Operator({"R", "r", "t"}, TRUE), Operator({"R"}, FALSE),
                Operator({"r", "t"}, FALSE)}
=============================================================================

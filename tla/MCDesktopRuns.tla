---------------------------- MODULE MCDesktopRuns ---------------------------
(***************************************************************************)
(* Two runs, a test that needs root and a fuzzing test, so that a run      *)
(* takes the second or, in either order, both, and a channel that the      *)
(* updates of one run overfill.                                            *)
(***************************************************************************)
EXTENDS DesktopRuns

MCTests == <<[category |-> "DNS", requires_root |-> TRUE],
             [category |-> "Fuzzing", requires_root |-> FALSE]>>
MCSelections == {{"DNS", "Fuzzing"}}
=============================================================================

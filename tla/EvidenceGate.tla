---------------------------- MODULE EvidenceGate ----------------------------
(***************************************************************************)
(* What a guarded load phase promises its reader.  Evidence accumulates    *)
(* while the phase runs and until it has settled; it starts out clean and  *)
(* once it is not, it stays so.  A figure may be published only at the end *)
(* and only from clean evidence; withholding it is always allowed.         *)
(***************************************************************************)
VARIABLES
  phase,   \* "idle", "loading", "settling" or "published"
  clean,   \* nothing observed so far speaks against a figure
  figure   \* a figure was published

gate == <<phase, clean, figure>>

GateInit == phase = "idle" /\ clean = TRUE /\ figure = FALSE

Refuse == /\ phase = "idle"
          /\ phase' = "published"
          /\ UNCHANGED <<clean, figure>>

Start == /\ phase = "idle"
         /\ phase' = "loading"
         /\ clean' \in BOOLEAN
         /\ UNCHANGED figure

Observe == /\ phase \in {"loading", "settling"}
           /\ clean' = FALSE
           /\ UNCHANGED <<phase, figure>>

Settle == /\ phase = "loading"
          /\ phase' = "settling"
          /\ UNCHANGED <<clean, figure>>

Publish == /\ phase = "settling"
           /\ phase' = "published"
           /\ clean' \in {clean, FALSE}
           /\ figure' \in {FALSE, clean'}

GateNext == Refuse \/ Start \/ Observe \/ Settle \/ Publish

Spec == GateInit /\ [][GateNext]_gate
=============================================================================

--------------------------- MODULE MCOrchestrator ---------------------------
(* Small instances of Orchestrator for TLC.                                *)
EXTENDS Orchestrator, TLC

CONSTANTS e1, e2

\* A constant-current step and then steps in another mode.
MCModes == [s \in 0..(NSteps - 1) |-> IF s = 0 THEN "cc" ELSE "rest"]

\* One chemistry for all, and a chemistry each.
MCUniform == [e \in Exps |-> "NMC"]
MCMixed == [e \in Exps |-> IF e = e1 THEN "NMC" ELSE "LCO"]
=============================================================================

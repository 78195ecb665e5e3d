------------------------------ MODULE MCChassis ------------------------------
(* Small instances of Chassis for TLC.                                     *)
EXTENDS Chassis

CONSTANTS NMC, LCO, Typo, c1

\* NMC's limit is 4400 mV, LCO's 4350 mV: the lower of the two levels.
MCChemVMax == [k \in Chemistries |-> IF k = LCO THEN 0 ELSE 1]
=============================================================================

---------------------------- MODULE MCCyclerLink ----------------------------
(* Small instances of CyclerLink for TLC.                                  *)
EXTENDS CyclerLink, TLC

CONSTANTS NMC, LCO, Typo, c1

\* A constant-current charge and a constant-current discharge.
MCCommands == {<<"cc", "charge">>, <<"cc", "discharge">>}
\* The chemistries' own limit is the lower level, the command's the higher.
MCChemVMax == [k \in Chemistries |-> 0]
\* So nothing tells the cycler's chemistries apart.
MCChemSymmetry == Permutations(Chemistries)
=============================================================================

----------------------------- MODULE MCChamber -----------------------------
(***************************************************************************)
(* Two chambers, the bench's A and B.  They are used in the same way, but  *)
(* the liveness property rules out symmetry.                               *)
(***************************************************************************)
EXTENDS Chamber
=============================================================================

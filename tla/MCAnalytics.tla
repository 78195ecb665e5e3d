---------------------------- MODULE MCAnalytics ----------------------------
(***************************************************************************)
(* Three cycles of a CC and a CV step.  The resistance jumps               *)
(* by 30 % in the second cycle and drifts by 15 % in the third, which is   *)
(* 50 % above the first.                                                   *)
(***************************************************************************)
EXTENDS Analytics

MCProfile == <<"cc", "cv">>
MCOhm == <<10, 13, 15>>
=============================================================================

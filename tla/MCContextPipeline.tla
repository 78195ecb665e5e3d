------------------------- MODULE MCContextPipeline -------------------------
(* Small instances of ContextPipeline for TLC.                             *)
EXTENDS ContextPipeline

CONSTANTS t1, t2
=============================================================================

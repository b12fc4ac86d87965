-------------------------- MODULE MCInputPipeline --------------------------
(***************************************************************************)
(* Small instances of InputPipeline for TLC.                               *)
(***************************************************************************)
EXTENDS InputPipeline
=============================================================================

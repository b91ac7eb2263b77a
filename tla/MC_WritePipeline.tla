-------------------------- MODULE MC_WritePipeline --------------------------
(* WritePipeline for TLC: the configurations give accounts and bounds.      *)
EXTENDS WritePipeline
=============================================================================

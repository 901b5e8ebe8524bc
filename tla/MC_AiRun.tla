------------------------------ MODULE MC_AiRun ------------------------------
(* AiRun for TLC: one operation of any kind, both output pipes.             *)
EXTENDS AiRun
=============================================================================

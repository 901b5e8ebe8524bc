-------------------------- MODULE MC_StreamPanel --------------------------
(* StreamPanel for TLC: one tab that connects twice.                        *)
EXTENDS StreamPanel
=============================================================================

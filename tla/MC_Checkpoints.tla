--------------------------- MODULE MC_Checkpoints ---------------------------
(* Checkpoints for TLC: the runs differ in who is at work.                  *)
EXTENDS Checkpoints, TLC

\* Turns are told apart by nothing.
Interchangeable == Permutations(Turns)
=============================================================================

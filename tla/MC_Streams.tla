---------------------------- MODULE MC_Streams ----------------------------
(* Streams for TLC: two connections under one id, one sender.               *)
EXTENDS Streams, TLC

Interchangeable == Permutations(Conns)
=============================================================================

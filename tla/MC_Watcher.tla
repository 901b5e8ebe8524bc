---------------------------- MODULE MC_Watcher ----------------------------
(* Watcher for TLC: one repository, three calls that overlap as they like.  *)
EXTENDS Watcher
=============================================================================

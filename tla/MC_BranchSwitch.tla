-------------------------- MODULE MC_BranchSwitch --------------------------
(* BranchSwitch for TLC: two repositories, two checkouts that may overlap.  *)
EXTENDS BranchSwitch, TLC

Interchangeable == Permutations(Repos) \union Permutations(Switches)
=============================================================================

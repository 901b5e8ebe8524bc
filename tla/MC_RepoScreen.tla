--------------------------- MODULE MC_RepoScreen ---------------------------
(* RepoScreen for TLC: two repositories, three operations at once.          *)
EXTENDS RepoScreen, TLC

Interchangeable == Permutations(Repos \ Plain) \cup Permutations(Tasks)
=============================================================================

--------------------------- MODULE MC_EditorTabs ---------------------------
(* EditorTabs for TLC.                                                      *)
EXTENDS EditorTabs, TLC

Interchangeable == Permutations(Projects) \cup Permutations(Paths)
                   \cup Permutations(Texts) \cup Permutations(GroupIds)
=============================================================================

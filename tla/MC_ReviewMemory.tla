---------------------------- MODULE MC_ReviewMemory ----------------------------
\* Model-checking instance of ReviewMemory.  All findings are of one category, so
\* that without a file there is one key they can have.
EXTENDS ReviewMemory, TLC

OneCategory == [k \in Keys |-> CHOOSE c \in Anywhere : TRUE]

Interchangeable == Permutations(Reviews) \cup Permutations(Commits)

=============================================================================

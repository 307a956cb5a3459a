--------------------------- MODULE MCTimelySender ---------------------------
\* Model-checking instances of TimelySender. The liveness run does not use
\* the symmetry.
EXTENDS TimelySender, TLC

Symmetry == Permutations(Batch) \cup Permutations(Worker)

==============================================================================

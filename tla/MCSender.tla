------------------------------ MODULE MCSender ------------------------------
\* Model-checking instances of Sender: symmetry and the bounds of the runs.
EXTENDS Sender, TLC

\* Batches and workers are interchangeable; the safety runs use this.
Symmetry == Permutations(Batch) \cup Permutations(Worker)

==============================================================================

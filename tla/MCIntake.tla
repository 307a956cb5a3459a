------------------------------ MODULE MCIntake ------------------------------
\* Model-checking instances of Intake: an order that is published twice, one of
\* a single transfer, and a message that does not parse.
EXTENDS Intake

CONSTANTS t1, t2, t3, m1, m2, m3, m4

MCTransfersOf ==
  [m \in Msg |-> CASE m \in {m1, m2} -> Transfer \ {t3} [] m = m3 -> {t3} [] OTHER -> {}]

\* The transfers of that order are interchangeable, and so are its messages.
Symmetry == Permutations({t1, t2}) \cup Permutations({m1, m2})

==============================================================================

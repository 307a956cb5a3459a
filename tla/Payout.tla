------------------------------- MODULE Payout -------------------------------
(***************************************************************************)
(* What the sender promises for a batch: it goes out in one transaction at *)
(* most, and the status in the database, once it is final, is the verdict  *)
(* of that transaction and stays.                                          *)
(***************************************************************************)
EXTENDS Naturals

CONSTANT Batch

VARIABLES
  paid,      \* how many transactions sent the transfers of a batch
  failed,    \* how many transactions of a batch aborted
  reported   \* the final status of a batch, "open" before there is one

vars == <<paid, failed, reported>>

Init ==
  /\ paid = [b \in Batch |-> 0]
  /\ failed = [b \in Batch |-> 0]
  /\ reported = [b \in Batch |-> "open"]

Pay(b) ==
  /\ paid[b] + failed[b] = 0
  /\ paid' = [paid EXCEPT ![b] = 1]
  /\ UNCHANGED <<failed, reported>>

Fail(b) ==
  /\ paid[b] + failed[b] = 0
  /\ failed' = [failed EXCEPT ![b] = 1]
  /\ UNCHANGED <<paid, reported>>

Report(b) ==
  /\ reported[b] = "open"
  /\ paid[b] + failed[b] = 1
  /\ reported' = [reported EXCEPT ![b] = IF paid[b] = 1 THEN "success" ELSE "error"]
  /\ UNCHANGED <<paid, failed>>

Next == \E b \in Batch : Pay(b) \/ Fail(b) \/ Report(b)

Spec == Init /\ [][Next]_vars

==============================================================================

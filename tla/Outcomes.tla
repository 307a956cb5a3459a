------------------------------ MODULE Outcomes ------------------------------
(***************************************************************************)
(* What a poll of the notifier can tell of the sender: how many messages a *)
(* batch has, and by which of them it was settled. Module TimelySender     *)
(* implements it, module Notifier builds on it.                            *)
(***************************************************************************)
EXTENDS Naturals

CONSTANTS
  Batch,
  MaxMessages   \* bound: how many messages a batch has

VARIABLES
  status,       \* sender.batch.status from the first message on
  messages,     \* how many messages of a batch are recorded, in their order
  transaction   \* which of them has a transaction, 0 for none

vars == <<status, messages, transaction>>

Init ==
  /\ status = [b \in Batch |-> "processing"]
  /\ messages = [b \in Batch |-> 0]
  /\ transaction = [b \in Batch |-> 0]

\* A worker records a message, the first one or a replacement.
NewMessage(b) ==
  /\ status[b] = "processing"
  /\ messages[b] < MaxMessages
  /\ messages' = [messages EXCEPT ![b] = @ + 1]
  /\ UNCHANGED <<status, transaction>>

\* The scanner records the transaction of a message, not always the latest,
\* and its verdict. The poll sees neither before the status.
Settle(b, m) ==
  /\ status[b] = "processing"
  /\ transaction' = [transaction EXCEPT ![b] = m]
  /\ \E s \in {"success", "error"} : status' = [status EXCEPT ![b] = s]
  /\ UNCHANGED messages

Next ==
  \E b \in Batch : NewMessage(b) \/ \E m \in 1 .. messages[b] : Settle(b, m)

Spec == Init /\ [][Next]_vars

==============================================================================

--------------------------- MODULE NotifierProofs ---------------------------
(***************************************************************************)
(* Proofs about module Notifier, for any batches, orders, limit, number of *)
(* failures and crashes.                                                   *)
(***************************************************************************)
EXTENDS Notifier, TLAPS

LEMMA ResultsType ==
  ASSUME NEW S
  PROVE  Results(S) \subseteq Result
BY DEF Results

LEMMA TypeStep == TypeOK /\ [Next]_vars => TypeOK'
<1> SUFFICES ASSUME TypeOK, [Next]_vars PROVE TypeOK'
  OBVIOUS
<1>1. ASSUME NEW b \in Batch, NewMessage(b) PROVE TypeOK'
  BY <1>1, NotifierAssumption DEF NewMessage, Sender!NewMessage, TypeOK, pollVars
<1>2. ASSUME NEW b \in Batch, NEW m \in 1 .. messages[b], Settle(b, m) PROVE TypeOK'
  <2>1. m \in 0 .. MaxMessages
    BY NotifierAssumption DEF TypeOK
  <2>2. status' \in [Batch -> {"processing", "success", "error"}]
    BY <1>2 DEF Settle, Sender!Settle, TypeOK
  <2> QED BY <1>2, <2>1, <2>2 DEF Settle, Sender!Settle, TypeOK, pollVars
<1>3. CASE Poll
  <2>1. PICK S : Results(S) # {} /\ results' = Results(S)
    BY <1>3 DEF Poll
  <2>2. results' \subseteq Result /\ results' # {} /\ pending' = results' /\ step' = "publish"
    BY <1>3, <2>1, ResultsType DEF Poll
  <2> QED BY <1>3, <2>2 DEF Poll, TypeOK, senderVars
<1>4. ASSUME NEW r \in pending, Publish(r) PROVE TypeOK'
  <2>1. r \in Result
    BY DEF TypeOK
  <2> QED BY <1>4, <2>1 DEF Publish, Fail, TypeOK, senderVars
<1>5. CASE Record
  <2>1. notification' \subseteq Batch
    BY <1>5 DEF Record, TypeOK, Result
  <2>2. failures' \in Nat
    BY <1>5 DEF Record, Fail, TypeOK
  <2> QED BY <1>5, <2>1, <2>2 DEF Record, TypeOK, senderVars
<1>6. CASE Restart
  BY <1>6 DEF Restart, TypeOK, senderVars
<1>7. CASE UNCHANGED vars
  BY <1>7 DEF TypeOK, vars, senderVars, pollVars
<1> QED BY <1>1, <1>2, <1>3, <1>4, <1>5, <1>6, <1>7 DEF Next, Notify

\* Every variable keeps its type, and a round leaves nothing behind.
THEOREM TypeCorrect == Spec => []TypeOK
<1>1. Init => TypeOK
  BY NotifierAssumption DEF Init, Sender!Init, TypeOK
<1> QED BY <1>1, TypeStep, PTL DEF Spec

-----------------------------------------------------------------------------
(***************************************************************************)
(* RecordedWasPublished                                                         *)
(***************************************************************************)

\* A poll returns all orders of a batch, and what is not pending was published.
RoundInv ==
  /\ \A r \in results : \A o \in ordersOf[r.batch] :
       \E s \in results : s.batch = r.batch /\ s.order = o
  /\ results \ pending \subseteq published

LEMMA ResultsComplete ==
  ASSUME NEW S, NEW r \in Results(S), NEW o \in ordersOf[r.batch]
  PROVE  \E s \in Results(S) : s.batch = r.batch /\ s.order = o
<1> DEFINE s == [r EXCEPT !.order = o]
<1>1. r \in Result /\ r.batch \in S /\ r.message = messages[r.batch]
      /\ r.message = transaction[r.batch]
  BY DEF Results
<1>2. o \in Order
  BY <1>1, NotifierAssumption DEF Result
<1>3. s \in Result /\ s.batch = r.batch /\ s.order = o /\ s.message = r.message
  BY <1>1, <1>2 DEF Result
<1>4. s \in Results(S)
  BY <1>1, <1>3 DEF Results
<1> QED BY <1>3, <1>4

LEMMA RoundStep ==
  TypeOK /\ RoundInv /\ RecordedWasPublished /\ [Next]_vars => RoundInv' /\ RecordedWasPublished'
<1> SUFFICES ASSUME TypeOK, RoundInv, RecordedWasPublished, [Next]_vars
             PROVE  RoundInv' /\ RecordedWasPublished'
  OBVIOUS
<1>1. ASSUME notification' = notification, published \subseteq published'
      PROVE  RecordedWasPublished'
  BY <1>1 DEF RecordedWasPublished
<1>2. ASSUME UNCHANGED <<pollVars, notification, published>>
      PROVE  RoundInv' /\ RecordedWasPublished'
  BY <1>1, <1>2 DEF RoundInv, pollVars
<1>3. ASSUME NEW b \in Batch,
             NewMessage(b) \/ \E m \in 1 .. messages[b] : Settle(b, m)
      PROVE  RoundInv' /\ RecordedWasPublished'
  BY <1>2, <1>3 DEF NewMessage, Settle
<1>4. CASE Poll
  <2>1. PICK S : results' = Results(S)
    BY <1>4 DEF Poll
  <2>2. pending' = results' /\ UNCHANGED <<notification, published>>
    BY <1>4 DEF Poll
  <2>3. RoundInv'
    BY <2>1, <2>2, ResultsComplete DEF RoundInv
  <2> QED BY <1>1, <2>2, <2>3
<1>5. ASSUME NEW r \in pending, Publish(r) PROVE RoundInv' /\ RecordedWasPublished'
  <2>1. notification' = notification /\ published \subseteq published'
    BY <1>5 DEF Publish
  <2>2. RoundInv'
    BY <1>5 DEF Publish, RoundInv
  <2> QED BY <1>1, <2>1, <2>2
<1>6. CASE Record
  <2>1. RoundInv'
    BY <1>6 DEF Record, RoundInv
  <2>2. results \subseteq published /\ published' = published
    BY <1>6 DEF Record, RoundInv, TypeOK
  <2>3. \A b \in notification' : b \in notification \/ \E r \in results : b = r.batch
    BY <1>6 DEF Record
  <2>4. RecordedWasPublished'
    <3> SUFFICES ASSUME NEW b \in notification', NEW o \in ordersOf[b]
                 PROVE  \E r \in published' : r.batch = b /\ r.order = o
      BY DEF RecordedWasPublished
    <3>1. CASE b \in notification
      BY <2>2, <3>1 DEF RecordedWasPublished
    <3>2. ASSUME NEW r \in results, b = r.batch
          PROVE  \E s \in published' : s.batch = b /\ s.order = o
      BY <2>2, <3>2 DEF RoundInv
    <3> QED BY <2>3, <3>1, <3>2
  <2> QED BY <2>1, <2>4
<1>7. CASE Restart
  BY <1>1, <1>7 DEF Restart, RoundInv
<1>8. CASE UNCHANGED vars
  BY <1>2, <1>8 DEF vars
<1> QED BY <1>3, <1>4, <1>5, <1>6, <1>7, <1>8 DEF Next, Notify

\* A batch is recorded only after an outcome was published for every order of
\* it, across rounds that failed half way, errors of calls that went through,
\* and crashes.
THEOREM RecordedWasPublishedAlways == Spec => []RecordedWasPublished
<1>1. Init => RoundInv /\ RecordedWasPublished
  BY DEF Init, RoundInv, RecordedWasPublished
<1> QED BY <1>1, RoundStep, TypeCorrect, PTL DEF Spec

-----------------------------------------------------------------------------
(***************************************************************************)
(* PublishedWasPaid                                                             *)
(***************************************************************************)

Paid(r) == status[r.batch] = "success" /\ transaction[r.batch] = r.message

\* What a poll returned stays true while the round publishes it.
PaidInv == \A r \in results \cup published : Paid(r)

LEMMA PaidStep == TypeOK /\ PaidInv /\ [Next]_vars => PaidInv'
<1> SUFFICES ASSUME TypeOK, PaidInv, [Next]_vars PROVE PaidInv'
  OBVIOUS
<1>1. ASSUME UNCHANGED <<status, transaction>>,
             results' \cup published' \subseteq results \cup published
      PROVE  PaidInv'
  BY <1>1 DEF PaidInv, Paid
<1>2. ASSUME NEW b \in Batch, NewMessage(b) PROVE PaidInv'
  BY <1>1, <1>2 DEF NewMessage, Sender!NewMessage, pollVars
<1>3. ASSUME NEW b \in Batch, NEW m \in 1 .. messages[b], Settle(b, m) PROVE PaidInv'
  <2>1. /\ \A c \in Batch : status[c] = "success" =>
                              status'[c] = status[c] /\ transaction'[c] = transaction[c]
        /\ UNCHANGED <<results, published>>
    BY <1>3 DEF Settle, Sender!Settle, TypeOK, pollVars
  <2>2. \A r \in results \cup published : r.batch \in Batch
    BY DEF TypeOK, Result
  <2> QED BY <2>1, <2>2 DEF PaidInv, Paid
<1>4. CASE Poll
  <2>1. PICK S \in SUBSET Due : results' = Results(S)
    BY <1>4 DEF Poll
  <2>2. \A r \in Results(S) : Paid(r)
    BY DEF Results, Due, Paid
  <2>3. UNCHANGED <<status, transaction, published>>
    BY <1>4 DEF Poll, senderVars
  <2> QED BY <2>1, <2>2, <2>3 DEF PaidInv, Paid
<1>5. ASSUME NEW r \in pending, Publish(r) PROVE PaidInv'
  <2>1. r \in results
    BY DEF TypeOK
  <2> QED BY <1>1, <1>5, <2>1 DEF Publish, senderVars
<1>6. CASE Record \/ Restart
  BY <1>1, <1>6 DEF Record, Restart, senderVars
<1>7. CASE UNCHANGED vars
  BY <1>1, <1>7 DEF vars, senderVars, pollVars
<1> QED BY <1>2, <1>3, <1>4, <1>5, <1>6, <1>7 DEF Next, Notify

\* A published outcome names the transaction that paid the batch,
\* whatever the sender writes between the poll and the publication.
THEOREM PublishedWasPaidAlways == Spec => []PublishedWasPaid
<1>1. Init => PaidInv
  BY DEF Init, PaidInv
<1>2. PaidInv => PublishedWasPaid
  BY DEF PaidInv, Paid, PublishedWasPaid
<1> QED BY <1>1, <1>2, PaidStep, TypeCorrect, PTL DEF Spec

=============================================================================

------------------------------ MODULE Notifier ------------------------------
(***************************************************************************)
(* The notifier: it polls the database for batches that were paid,         *)
(* publishes an outcome for each order of theirs and records the batches   *)
(* it has published. The sender is reduced to module Outcomes: a batch may *)
(* have several messages and is settled by one of them, once.              *)
(***************************************************************************)
EXTENDS Naturals, FiniteSets

CONSTANTS
  Batch,
  Order,
  ordersOf,      \* the orders whose transfers a batch holds
  MaxItems,      \* BatchSize of the notifier: limit of batches in a poll
  MaxMessages,   \* bound: how many messages a batch has
  MaxFailures,   \* bound: how many calls return an error
  MaxCrashes     \* bound: how often the process stops

ASSUME NotifierAssumption ==
  /\ ordersOf \in [Batch -> SUBSET Order]
  /\ MaxItems \in Nat \ {0}
  /\ MaxMessages \in Nat
  /\ MaxFailures \in Nat
  /\ MaxCrashes \in Nat

VARIABLES
  \* --- Postgres
  status,        \* sender.batch.status from the first message on
  messages,      \* how many messages of a batch are recorded
  transaction,   \* which of them has a transaction, 0 for none
  notification,  \* sender.notification
  \* --- the notifier
  step,          \* "poll", "publish" or "record"
  results,       \* what the poll returned
  pending,       \* the results it has yet to publish
  \* --- the queue
  published,     \* history: what the channel to the broker accepted
  failures, crashes

senderVars == <<status, messages, transaction>>
pollVars   == <<step, results, pending>>
vars == <<senderVars, notification, pollVars, published, failures, crashes>>

\* The order, and the hash of the transaction of a message of the batch.
Result == [batch : Batch, order : Order, message : 1 .. MaxMessages]

\* What the sender does to the tables.
Sender == INSTANCE Outcomes

Init ==
  /\ Sender!Init
  /\ notification = {} /\ published = {}
  /\ step = "poll" /\ results = {} /\ pending = {}
  /\ failures = 0 /\ crashes = 0

Fail == failures < MaxFailures /\ failures' = failures + 1

------------------------------------------------------------------------------
(***************************************************************************)
(* The sender and the scanner (modules Outcomes, Sender)                   *)
(***************************************************************************)

NewMessage(b) ==
  Sender!NewMessage(b) /\ UNCHANGED <<notification, pollVars, published, failures, crashes>>

Settle(b, m) ==
  Sender!Settle(b, m) /\ UNCHANGED <<notification, pollVars, published, failures, crashes>>

------------------------------------------------------------------------------
(***************************************************************************)
(* The notifier                                                            *)
(***************************************************************************)

\* Faulty form: settled batches, whatever the verdict.
DueWithErrors == {b \in Batch : status[b] \in {"success", "error"} /\ b \notin notification}

\* The first part of GetTransfersBatchResults, before its limit.
Due == {b \in Batch : status[b] = "success" /\ b \notin notification}

\* Faulty form: the wrong sort order, which finds the first message.
ResultsOfFirst(S) ==
  {r \in Result : /\ r.batch \in S
                  /\ r.order \in ordersOf[r.batch]
                  /\ r.message = 1
                  /\ r.message = transaction[r.batch]}

\* The transaction has to be that of the latest message.
Results(S) ==
  {r \in Result : /\ r.batch \in S
                  /\ r.order \in ordersOf[r.batch]
                  /\ r.message = messages[r.batch]
                  /\ r.message = transaction[r.batch]}

\* A poll that finds something. The limit counts batches and takes any.
Poll ==
  /\ step = "poll"
  /\ \E S \in SUBSET Due :
       /\ Cardinality(S) <= MaxItems
       /\ S = Due \/ Cardinality(S) = MaxItems
       /\ Results(S) # {}
       /\ results' = Results(S)
  /\ pending' = results'
  /\ step' = "publish"
  /\ UNCHANGED <<senderVars, notification, published, failures, crashes>>

\* Faulty form: a result that could not be published is passed over.
PublishIgnoringErrors(r) ==
  /\ step = "publish"
  /\ r \in pending
  /\ pending' = pending \ {r}
  /\ step' = IF pending' = {} THEN "record" ELSE "publish"
  /\ \/ published' = published \cup {r} /\ UNCHANGED failures
     \/ Fail /\ UNCHANGED published
  /\ UNCHANGED <<senderVars, notification, results, crashes>>

\* Faulty form: the next round starts with what the failed one left.
PublishKeepingRound(r) ==
  /\ step = "publish"
  /\ r \in pending
  /\ pending' = pending \ {r}
  /\ \/ /\ published' = published \cup {r}
        /\ step' = IF pending' = {} THEN "record" ELSE "publish"
        /\ UNCHANGED failures
     \/ Fail /\ step' = "poll" /\ UNCHANGED published
  /\ UNCHANGED <<senderVars, notification, results, crashes>>

\* The results go out one by one, in any order. An error ends the round, and
\* what was published already is published again by a later one.
Publish(r) ==
  /\ step = "publish"
  /\ r \in pending
  /\ \/ /\ published' = published \cup {r}
        /\ pending' = pending \ {r}
        /\ step' = IF pending' = {} THEN "record" ELSE "publish"
        /\ UNCHANGED <<results, failures>>
     \/ /\ Fail
        /\ published' \in {published, published \cup {r}}
        /\ step' = "poll" /\ results' = {} /\ pending' = {}
  /\ UNCHANGED <<senderVars, notification, crashes>>

\* Two results of one batch: the INSERT would affect its row twice.
TwoOrders == \E r, s \in results : r.batch = s.batch /\ r # s

\* PersistProcessedBatchResults. An error is only logged.
Record ==
  LET done == {r.batch : r \in results} IN
  /\ step = "record"
  /\ \/ /\ ~TwoOrders
        /\ notification' = notification \cup done
        /\ UNCHANGED failures
     \/ /\ TwoOrders
        /\ UNCHANGED <<notification, failures>>
     \/ /\ Fail
        /\ notification' \in {notification} \cup
             (IF TwoOrders THEN {} ELSE {notification \cup done})
  /\ step' = "poll" /\ results' = {} /\ pending' = {}
  /\ UNCHANGED <<senderVars, published, crashes>>

\* The process stops and starts again.
Restart ==
  /\ crashes < MaxCrashes
  /\ crashes' = crashes + 1
  /\ step' = "poll" /\ results' = {} /\ pending' = {}
  /\ UNCHANGED <<senderVars, notification, published, failures>>

------------------------------------------------------------------------------

Notify == Poll \/ (\E r \in pending : Publish(r)) \/ Record

Next ==
  \/ \E b \in Batch : NewMessage(b) \/ \E m \in 1 .. messages[b] : Settle(b, m)
  \/ Notify \/ Restart

\* The notifier polls once a second as long as the process lives.
Spec == Init /\ [][Next]_vars /\ WF_vars(Notify)

------------------------------------------------------------------------------

\* Type invariant. A round ends with nothing left of it.
TypeOK ==
  /\ status \in [Batch -> {"processing", "success", "error"}]
  /\ messages \in [Batch -> 0 .. MaxMessages]
  /\ transaction \in [Batch -> 0 .. MaxMessages]
  /\ notification \subseteq Batch
  /\ step \in {"poll", "publish", "record"}
  /\ results \subseteq Result /\ (results = {} <=> step = "poll")
  /\ pending \subseteq results /\ (pending = {} <=> step # "publish")
  /\ published \subseteq Result
  /\ failures \in Nat /\ crashes \in Nat

\* A batch is recorded only after an outcome was published for every order of
\* it, across rounds that failed half way and crashes.
RecordedWasPublished ==
  \A b \in notification : \A o \in ordersOf[b] :
    \E r \in published : r.batch = b /\ r.order = o

\* A published outcome names a transaction that paid the batch, also
\* when the sender adds messages or settles batches between poll and publish.
PublishedWasPaid ==
  \A r \in published : status[r.batch] = "success" /\ transaction[r.batch] = r.message

\* Batches that were paid by another message than their latest.
Overtaken == {b \in Due : transaction[b] # messages[b]}

\* A paid batch is recorded, so that its notifications end, unless polls are
\* blocked: by a paid batch with two orders, whose rows the INSERT refuses, or
\* by MaxItems batches that were overtaken.
EventuallyRecorded ==
  \A b \in Batch :
    b \in Due /\ ordersOf[b] # {} ~>
      \/ b \in notification
      \/ b \in Overtaken \/ Cardinality(Overtaken) >= MaxItems
      \/ \E d \in Due : \E o, p \in ordersOf[d] : o # p

==============================================================================

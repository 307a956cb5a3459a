---------------------------- MODULE SenderProofs ----------------------------
(***************************************************************************)
(* Theorems about the sender, for any number of batches, workers, starts   *)
(* and ids, any channel capacity and any TTL.                              *)
(***************************************************************************)
EXTENDS Sender, TLAPS

\* The part of the type invariant about the workers.
WorkerOK ==
  /\ worker \in [Worker -> [step : WorkerStep, msg : Message \cup {NoMsg}]]
  /\ \A w \in Worker : worker[w].step # "idle" => worker[w].msg \in Message

\* What becomes of it when a worker moves on with a message, or drops it.
LEMMA GotoType ==
  ASSUME WorkerOK, NEW w \in Worker, NEW step \in WorkerStep, NEW m \in Message,
         Goto(w, step, m)
  PROVE  WorkerOK'
<1> DEFINE new == [step |-> step, msg |-> m]
<1>1. new \in [step : WorkerStep, msg : Message \cup {NoMsg}]
  OBVIOUS
<1>2. worker' = [worker EXCEPT ![w] = new]
  BY DEF Goto
<1>3. worker' \in [Worker -> [step : WorkerStep, msg : Message \cup {NoMsg}]]
  BY <1>1, <1>2 DEF WorkerOK
<1>4. ASSUME NEW v \in Worker, worker'[v].step # "idle"
      PROVE  worker'[v].msg \in Message
  <2>1. CASE v = w
    BY <2>1, <1>2 DEF WorkerOK
  <2>2. CASE v # w
    BY <2>2, <1>2, <1>4 DEF WorkerOK
  <2> QED BY <2>1, <2>2
<1> QED BY <1>3, <1>4 DEF WorkerOK

LEMMA IdleType == Idle \in [step : WorkerStep, msg : Message \cup {NoMsg}]
BY DEF Idle, WorkerStep

LEMMA DropType ==
  ASSUME WorkerOK, NEW w \in Worker, Drop(w)
  PROVE  WorkerOK'
<1>1. worker' = [worker EXCEPT ![w] = Idle]
  BY DEF Drop
<1>2. worker' \in [Worker -> [step : WorkerStep, msg : Message \cup {NoMsg}]]
  BY <1>1, IdleType DEF WorkerOK
<1>3. ASSUME NEW v \in Worker, worker'[v].step # "idle"
      PROVE  worker'[v].msg \in Message
  <2>1. v # w
    BY <1>1, <1>3 DEF WorkerOK, Idle
  <2> QED BY <2>1, <1>1, <1>3 DEF WorkerOK
<1> QED BY <1>2, <1>3 DEF WorkerOK

LEMMA AllIdleType ==
  ASSUME worker = [w \in Worker |-> Idle]
  PROVE  WorkerOK
<1>1. worker \in [Worker -> [step : WorkerStep, msg : Message \cup {NoMsg}]]
  BY IdleType
<1>2. \A w \in Worker : worker[w].step = "idle"
  BY DEF Idle
<1> QED BY <1>1, <1>2 DEF WorkerOK

LEMMA TypeInit == Init => TypeOK
<1> SUFFICES ASSUME Init PROVE TypeOK
  OBVIOUS
<1>1. WorkerOK
  BY AllIdleType DEF Init
<1>2. batches \in Seq(Batch) /\ Len(batches) <= ParallelBatches
  BY SenderAssumption DEF Init
<1>3. ledger \in Seq(Transaction)
  BY DEF Init
<1>4. boot \in 1 .. MaxBoots
  BY SenderAssumption DEF Init
<1>5. batchStatus \in [Batch -> BatchStatus] /\ transferStatus \in [Batch -> TransferStatus]
  BY DEF Init, BatchStatus, TransferStatus
<1> QED BY <1>1, <1>2, <1>3, <1>4, <1>5 DEF Init, TypeOK, WorkerOK

LEMMA TypeLoops == TypeOK /\ Loops => TypeOK'
<1> SUFFICES ASSUME TypeOK, Loops PROVE TypeOK'
  OBVIOUS
<1> USE SenderAssumption DEF TypeOK, BatchStatus, TransferStatus,
                             workVars, scanVars, chainVars, dbVars
<1>1. ASSUME NEW b \in Batch, NextBatch(b) PROVE TypeOK'
  BY <1>1 DEF NextBatch
<1>2. ASSUME NEW b \in Batch, PushBatch(b) PROVE TypeOK'
  BY <1>2 DEF PushBatch, Push
<1>3. ASSUME NEW b \in Batch, BackfillPush(b) PROVE TypeOK'
  BY <1>3 DEF BackfillPush, Push
<1>4. ASSUME NEW b \in Batch, RebatchPush(b) PROVE TypeOK'
  BY <1>4 DEF RebatchPush, Push
<1>5. CASE BackfillRead
  BY <1>5 DEF BackfillRead
<1>6. CASE RebatchRead
  BY <1>6 DEF RebatchRead, ExpiredBatches
<1>7. CASE RebatchFails
  BY <1>7 DEF RebatchFails
<1> QED BY <1>1, <1>2, <1>3, <1>4, <1>5, <1>6, <1>7 DEF Loops

LEMMA TypeWorkers == TypeOK /\ Workers => TypeOK'
<1> SUFFICES ASSUME TypeOK, NEW w \in Worker,
                    \/ Receive(w) \/ Stamp(w) \/ TakeQueryId(w)
                    \/ MarkProcessing(w) \/ PersistExternalMessage(w) \/ Send(w)
             PROVE TypeOK'
  BY DEF Workers
<1> DEFINE m == worker[w].msg
<1>a. WorkerOK
  BY DEF TypeOK, WorkerOK
<1>b. worker[w].step # "idle" => m \in Message
  BY DEF TypeOK
<1>c. {"stamp", "number", "mark", "insert", "send"} \subseteq WorkerStep
  BY DEF WorkerStep
<1> USE DEF pushVars, workVars, scanVars, chainVars, dbVars
<1>1. CASE Receive(w)
  <2>1. Head(batches) \in Batch /\ Tail(batches) \in Seq(Batch)
        /\ Len(Tail(batches)) <= ParallelBatches
    BY <1>1, SenderAssumption DEF Receive, TypeOK
  <2>2. [batch |-> Head(batches), query_id |-> 0, created_at |-> 0, boot |-> boot]
          \in Message
    BY <2>1 DEF Message, TypeOK
  <2>3. WorkerOK'
    BY <1>1, <1>a, <1>c, <2>2, GotoType DEF Receive, WorkerOK
  <2> QED BY <1>1, <2>1, <2>3 DEF Receive, TypeOK, WorkerOK
<1>2. CASE Stamp(w)
  <2>1. [m EXCEPT !.created_at = now] \in Message
    BY <1>2, <1>b DEF Stamp, Message, TypeOK
  <2>2. WorkerOK'
    BY <1>2, <1>a, <1>c, <2>1, GotoType, DropType DEF Stamp
  <2> QED BY <1>2, <2>2 DEF Stamp, TypeOK, WorkerOK
<1>3. CASE TakeQueryId(w)
  <2>1. m \in Message /\ queryID \in Nat /\ queryID + 1 \in Nat
    BY <1>3, <1>b DEF TakeQueryId, TypeOK
  <2>2. [m EXCEPT !.query_id = queryID + 1] \in Message
    BY <2>1 DEF Message
  <2>3. WorkerOK'
    BY <1>3, <1>a, <1>c, <2>2, GotoType, DropType DEF TakeQueryId
  <2>4. queryID' \in Nat
    BY <1>3, <2>1 DEF TakeQueryId
  <2> QED BY <1>3, <2>3, <2>4 DEF TakeQueryId, TypeOK, WorkerOK
<1>4. CASE MarkProcessing(w)
  <2>1. WorkerOK'
    BY <1>4, <1>a, <1>b, <1>c, GotoType, DropType DEF MarkProcessing
  <2>2. batchStatus' \in [Batch -> BatchStatus]
    BY <1>4 DEF MarkProcessing, TypeOK, BatchStatus
  <2> QED BY <1>4, <2>1, <2>2 DEF MarkProcessing, TypeOK, WorkerOK
<1>5. CASE PersistExternalMessage(w)
  <2>1. WorkerOK'
    BY <1>5, <1>a, <1>b, <1>c, GotoType, DropType DEF PersistExternalMessage
  <2>2. externalMessage' \subseteq Message
    BY <1>5, <1>b DEF PersistExternalMessage, TypeOK
  <2> QED BY <1>5, <2>1, <2>2 DEF PersistExternalMessage, TypeOK, WorkerOK
<1>6. CASE Send(w)
  <2>1. WorkerOK'
    BY <1>6, <1>a, DropType DEF Send
  <2>2. pool' \subseteq Message /\ lost' \in Nat
    BY <1>6, <1>b DEF Send, TypeOK
  <2> QED BY <1>6, <2>1, <2>2 DEF Send, TypeOK, WorkerOK
<1> QED BY <1>1, <1>2, <1>3, <1>4, <1>5, <1>6

LEMMA TypeScanner == TypeOK /\ Scanner => TypeOK'
<1> SUFFICES ASSUME TypeOK, Scanner PROVE TypeOK'
  OBVIOUS
<1> USE DEF TypeOK, pushVars, workVars, scanVars, chainVars, dbVars
<1>1. CASE ScanSkip
  BY <1>1 DEF ScanSkip
<1>2. CASE ScanInsert
  BY <1>2 DEF ScanInsert
<1>3. CASE ScanUpdate
  BY <1>3 DEF ScanUpdate, UpdateBatch, BatchStatus, TransferStatus
<1>4. CASE ScanAdvance
  BY <1>4 DEF ScanAdvance
<1> QED BY <1>1, <1>2, <1>3, <1>4 DEF Scanner

LEMMA TypeRestart == TypeOK /\ Restart => TypeOK'
<1> SUFFICES ASSUME TypeOK, Restart PROVE TypeOK'
  OBVIOUS
<1>1. LastQueryIDs \subseteq Nat
  BY DEF TypeOK, LastQueryIDs, Message
<1>2. worker' \in [Worker -> [step : WorkerStep, msg : Message \cup {NoMsg}]]
  BY IdleType DEF Restart
<1>3. \A w \in Worker : worker'[w].step = "idle"
  BY DEF Restart, Idle
<1>4. batches' \in Seq(Batch) /\ Len(batches') <= ParallelBatches
  BY SenderAssumption DEF Restart
<1>5. boot' \in 1 .. MaxBoots
  BY SenderAssumption DEF TypeOK, Restart
<1>6. queryID' \in Nat /\ scanned' \in Nat
  BY <1>1 DEF TypeOK, Restart
<1> QED BY <1>2, <1>3, <1>4, <1>5, <1>6 DEF TypeOK, Restart, dbVars, chainVars

LEMMA TypeChain == TypeOK /\ Chain => TypeOK'
<1> SUFFICES ASSUME TypeOK, Chain PROVE TypeOK'
  OBVIOUS
<1> USE DEF TypeOK, pushVars, workVars, scanVars, dbVars
<1>1. ASSUME NEW m \in pool, Execute(m) PROVE TypeOK'
  BY <1>1 DEF Execute, Transaction
<1>2. ASSUME NEW m \in pool, Reject(m) PROVE TypeOK'
  BY <1>2 DEF Reject
<1>3. ASSUME NEW m \in pool, Lose(m) PROVE TypeOK'
  BY <1>3 DEF Lose
<1>4. CASE OtherTx
  BY <1>4 DEF OtherTx, Transaction
<1>5. CASE Tick
  BY <1>5 DEF Tick
<1> QED BY <1>1, <1>2, <1>3, <1>4, <1>5 DEF Chain

\* Every variable keeps its type, and the channel its capacity.
THEOREM TypeCorrect == Spec => []TypeOK
<1>1. TypeOK /\ UNCHANGED vars => TypeOK'
  BY DEF TypeOK, vars, dbVars, pushVars, workVars, scanVars, chainVars
<1>2. TypeOK /\ [Next]_vars => TypeOK'
  BY <1>1, TypeLoops, TypeWorkers, TypeScanner, TypeRestart, TypeChain DEF Next
<1> QED BY TypeInit, <1>2, PTL DEF Spec

-----------------------------------------------------------------------------
(***************************************************************************)
(* RecordedBeforeSent                                                      *)
(***************************************************************************)

\* Inductive: a worker about to send has recorded its message.
RecordedInv ==
  /\ RecordedBeforeSent
  /\ \A w \in Worker : worker[w].step = "send" => worker[w].msg \in externalMessage

LEMMA MessageTxType ==
  ASSUME TypeOK, NEW i \in MessageTx
  PROVE  /\ i \in Nat /\ i >= 1 /\ i <= Len(ledger)
         /\ ledger[i].msg \in Message
         /\ ledger[i].msg.batch \in Batch
         /\ ledger[i].success \in BOOLEAN
<1>1. ledger \in Seq(Transaction) /\ Len(ledger) \in Nat /\ DOMAIN ledger = 1 .. Len(ledger)
  BY DEF TypeOK
<1>2. i \in 1 .. Len(ledger) /\ ledger[i].msg # NoMsg
  BY <1>1 DEF MessageTx
<1>3. ledger[i] \in Transaction
  BY <1>1, <1>2
<1>4. ledger[i].msg \in Message /\ ledger[i].success \in BOOLEAN
  BY <1>2, <1>3 DEF Transaction
<1> QED BY <1>1, <1>2, <1>4 DEF Message

\* The transactions of messages after one more transaction.
LEMMA AppendMessageTx ==
  ASSUME TypeOK, NEW tx \in Transaction, ledger' = Append(ledger, tx)
  PROVE  /\ DOMAIN ledger = 1 .. Len(ledger)
         /\ DOMAIN ledger' = 1 .. Len(ledger) + 1
         /\ Len(ledger') = Len(ledger) + 1
         /\ \A i \in DOMAIN ledger : ledger'[i] = ledger[i]
         /\ ledger'[Len(ledger) + 1] = tx
         /\ MessageTx' = MessageTx \cup
                           (IF tx.msg # NoMsg THEN {Len(ledger) + 1} ELSE {})
<1>1. ledger \in Seq(Transaction) /\ Len(ledger) \in Nat
  BY DEF TypeOK
<1>2. /\ DOMAIN ledger = 1 .. Len(ledger)
      /\ DOMAIN ledger' = 1 .. Len(ledger) + 1
      /\ Len(ledger') = Len(ledger) + 1
      /\ \A i \in 1 .. Len(ledger) : ledger'[i] = ledger[i]
      /\ ledger'[Len(ledger) + 1] = tx
  BY <1>1
<1>3. 1 .. Len(ledger) + 1 = (1 .. Len(ledger)) \cup {Len(ledger) + 1}
  BY <1>1
<1> QED BY <1>1, <1>2, <1>3 DEF MessageTx

LEMMA RecordedStep == TypeOK /\ RecordedInv /\ [Next]_vars => RecordedInv'
<1> SUFFICES ASSUME TypeOK, RecordedInv, [Next]_vars PROVE RecordedInv'
  OBVIOUS
<1>0. worker \in [Worker -> [step : WorkerStep, msg : Message \cup {NoMsg}]]
  BY DEF TypeOK
<1>1. CASE UNCHANGED <<pool, ledger, externalMessage, worker>>
  BY <1>1 DEF RecordedInv, RecordedBeforeSent, MessageTx
<1>2. CASE Loops
  BY <1>1, <1>2 DEF Loops, NextBatch, PushBatch, BackfillPush, RebatchPush,
                    BackfillRead, RebatchRead, RebatchFails, dbVars, workVars, chainVars
<1>3. CASE Scanner
  BY <1>1, <1>3 DEF Scanner, ScanSkip, ScanInsert, ScanUpdate, ScanAdvance,
                    dbVars, workVars, chainVars
<1>4. ASSUME NEW w \in Worker,
             Receive(w) \/ Stamp(w) \/ TakeQueryId(w) \/ MarkProcessing(w)
      PROVE  RecordedInv'
  <2>1. UNCHANGED <<pool, ledger, externalMessage>>
    BY <1>4 DEF Receive, Stamp, TakeQueryId, MarkProcessing, dbVars, chainVars
  <2>2. \A v \in Worker : worker'[v].step = "send" => worker'[v] = worker[v]
    BY <1>0, <1>4 DEF Receive, Stamp, TakeQueryId, MarkProcessing, Goto, Drop, Idle
  <2> QED BY <2>1, <2>2 DEF RecordedInv, RecordedBeforeSent, MessageTx
<1>5. ASSUME NEW w \in Worker, PersistExternalMessage(w) PROVE RecordedInv'
  <2>1. UNCHANGED <<pool, ledger>> /\ externalMessage \subseteq externalMessage'
    BY <1>5 DEF PersistExternalMessage, chainVars
  <2>2. \A v \in Worker : worker'[v].step = "send" =>
          worker'[v] = worker[v] \/ worker'[v].msg \in externalMessage'
    BY <1>0, <1>5 DEF PersistExternalMessage, Goto, Drop, Idle
  <2> QED BY <2>1, <2>2 DEF RecordedInv, RecordedBeforeSent, MessageTx
<1>6. ASSUME NEW w \in Worker, Send(w) PROVE RecordedInv'
  <2>1. UNCHANGED <<ledger, externalMessage>> /\ pool' \subseteq pool \cup {worker[w].msg}
    BY <1>6 DEF Send, dbVars
  <2>2. worker[w].msg \in externalMessage
    BY <1>6 DEF Send, RecordedInv
  <2>3. \A v \in Worker : worker'[v].step = "send" => worker'[v] = worker[v]
    BY <1>0, <1>6 DEF Send, Drop, Idle
  <2> QED BY <2>1, <2>2, <2>3 DEF RecordedInv, RecordedBeforeSent, MessageTx
<1>7. CASE Restart
  <2>1. UNCHANGED <<pool, ledger, externalMessage>>
    BY <1>7 DEF Restart, dbVars, chainVars
  <2>2. \A v \in Worker : worker'[v].step = "idle"
    BY <1>7 DEF Restart, Idle
  <2> QED BY <2>1, <2>2 DEF RecordedInv, RecordedBeforeSent, MessageTx
<1>8. ASSUME NEW m \in pool, Execute(m) PROVE RecordedInv'
  <2>1. PICK success \in BOOLEAN : ledger' = Append(ledger, [msg |-> m, success |-> success])
    BY <1>8 DEF Execute
  <2>2. [msg |-> m, success |-> success] \in Transaction
    BY DEF TypeOK, Transaction
  <2>3. \A i \in MessageTx' : ledger'[i].msg \in externalMessage
    BY <2>1, <2>2, AppendMessageTx DEF RecordedInv, RecordedBeforeSent, MessageTx
  <2> QED BY <1>8, <2>3 DEF Execute, RecordedInv, RecordedBeforeSent, dbVars, workVars
<1>9. CASE OtherTx
  <2>1. [msg |-> NoMsg, success |-> TRUE] \in Transaction
    BY DEF Transaction
  <2>2. \A i \in MessageTx' : ledger'[i].msg \in externalMessage
    BY <1>9, <2>1, AppendMessageTx DEF OtherTx, RecordedInv, RecordedBeforeSent, MessageTx
  <2> QED BY <1>9, <2>2 DEF OtherTx, RecordedInv, RecordedBeforeSent, dbVars, workVars
<1>10. CASE Tick \/ \E m \in pool : Reject(m) \/ Lose(m)
  BY <1>10 DEF Tick, Reject, Lose, RecordedInv, RecordedBeforeSent, MessageTx,
               dbVars, workVars
<1> QED BY <1>1, <1>2, <1>3, <1>4, <1>5, <1>6, <1>7, <1>8, <1>9, <1>10
        DEF Next, Workers, Chain, vars, dbVars, workVars, chainVars

LEMMA RecordedInvAlways == Spec => []RecordedInv
<1>1. Init => RecordedInv
  BY DEF Init, RecordedInv, RecordedBeforeSent, MessageTx, Idle
<1> QED BY <1>1, RecordedStep, TypeCorrect, PTL DEF Spec

\* No message reaches the network, and none is executed, unless its row is in
\* the database: neither a failing call nor a crash can leave a payment that
\* the scanner cannot assign to its batch.
THEOREM RecordedBeforeSentAlways == Spec => []RecordedBeforeSent
<1>1. RecordedInv => RecordedBeforeSent
  BY DEF RecordedInv
<1> QED BY <1>1, RecordedInvAlways, PTL

-----------------------------------------------------------------------------
(***************************************************************************)
(* ResubmitOnlyDead                                                        *)
(***************************************************************************)

\* The wait of another TTL after the expiry is what makes a resubmission safe.
LEMMA ResubmittableIsDead ==
  ASSUME TypeOK, NEW m \in externalMessage, Resubmittable(m, now)
  PROVE  ~Acceptable(m, now)
<1>1. m.created_at \in Nat /\ now \in Nat
  BY DEF TypeOK, Message
<1> QED BY <1>1, SenderAssumption DEF Resubmittable, Acceptable, ExpiredAt

\* rebatchExpired takes a batch only when none of its recorded messages can be
\* executed any more, for every TTL and every ClockSkew up to the TTL.
THEOREM ResubmitOnlyDeadAlways == Spec => ResubmitOnlyDead
<1> DEFINE Dead == \A b \in rebatchList' \ rebatchList :
                     \A m \in externalMessage : m.batch = b => ~Acceptable(m, now)
<1>1. TypeOK /\ [Next]_vars => [Dead]_vars
  <2> SUFFICES ASSUME TypeOK, Next PROVE Dead
    BY DEF vars
  <2>1. CASE rebatchList' \subseteq rebatchList
    BY <2>1
  <2>2. CASE RebatchRead
    BY <2>2, ResubmittableIsDead DEF RebatchRead, ExpiredBatches
  <2>3. CASE Loops
    BY <2>1, <2>2, <2>3 DEF Loops, NextBatch, PushBatch, BackfillPush, RebatchPush,
                            BackfillRead, RebatchFails
  <2>4. CASE Workers
    BY <2>1, <2>4 DEF Workers, Receive, Stamp, TakeQueryId, MarkProcessing,
                      PersistExternalMessage, Send, pushVars
  <2>5. CASE Scanner
    BY <2>1, <2>5 DEF Scanner, ScanSkip, ScanInsert, ScanUpdate, ScanAdvance, pushVars
  <2>6. CASE Chain
    BY <2>1, <2>6 DEF Chain, Execute, Reject, Lose, OtherTx, Tick, pushVars
  <2>7. CASE Restart
    BY <2>1, <2>7 DEF Restart
  <2> QED BY <2>2, <2>3, <2>4, <2>5, <2>6, <2>7 DEF Next
<1> QED BY <1>1, TypeCorrect, PTL DEF Spec, ResubmitOnlyDead

-----------------------------------------------------------------------------
(***************************************************************************)
(* NothingSkipped and StatusHasTransaction                                 *)
(***************************************************************************)

HasOutcome(i) == transferStatus[ledger[i].msg.batch] \in {"success", "error"}

\* Inductive: the scanner's position, its saved progress and its next
\* statement agree, and NextBatch does not touch the transfers of a batch that
\* has an outcome.
ScanInv ==
  /\ lastProcessedLt <= scanned /\ scanned <= Len(ledger)
  /\ scanStep # "wait" => scanned + 1 \in MessageTx /\ scanned + 1 \in transaction
  /\ scanStep = "advance" => HasOutcome(scanned + 1)
  /\ \A i \in MessageTx : i <= scanned => i \in transaction /\ HasOutcome(i)
  /\ \A b \in Batch : batchStatus[b] = "none" => transferStatus[b] = "new"
  /\ StatusHasTransaction

scanInvVars == <<lastProcessedLt, scanned, scanStep, ledger, transaction,
                 transferStatus, batchStatus>>

LEMMA ScanInvInit == Init => ScanInv
BY DEF Init, ScanInv, MessageTx, StatusHasTransaction

LEMMA ScanInvUnchanged == ScanInv /\ UNCHANGED scanInvVars => ScanInv'
BY DEF ScanInv, scanInvVars, MessageTx, HasOutcome, StatusHasTransaction

LEMMA ScanInvNextBatch ==
  ASSUME TypeOK, ScanInv, NEW b \in Batch, NextBatch(b) PROVE ScanInv'
<1>1. UNCHANGED <<lastProcessedLt, scanned, scanStep, ledger, transaction>>
  BY DEF NextBatch, scanVars, chainVars
<1>2. /\ transferStatus[b] = "new"
      /\ \A c \in Batch : /\ c # b => /\ transferStatus'[c] = transferStatus[c]
                                       /\ batchStatus'[c] = batchStatus[c]
                          /\ c = b => transferStatus'[c] = "batched" /\ batchStatus'[c] = "new"
  BY DEF TypeOK, ScanInv, NextBatch
<1>3. MessageTx' = MessageTx
  BY <1>1 DEF MessageTx
<1>4. \A i \in MessageTx : ledger[i].msg.batch \in Batch
  BY MessageTxType
<1>5. \A i \in MessageTx : HasOutcome(i) => HasOutcome(i)'
  BY <1>1, <1>2, <1>4 DEF HasOutcome
<1>6. StatusHasTransaction'
  BY <1>1, <1>2, <1>3 DEF ScanInv, StatusHasTransaction
<1> QED BY <1>1, <1>2, <1>3, <1>5, <1>6 DEF ScanInv

LEMMA ScanInvMark ==
  ASSUME TypeOK, ScanInv, NEW w \in Worker, MarkProcessing(w) PROVE ScanInv'
<1>1. UNCHANGED <<lastProcessedLt, scanned, scanStep, ledger, transaction, transferStatus>>
  BY DEF MarkProcessing, scanVars, chainVars
<1>2. \A c \in Batch : batchStatus'[c] \in {batchStatus[c], "processing"}
  BY DEF TypeOK, MarkProcessing
<1>3. MessageTx' = MessageTx
  BY <1>1 DEF MessageTx
<1>4. \A i \in MessageTx : HasOutcome(i) => HasOutcome(i)'
  BY <1>1 DEF HasOutcome
<1>5. StatusHasTransaction'
  BY <1>1, <1>2, <1>3 DEF ScanInv, StatusHasTransaction
<1> QED BY <1>1, <1>2, <1>3, <1>4, <1>5 DEF ScanInv, HasOutcome

\* What updateBatch does to the batch of a message, and to every other one.
LEMMA UpdateBatchSettles ==
  ASSUME TypeOK, NEW m \in Message, NEW success \in BOOLEAN, UpdateBatch(m, success)
  PROVE  \E status \in {"success", "error"} :
           /\ status = IF success THEN "success" ELSE "error"
           /\ transferStatus'[m.batch] = status /\ batchStatus'[m.batch] = status
           /\ \A b \in Batch \ {m.batch} : /\ transferStatus'[b] = transferStatus[b]
                                          /\ batchStatus'[b] = batchStatus[b]
<1>1. m.batch \in Batch
  BY DEF Message
<1>2. batchStatus \in [Batch -> BatchStatus] /\ transferStatus \in [Batch -> TransferStatus]
  BY DEF TypeOK
<1> QED BY <1>1, <1>2 DEF UpdateBatch

LEMMA ScanInvScanner ==
  ASSUME TypeOK, ScanInv, Scanner PROVE ScanInv'
<1>1. scanned \in Nat /\ Len(ledger) \in Nat /\ DOMAIN ledger = 1 .. Len(ledger)
  BY DEF TypeOK
<1>2. ledger' = ledger /\ MessageTx' = MessageTx
  BY DEF Scanner, ScanSkip, ScanInsert, ScanUpdate, ScanAdvance, chainVars, MessageTx
<1>3. MessageTx \subseteq 1 .. Len(ledger)
  BY <1>1 DEF MessageTx
<1>4. CASE ScanSkip
  <2>1. UNCHANGED <<lastProcessedLt, scanStep, transaction, transferStatus, batchStatus>>
    BY <1>4 DEF ScanSkip, dbVars
  <2>2. scanned + 1 \notin MessageTx
    BY <1>4 DEF ScanSkip, MessageTx, Tx
  <2>3. \A i \in MessageTx : i <= scanned' => i <= scanned
    BY <1>1, <1>3, <1>4, <2>2 DEF ScanSkip
  <2>4. lastProcessedLt <= scanned' /\ scanned' <= Len(ledger) /\ scanStep' = "wait"
    BY <1>1, <1>4 DEF ScanSkip, ScanInv, HasTx, TypeOK
  <2> QED BY <1>2, <2>1, <2>3, <2>4 DEF ScanInv, HasOutcome, StatusHasTransaction
<1>5. CASE ScanInsert
  <2>1. UNCHANGED <<lastProcessedLt, scanned, transferStatus, batchStatus>>
        /\ scanStep' = "update" /\ transaction' = transaction \cup {scanned + 1}
    BY <1>5 DEF ScanInsert, chainVars
  <2>2. scanned + 1 \in MessageTx
    BY <1>1, <1>5 DEF ScanInsert, MessageTx, Tx, HasTx
  <2> QED BY <1>2, <2>1, <2>2 DEF ScanInv, HasOutcome, StatusHasTransaction
<1>6. CASE ScanUpdate
  <2>1. UNCHANGED <<lastProcessedLt, scanned, transaction>> /\ scanStep' = "advance"
    BY <1>6 DEF ScanUpdate, chainVars
  <2>2. scanned + 1 \in MessageTx /\ scanned + 1 \in transaction
    BY <1>6 DEF ScanUpdate, ScanInv
  <2>3. Tx.msg \in Message /\ Tx.msg.batch \in Batch /\ Tx.success \in BOOLEAN
    BY <2>2, MessageTxType DEF Tx
  <2>4. PICK status \in {"success", "error"} :
          /\ status = IF Tx.success THEN "success" ELSE "error"
          /\ transferStatus'[Tx.msg.batch] = status /\ batchStatus'[Tx.msg.batch] = status
          /\ \A b \in Batch \ {Tx.msg.batch} : /\ transferStatus'[b] = transferStatus[b]
                                              /\ batchStatus'[b] = batchStatus[b]
    BY <1>6, <2>3, UpdateBatchSettles DEF ScanUpdate
  <2>5. \A i \in MessageTx : ledger[i].msg.batch \in Batch
    BY MessageTxType
  <2>6. \A i \in MessageTx : HasOutcome(i) => HasOutcome(i)'
    <3> SUFFICES ASSUME NEW i \in MessageTx, HasOutcome(i) PROVE HasOutcome(i)'
      OBVIOUS
    <3>1. CASE ledger[i].msg.batch = Tx.msg.batch
      BY <1>2, <2>4, <3>1 DEF HasOutcome
    <3>2. CASE ledger[i].msg.batch # Tx.msg.batch
      BY <1>2, <2>4, <2>5, <3>2 DEF HasOutcome
    <3> QED BY <3>1, <3>2
  <2>7. HasOutcome(scanned + 1)'
    BY <1>2, <2>1, <2>4 DEF HasOutcome, Tx
  <2>8. StatusHasTransaction'
    <3> SUFFICES ASSUME NEW b \in Batch, NEW success \in BOOLEAN,
                        (IF success THEN "success" ELSE "error")
                          \in {batchStatus'[b], transferStatus'[b]}
                 PROVE  \E i \in MessageTx : /\ ledger[i].msg.batch = b
                                             /\ ledger[i].success = success
      BY <1>2 DEF StatusHasTransaction
    <3>1. CASE b = Tx.msg.batch
      <4>1. (IF success THEN "success" ELSE "error") = IF Tx.success THEN "success" ELSE "error"
        BY <2>4, <3>1
      <4>2. success = Tx.success
        BY <2>3, <4>1
      <4> QED BY <2>2, <3>1, <4>2 DEF Tx
    <3>2. CASE b # Tx.msg.batch
      <4>1. transferStatus'[b] = transferStatus[b] /\ batchStatus'[b] = batchStatus[b]
        BY <2>4, <3>2
      <4> QED BY <4>1 DEF ScanInv, StatusHasTransaction
    <3> QED BY <3>1, <3>2
  <2>9. \A b \in Batch : batchStatus'[b] = "none" => transferStatus'[b] = "new"
    BY <2>4 DEF ScanInv
  <2> QED BY <1>2, <2>1, <2>2, <2>6, <2>7, <2>8, <2>9 DEF ScanInv
<1>7. CASE ScanAdvance
  <2>1. UNCHANGED <<transaction, transferStatus, batchStatus>>
        /\ lastProcessedLt' = scanned + 1 /\ scanned' = scanned + 1 /\ scanStep' = "wait"
    BY <1>7 DEF ScanAdvance
  <2>2. /\ scanned + 1 \in MessageTx /\ scanned + 1 \in transaction
        /\ HasOutcome(scanned + 1)
    BY <1>7 DEF ScanAdvance, ScanInv
  <2>3. \A i \in MessageTx : i <= scanned' => i <= scanned \/ i = scanned + 1
    BY <1>1, <1>3, <2>1
  <2>4. scanned + 1 <= Len(ledger)
    BY <2>2, MessageTxType
  <2> QED BY <1>1, <1>2, <2>1, <2>2, <2>3, <2>4 DEF ScanInv, HasOutcome, StatusHasTransaction
<1> QED BY <1>4, <1>5, <1>6, <1>7 DEF Scanner

LEMMA ScanInvAppend ==
  ASSUME TypeOK, ScanInv, NEW tx \in Transaction, ledger' = Append(ledger, tx),
         UNCHANGED <<lastProcessedLt, scanned, scanStep, transaction,
                     transferStatus, batchStatus>>
  PROVE  ScanInv'
<1>1. /\ DOMAIN ledger = 1 .. Len(ledger) /\ Len(ledger) \in Nat
      /\ Len(ledger') = Len(ledger) + 1
      /\ \A i \in DOMAIN ledger : ledger'[i] = ledger[i]
      /\ MessageTx \subseteq MessageTx'
      /\ \A i \in MessageTx' : i \in MessageTx \/ i = Len(ledger) + 1
  BY AppendMessageTx DEF TypeOK
<1>2. MessageTx \subseteq DOMAIN ledger
  BY DEF MessageTx
<1>3. \A i \in MessageTx : HasOutcome(i)' = HasOutcome(i)
  BY <1>1, <1>2 DEF HasOutcome
<1>4. scanned \in Nat /\ lastProcessedLt \in Nat
  BY DEF TypeOK
<1>5. \A i \in MessageTx' : i <= scanned => i \in MessageTx
  BY <1>1, <1>4 DEF ScanInv
<1>6. StatusHasTransaction'
  BY <1>1, <1>2 DEF ScanInv, StatusHasTransaction
<1>7. lastProcessedLt <= scanned /\ scanned <= Len(ledger')
  BY <1>1, <1>4 DEF ScanInv
<1> QED BY <1>1, <1>3, <1>5, <1>6, <1>7 DEF ScanInv

LEMMA ScanInvRestart ==
  ASSUME TypeOK, ScanInv, Restart PROVE ScanInv'
<1>1. UNCHANGED <<lastProcessedLt, ledger, transaction, transferStatus, batchStatus>>
      /\ scanStep' = "wait" /\ scanned' = lastProcessedLt
  BY DEF Restart, dbVars, chainVars
<1>2. MessageTx' = MessageTx
  BY <1>1 DEF MessageTx
<1>3. MessageTx \subseteq Nat /\ scanned \in Nat /\ lastProcessedLt \in Nat /\ Len(ledger) \in Nat
  BY DEF TypeOK, MessageTx
<1>4. \A i \in MessageTx : i <= scanned' => i <= scanned
  BY <1>1, <1>3 DEF ScanInv
<1>5. scanned' <= Len(ledger) /\ lastProcessedLt <= scanned'
  BY <1>1, <1>3 DEF ScanInv
<1> QED BY <1>1, <1>2, <1>4, <1>5 DEF ScanInv, HasOutcome, StatusHasTransaction

LEMMA ScanInvStep == TypeOK /\ ScanInv /\ [Next]_vars => ScanInv'
<1> SUFFICES ASSUME TypeOK, ScanInv, [Next]_vars PROVE ScanInv'
  OBVIOUS
<1> USE DEF dbVars, workVars, scanVars, chainVars
<1>1. CASE UNCHANGED scanInvVars
  BY <1>1, ScanInvUnchanged
<1>2. CASE Loops
  BY <1>1, <1>2, ScanInvNextBatch
     DEF Loops, PushBatch, BackfillPush, RebatchPush, BackfillRead, RebatchRead,
         RebatchFails, scanInvVars
<1>3. CASE Workers
  BY <1>1, <1>3, ScanInvMark
     DEF Workers, Receive, Stamp, TakeQueryId, PersistExternalMessage, Send, scanInvVars
<1>4. ASSUME NEW m \in pool, Execute(m) PROVE ScanInv'
  <2>1. PICK success \in BOOLEAN : ledger' = Append(ledger, [msg |-> m, success |-> success])
    BY <1>4 DEF Execute
  <2>2. [msg |-> m, success |-> success] \in Transaction
    BY DEF TypeOK, Transaction
  <2> QED BY <1>4, <2>1, <2>2, ScanInvAppend DEF Execute
<1>5. CASE OtherTx
  <2>1. [msg |-> NoMsg, success |-> TRUE] \in Transaction
    BY DEF Transaction
  <2> QED BY <1>5, <2>1, ScanInvAppend DEF OtherTx
<1>6. CASE Tick \/ \E m \in pool : Reject(m) \/ Lose(m)
  BY <1>1, <1>6 DEF Tick, Reject, Lose, scanInvVars
<1> QED BY <1>1, <1>2, <1>3, <1>4, <1>5, <1>6, ScanInvScanner, ScanInvRestart
        DEF Next, Chain, vars, scanInvVars

LEMMA ScanInvAlways == Spec => []ScanInv
BY ScanInvInit, ScanInvStep, TypeCorrect, PTL DEF Spec

\* The progress saved in the database never passes a transaction whose batch
\* has no outcome yet, wherever the process crashes.
THEOREM NothingSkippedAlways == Spec => []NothingSkipped
<1>1. TypeOK /\ ScanInv => NothingSkipped
  <2> SUFFICES ASSUME TypeOK, ScanInv, NEW i \in MessageTx, i <= lastProcessedLt
               PROVE  i \in transaction /\ HasOutcome(i)
    BY DEF NothingSkipped, HasOutcome
  <2>1. i \in Nat /\ lastProcessedLt \in Nat /\ scanned \in Nat
    BY DEF TypeOK, MessageTx
  <2>2. i <= scanned
    BY <2>1 DEF ScanInv
  <2> QED BY <2>2 DEF ScanInv
<1> QED BY <1>1, ScanInvAlways, TypeCorrect, PTL

\* A final status in the database is the verdict of a transaction of the batch.
THEOREM StatusHasTransactionAlways == Spec => []StatusHasTransaction
<1>1. ScanInv => StatusHasTransaction
  BY DEF ScanInv
<1> QED BY <1>1, ScanInvAlways, PTL

-----------------------------------------------------------------------------
(***************************************************************************)
(* UniqueIdsPerBoot                                                        *)
(***************************************************************************)

\* A worker whose message has an id and no row yet.
Numbered(w) == worker[w].step \in {"mark", "insert"}

\* Inductive: the ids in the workers' hands are different from each other and
\* from those recorded since the start, and none is beyond queryID.
IdInv ==
  /\ \A w \in Worker : worker[w].step # "idle" => worker[w].msg.boot = boot
  /\ \A m \in externalMessage : m.boot <= boot /\ (m.boot = boot => m.query_id <= queryID)
  /\ \A w \in Worker : Numbered(w) =>
       /\ worker[w].msg.query_id <= queryID
       /\ \A m \in externalMessage : m.boot = boot => m.query_id # worker[w].msg.query_id
  /\ \A v, w \in Worker : Numbered(v) /\ Numbered(w) /\ v # w =>
       worker[v].msg.query_id # worker[w].msg.query_id
  /\ UniqueIdsPerBoot

\* Steps of a worker that neither number nor record a message.
LEMMA IdInvMove ==
  ASSUME IdInv, UNCHANGED <<externalMessage, boot, queryID>>,
         \A v \in Worker : worker'[v].step # "idle" => worker'[v].msg.boot = boot,
         \A v \in Worker : worker'[v].step \in {"mark", "insert"} =>
           Numbered(v) /\ worker'[v].msg.query_id = worker[v].msg.query_id
  PROVE  IdInv'
BY DEF IdInv, Numbered, UniqueIdsPerBoot

LEMMA IdInvTake ==
  ASSUME TypeOK, IdInv, NEW w \in Worker, TakeQueryId(w) PROVE IdInv'
<1>0. worker \in [Worker -> [step : WorkerStep, msg : Message \cup {NoMsg}]]
  BY DEF TypeOK
<1>1. worker[w].step = "number" /\ worker[w].msg \in Message
  BY DEF TakeQueryId, TypeOK
<1>2. UNCHANGED <<externalMessage, boot>> /\ queryID \in Nat
  BY DEF TakeQueryId, dbVars, TypeOK
<1>3. CASE queryID < LastSeqno
  <2>1. queryID' = queryID + 1
        /\ worker' = [worker EXCEPT ![w] =
                        [step |-> "mark", msg |-> [worker[w].msg EXCEPT !.query_id = queryID + 1]]]
    BY <1>3 DEF TakeQueryId, Goto
  <2>2. /\ worker'[w].step = "mark" /\ worker'[w].msg.query_id = queryID + 1
        /\ worker'[w].msg.boot = worker[w].msg.boot
        /\ \A v \in Worker \ {w} : worker'[v] = worker[v]
    BY <1>0, <1>1, <2>1 DEF Message
  <2>3. \A v \in Worker : Numbered(v) => worker[v].msg.query_id \in Nat
    BY DEF TypeOK, Numbered, Message
  <2>4. \A m \in externalMessage : m.query_id \in Nat
    BY DEF TypeOK, Message
  <2>5. \A v \in Worker : Numbered(v)' <=> Numbered(v) \/ v = w
    BY <1>1, <2>2 DEF Numbered
  <2>6. \A v \in Worker : worker'[v].step # "idle" => worker'[v].msg.boot = boot
    BY <1>1, <2>2 DEF IdInv
  <2>7. \A m \in externalMessage : m.boot <= boot /\ (m.boot = boot => m.query_id <= queryID')
    BY <1>2, <2>1, <2>4 DEF IdInv
  <2>8. \A v \in Worker : Numbered(v)' =>
          /\ worker'[v].msg.query_id <= queryID'
          /\ \A m \in externalMessage : m.boot = boot => m.query_id # worker'[v].msg.query_id
    <3>1. ASSUME NEW v \in Worker \ {w}, Numbered(v)
          PROVE  worker[v].msg.query_id <= queryID'
      BY <1>2, <2>1, <2>3, <3>1 DEF IdInv
    <3>2. \A m \in externalMessage : m.boot = boot => m.query_id # queryID + 1
      BY <1>2, <2>4 DEF IdInv
    <3> QED BY <1>2, <2>1, <2>2, <2>5, <3>1, <3>2 DEF IdInv
  <2>9. \A u, v \in Worker : Numbered(u)' /\ Numbered(v)' /\ u # v =>
          worker'[u].msg.query_id # worker'[v].msg.query_id
    <3>1. \A v \in Worker : Numbered(v) => worker[v].msg.query_id # queryID + 1
      BY <1>2, <2>3 DEF IdInv
    <3> QED BY <2>2, <2>5, <3>1 DEF IdInv
  <2> QED BY <1>2, <2>6, <2>7, <2>8, <2>9 DEF IdInv, UniqueIdsPerBoot
<1>4. CASE ~(queryID < LastSeqno)
  <2>1. queryID' = queryID /\ worker' = [worker EXCEPT ![w] = Idle]
    BY <1>4 DEF TakeQueryId, Drop
  <2>2. worker'[w].step = "idle" /\ \A v \in Worker \ {w} : worker'[v] = worker[v]
    BY <1>0, <2>1 DEF Idle
  <2> QED BY <1>2, <2>1, <2>2, IdInvMove DEF IdInv, Numbered
<1> QED BY <1>3, <1>4

LEMMA IdInvPersist ==
  ASSUME TypeOK, IdInv, NEW w \in Worker, PersistExternalMessage(w) PROVE IdInv'
<1> DEFINE m == worker[w].msg
<1>0. worker \in [Worker -> [step : WorkerStep, msg : Message \cup {NoMsg}]]
  BY DEF TypeOK
<1>1. worker[w].step = "insert" /\ UNCHANGED <<boot, queryID>>
  BY DEF PersistExternalMessage
<1>2. externalMessage' \subseteq externalMessage \cup {m}
      /\ externalMessage \subseteq externalMessage'
  BY DEF PersistExternalMessage
<1>3. /\ \A v \in Worker \ {w} : worker'[v] = worker[v]
      /\ worker'[w].step \in {"idle", "send"}
      /\ worker'[w].step # "idle" => worker'[w].msg = m
  BY <1>0 DEF PersistExternalMessage, Goto, Drop, Idle
<1>4. m.boot = boot /\ m.query_id <= queryID /\ boot \in Nat
      /\ \A n \in externalMessage : n.boot = boot => n.query_id # m.query_id
  BY <1>1, SenderAssumption DEF IdInv, Numbered, TypeOK
<1>5. \A v \in Worker : Numbered(v)' => Numbered(v) /\ v # w /\ worker'[v] = worker[v]
  BY <1>3 DEF Numbered
<1>6. \A n \in externalMessage' : n.boot <= boot /\ (n.boot = boot => n.query_id <= queryID)
  BY <1>2, <1>4 DEF IdInv
<1>7. \A v \in Worker : Numbered(v) /\ v # w => worker[v].msg.query_id # m.query_id
  BY <1>1 DEF IdInv, Numbered
<1>8. \A v \in Worker : Numbered(v)' =>
        /\ worker'[v].msg.query_id <= queryID
        /\ \A n \in externalMessage' : n.boot = boot => n.query_id # worker'[v].msg.query_id
  BY <1>2, <1>5, <1>7 DEF IdInv
<1>9. UniqueIdsPerBoot'
  BY <1>2, <1>4 DEF IdInv, UniqueIdsPerBoot
<1>10. \A v \in Worker : worker'[v].step # "idle" => worker'[v].msg.boot = boot
  BY <1>3, <1>4 DEF IdInv
<1>11. \A u, v \in Worker : Numbered(u)' /\ Numbered(v)' /\ u # v =>
         worker'[u].msg.query_id # worker'[v].msg.query_id
  BY <1>5 DEF IdInv
<1> HIDE DEF m
<1> QED BY <1>1, <1>6, <1>8, <1>9, <1>10, <1>11 DEF IdInv

LEMMA IdInvRestart ==
  ASSUME TypeOK, IdInv, Restart PROVE IdInv'
<1>1. externalMessage' = externalMessage /\ boot' = boot + 1 /\ boot \in Nat
  BY SenderAssumption DEF Restart, dbVars, TypeOK
<1>2. \A w \in Worker : worker'[w].step = "idle"
  BY DEF Restart, Idle
<1>3. \A m \in externalMessage : m.boot \in Nat
  BY SenderAssumption DEF TypeOK, Message
<1>4. \A m \in externalMessage : m.boot <= boot' /\ m.boot # boot'
  BY <1>1, <1>3 DEF IdInv
<1> QED BY <1>1, <1>2, <1>4 DEF IdInv, Numbered, UniqueIdsPerBoot

LEMMA IdInvStep == TypeOK /\ IdInv /\ [Next]_vars => IdInv'
<1> SUFFICES ASSUME TypeOK, IdInv, [Next]_vars PROVE IdInv'
  OBVIOUS
<1>0. worker \in [Worker -> [step : WorkerStep, msg : Message \cup {NoMsg}]]
  BY DEF TypeOK
<1>1. CASE UNCHANGED <<worker, externalMessage, boot, queryID>>
  BY <1>1 DEF IdInv, Numbered, UniqueIdsPerBoot
<1>2. CASE Loops
  BY <1>1, <1>2 DEF Loops, NextBatch, PushBatch, BackfillPush, RebatchPush,
                    BackfillRead, RebatchRead, RebatchFails, dbVars, workVars
<1>3. CASE Scanner
  BY <1>1, <1>3 DEF Scanner, ScanSkip, ScanInsert, ScanUpdate, ScanAdvance,
                    dbVars, workVars
<1>4. CASE Chain
  BY <1>1, <1>4 DEF Chain, Execute, Reject, Lose, OtherTx, Tick, dbVars, workVars
<1>5. ASSUME NEW w \in Worker, Receive(w) \/ Stamp(w) \/ MarkProcessing(w) \/ Send(w)
      PROVE  IdInv'
  <2>1. UNCHANGED <<externalMessage, boot, queryID>>
    BY <1>5 DEF Receive, Stamp, MarkProcessing, Send, dbVars
  <2>2. \A v \in Worker \ {w} : worker'[v] = worker[v]
    BY <1>0, <1>5 DEF Receive, Stamp, MarkProcessing, Send, Goto, Drop
  <2>3. worker[w].step # "idle" => worker[w].msg \in Message
    BY DEF TypeOK
  <2>4. worker'[w].step # "idle" =>
          /\ worker'[w].msg.boot = boot
          /\ worker'[w].step \in {"mark", "insert"} =>
               Numbered(w) /\ worker'[w].msg.query_id = worker[w].msg.query_id
    <3>1. CASE Receive(w)
      BY <1>0, <3>1 DEF Receive, Goto, Drop, Idle, Numbered, IdInv
    <3>2. CASE Stamp(w)
      BY <1>0, <2>3, <3>2 DEF Stamp, Goto, Drop, Idle, Numbered, IdInv, Message
    <3>3. CASE MarkProcessing(w)
      BY <1>0, <3>3 DEF MarkProcessing, Goto, Drop, Idle, Numbered, IdInv
    <3>4. CASE Send(w)
      BY <1>0, <3>4 DEF Send, Drop, Idle
    <3> QED BY <1>5, <3>1, <3>2, <3>3, <3>4
  <2> QED BY <2>1, <2>2, <2>4, IdInvMove DEF IdInv, Numbered
<1> QED BY <1>1, <1>2, <1>3, <1>4, <1>5, IdInvTake, IdInvPersist, IdInvRestart
        DEF Next, Workers, vars, dbVars, workVars

LEMMA IdInvAlways == Spec => []IdInv
<1>1. Init => IdInv
  BY DEF Init, IdInv, Numbered, UniqueIdsPerBoot, Idle
<1> QED BY <1>1, IdInvStep, TypeCorrect, PTL DEF Spec

\* No two messages of one run of the process share a query id, for any number
\* of workers in MessageBuilder at the same time.
THEOREM UniqueIdsPerBootAlways == Spec => []UniqueIdsPerBoot
<1>1. IdInv => UniqueIdsPerBoot
  BY DEF IdInv
<1> QED BY <1>1, IdInvAlways, PTL

-----------------------------------------------------------------------------
(***************************************************************************)
(* NewIsInFlight                                                           *)
(***************************************************************************)

\* Inductive: an id is one of those GetNext hands out.
LastInv ==
  /\ queryID <= LastSeqno
  /\ \A m \in externalMessage : m.query_id \in 1 .. LastSeqno
  /\ \A w \in Worker : Numbered(w) => worker[w].msg.query_id \in 1 .. LastSeqno

LEMMA LastInvStep == TypeOK /\ LastInv /\ [Next]_vars => LastInv'
<1> SUFFICES ASSUME TypeOK, LastInv, [Next]_vars PROVE LastInv'
  OBVIOUS
<1>0. /\ worker \in [Worker -> [step : WorkerStep, msg : Message \cup {NoMsg}]]
      /\ queryID \in Nat /\ LastSeqno \in Nat
  BY SenderAssumption DEF TypeOK
<1>1. CASE UNCHANGED <<worker, externalMessage, queryID>>
  BY <1>1 DEF LastInv, Numbered
<1>2. CASE Loops
  BY <1>1, <1>2 DEF Loops, NextBatch, PushBatch, BackfillPush, RebatchPush,
                    BackfillRead, RebatchRead, RebatchFails, dbVars, workVars
<1>3. CASE Scanner
  BY <1>1, <1>3 DEF Scanner, ScanSkip, ScanInsert, ScanUpdate, ScanAdvance,
                    dbVars, workVars
<1>4. CASE Chain
  BY <1>1, <1>4 DEF Chain, Execute, Reject, Lose, OtherTx, Tick, dbVars, workVars
<1>5. ASSUME NEW w \in Worker,
             \/ Receive(w) \/ Stamp(w) \/ TakeQueryId(w)
             \/ MarkProcessing(w) \/ PersistExternalMessage(w) \/ Send(w)
      PROVE  LastInv'
  <2>1. \A v \in Worker \ {w} : worker'[v] = worker[v]
    BY <1>0, <1>5 DEF Receive, Stamp, TakeQueryId, MarkProcessing,
                      PersistExternalMessage, Send, Goto, Drop
  <2>2. worker[w].step # "idle" => worker[w].msg \in Message
    BY DEF TypeOK
  <2>3. CASE Receive(w) \/ Stamp(w) \/ MarkProcessing(w) \/ Send(w)
    <3>1. UNCHANGED <<externalMessage, queryID>>
      BY <2>3 DEF Receive, Stamp, MarkProcessing, Send, dbVars
    <3>2. worker'[w].step \in {"mark", "insert"} => Numbered(w) /\ worker'[w].msg = worker[w].msg
      BY <1>0, <2>3 DEF Receive, Stamp, MarkProcessing, Send, Goto, Drop, Idle, Numbered
    <3> QED BY <2>1, <3>1, <3>2 DEF LastInv, Numbered
  <2>4. CASE TakeQueryId(w)
    <3>1. externalMessage' = externalMessage /\ queryID' <= LastSeqno
      BY <1>0, <2>4 DEF TakeQueryId, LastInv, dbVars
    <3>2. worker'[w].step \in {"mark", "insert"} => worker'[w].msg.query_id \in 1 .. LastSeqno
      BY <1>0, <2>2, <2>4 DEF TakeQueryId, Goto, Drop, Idle, Message
    <3> QED BY <2>1, <3>1, <3>2 DEF LastInv, Numbered
  <2>5. CASE PersistExternalMessage(w)
    <3>1. /\ externalMessage' \subseteq externalMessage \cup {worker[w].msg}
          /\ queryID' = queryID /\ Numbered(w)
      BY <2>5 DEF PersistExternalMessage, Numbered
    <3>2. worker'[w].step \notin {"mark", "insert"}
      BY <1>0, <2>5 DEF PersistExternalMessage, Goto, Drop, Idle
    <3> QED BY <2>1, <3>1, <3>2 DEF LastInv, Numbered
  <2> QED BY <1>5, <2>3, <2>4, <2>5
<1>6. CASE Restart
  <2>1. externalMessage' = externalMessage /\ queryID' <= LastSeqno
    BY <1>0, <1>6 DEF Restart, dbVars, LastQueryIDs, LastInv, TypeOK, Message
  <2>2. \A w \in Worker : worker'[w].step = "idle"
    BY <1>6 DEF Restart, Idle
  <2> QED BY <2>1, <2>2 DEF LastInv, Numbered
<1> QED BY <1>1, <1>2, <1>3, <1>4, <1>5, <1>6 DEF Next, Workers, vars, dbVars, workVars

LEMMA LastInvAlways == Spec => []LastInv
<1>1. Init => LastInv
  BY SenderAssumption DEF Init, LastInv, Numbered, Idle
<1> QED BY <1>1, LastInvStep, TypeCorrect, PTL DEF Spec

\* A push moves a batch from a list into the channel.
LEMMA PushKeeps ==
  ASSUME TypeOK, NEW c \in Batch, Push(c)
  PROVE  \A b \in Batch : (\E i \in DOMAIN batches : batches[i] = b) \/ b = c
                           => \E i \in DOMAIN batches' : batches'[i] = b
<1>1. batches \in Seq(Batch) /\ Len(batches) \in Nat /\ DOMAIN batches = 1 .. Len(batches)
  BY DEF TypeOK
<1>2. /\ DOMAIN batches' = 1 .. Len(batches) + 1
      /\ \A i \in 1 .. Len(batches) : batches'[i] = batches[i]
      /\ batches'[Len(batches) + 1] = c
  BY <1>1 DEF Push
<1> QED BY <1>1, <1>2

LEMMA ReceiveKeeps ==
  ASSUME TypeOK, ~CallMayFail, NEW w \in Worker, Receive(w),
         NEW b \in Batch, InFlight(b)
  PROVE  InFlight(b)'
<1>0. worker \in [Worker -> [step : WorkerStep, msg : Message \cup {NoMsg}]]
  BY DEF TypeOK
<1>1. /\ UNCHANGED <<pushing, backfillList, rebatchList>>
      /\ worker[w].step = "idle" /\ worker'[w].step = "stamp"
      /\ worker'[w].msg.batch = Head(batches)
      /\ \A v \in Worker \ {w} : worker'[v] = worker[v]
  BY <1>0 DEF Receive, Goto
<1>2. batches \in Seq(Batch) /\ batches # <<>> /\ batches' = Tail(batches)
  BY DEF Receive, TypeOK
<1>3. ASSUME NEW i \in DOMAIN batches, batches[i] = b
      PROVE  InFlight(b)'
  <2>1. CASE i = 1
    <3>1. Head(batches) = b
      BY <1>2, <1>3, <2>1
    <3> QED BY <1>1, <3>1 DEF InFlight
  <2>2. CASE i # 1
    <3>1. i - 1 \in DOMAIN batches' /\ batches'[i - 1] = b
      BY <1>2, <1>3, <2>2
    <3> QED BY <3>1 DEF InFlight
  <2> QED BY <2>1, <2>2
<1> QED BY <1>1, <1>3 DEF InFlight

LEMMA FlightStep ==
  ASSUME TypeOK, LastInv, NewIsInFlight, [Next]_vars, ~CallMayFail
  PROVE  NewIsInFlight'
<1> SUFFICES ASSUME NEW b \in Batch, batchStatus'[b] = "new"
             PROVE  InFlight(b)' \/ ~backfillRead' \/ queryID' = LastSeqno
  BY DEF NewIsInFlight
<1>0. /\ worker \in [Worker -> [step : WorkerStep, msg : Message \cup {NoMsg}]]
      /\ batchStatus \in [Batch -> BatchStatus]
      /\ queryID \in Nat /\ LastSeqno \in Nat /\ queryID <= LastSeqno
  BY SenderAssumption DEF TypeOK, LastInv
<1>1. ASSUME batchStatus[b] = "new", UNCHANGED <<backfillRead, queryID>>,
             InFlight(b) => InFlight(b)'
      PROVE  InFlight(b)' \/ ~backfillRead' \/ queryID' = LastSeqno
  BY <1>1 DEF NewIsInFlight
<1>2. CASE UNCHANGED <<batchStatus, backfillRead, queryID, pushing, batches,
                       backfillList, rebatchList, worker>>
  BY <1>1, <1>2 DEF InFlight
<1>3. ASSUME NEW c \in Batch, NextBatch(c)
      PROVE  InFlight(b)' \/ ~backfillRead' \/ queryID' = LastSeqno
  <2>1. CASE b = c
    BY <1>3, <2>1 DEF NextBatch, InFlight
  <2>2. CASE b # c
    <3>1. batchStatus[b] = "new"
      BY <1>0, <1>3, <2>2 DEF NextBatch
    <3>2. InFlight(b) => InFlight(b)'
      BY <1>3 DEF NextBatch, InFlight, workVars
    <3> QED BY <1>1, <1>3, <3>1, <3>2 DEF NextBatch, workVars
  <2> QED BY <2>1, <2>2
<1>4. ASSUME NEW c \in Batch, PushBatch(c) \/ BackfillPush(c) \/ RebatchPush(c)
      PROVE  InFlight(b)' \/ ~backfillRead' \/ queryID' = LastSeqno
  <2>1. UNCHANGED <<batchStatus, backfillRead, worker, queryID>> /\ Push(c)
    BY <1>4 DEF PushBatch, BackfillPush, RebatchPush, dbVars, workVars
  <2>2. \A d \in {b} \ {c} : d \in pushing \cup backfillList \cup rebatchList
                           => d \in pushing' \cup backfillList' \cup rebatchList'
    BY <1>4 DEF PushBatch, BackfillPush, RebatchPush
  <2>3. InFlight(b) => InFlight(b)'
    BY <2>1, <2>2, PushKeeps DEF InFlight
  <2> QED BY <1>1, <2>1, <2>3
<1>5. CASE BackfillRead
  BY <1>5 DEF BackfillRead, InFlight, dbVars
<1>6. CASE RebatchRead \/ RebatchFails
  <2>1. UNCHANGED <<batchStatus, backfillRead, worker, queryID, pushing, batches, backfillList>>
        /\ rebatchList \subseteq rebatchList'
    BY <1>6 DEF RebatchRead, RebatchFails, dbVars, workVars
  <2> QED BY <1>1, <2>1 DEF InFlight
<1>7. ASSUME NEW w \in Worker, Receive(w)
      PROVE  InFlight(b)' \/ ~backfillRead' \/ queryID' = LastSeqno
  BY <1>1, <1>7, ReceiveKeeps DEF Receive, dbVars
<1>8. ASSUME NEW w \in Worker, Stamp(w) \/ TakeQueryId(w)
      PROVE  InFlight(b)' \/ ~backfillRead' \/ queryID' = LastSeqno
  <2>1. UNCHANGED <<batchStatus, backfillRead, pushing, batches, backfillList, rebatchList>>
    BY <1>8 DEF Stamp, TakeQueryId, dbVars, pushVars
  <2>2. \A v \in Worker \ {w} : worker'[v] = worker[v]
    BY <1>0, <1>8 DEF Stamp, TakeQueryId, Goto, Drop
  <2>3. worker[w].msg \in Message
    BY <1>8 DEF Stamp, TakeQueryId, TypeOK
  <2>4. CASE Stamp(w) \/ queryID < LastSeqno
    <3>1. worker'[w].step \in {"number", "mark"} /\ worker'[w].msg.batch = worker[w].msg.batch
      BY <1>0, <1>8, <2>3, <2>4 DEF Stamp, TakeQueryId, Goto, Message
    <3>2. InFlight(b)' \/ ~InFlight(b)
      BY <2>1, <2>2, <3>1 DEF InFlight
    <3>3. CASE Stamp(w)
      BY <1>1, <2>1, <3>2, <3>3 DEF Stamp
    <3>4. CASE TakeQueryId(w) /\ queryID < LastSeqno
      BY <1>0, <2>1, <3>2, <3>4 DEF NewIsInFlight
    <3> QED BY <1>8, <2>4, <3>3, <3>4
  <2>5. CASE TakeQueryId(w) /\ ~(queryID < LastSeqno)
    BY <1>0, <2>5 DEF TakeQueryId
  <2> QED BY <1>8, <2>4, <2>5
<1>9. ASSUME NEW w \in Worker, MarkProcessing(w)
      PROVE  InFlight(b)' \/ ~backfillRead' \/ queryID' = LastSeqno
  <2>1. UNCHANGED <<backfillRead, queryID, pushing, batches, backfillList, rebatchList>>
    BY <1>9 DEF MarkProcessing, pushVars
  <2>2. \A v \in Worker \ {w} : worker'[v] = worker[v]
    BY <1>0, <1>9 DEF MarkProcessing, Goto, Drop
  <2>3. worker[w].msg.batch \in Batch
    BY <1>9 DEF MarkProcessing, TypeOK, Message
  <2>4. b # worker[w].msg.batch /\ batchStatus[b] = "new"
    BY <1>0, <1>9, <2>3 DEF MarkProcessing
  <2> QED BY <1>1, <2>1, <2>2, <2>4 DEF InFlight
<1>10. ASSUME NEW w \in Worker, PersistExternalMessage(w) \/ Send(w)
       PROVE  InFlight(b)' \/ ~backfillRead' \/ queryID' = LastSeqno
  <2>1. UNCHANGED <<batchStatus, backfillRead, queryID, pushing, batches,
                    backfillList, rebatchList>>
    BY <1>10 DEF PersistExternalMessage, Send, pushVars, dbVars
  <2>2. /\ \A v \in Worker \ {w} : worker'[v] = worker[v]
        /\ worker[w].step \notin {"stamp", "number", "mark"}
    BY <1>0, <1>10 DEF PersistExternalMessage, Send, Goto, Drop
  <2> QED BY <1>1, <2>1, <2>2 DEF InFlight
<1>11. CASE Scanner
  <2>1. UNCHANGED <<backfillRead, queryID, pushing, batches, backfillList, rebatchList, worker>>
    BY <1>11 DEF Scanner, ScanSkip, ScanInsert, ScanUpdate, ScanAdvance, pushVars, workVars
  <2>2. batchStatus[b] = "new"
    BY <1>0, <1>11 DEF Scanner, ScanSkip, ScanInsert, ScanUpdate, ScanAdvance,
                       UpdateBatch, dbVars
  <2> QED BY <1>1, <2>1, <2>2 DEF InFlight
<1>12. CASE Restart
  BY <1>12 DEF Restart
<1>13. CASE Chain
  BY <1>2, <1>13 DEF Chain, Execute, Reject, Lose, OtherTx, Tick, dbVars, pushVars, workVars
<1> QED BY <1>2, <1>3, <1>4, <1>5, <1>6, <1>7, <1>8, <1>9, <1>10, <1>11, <1>12, <1>13
        DEF Next, Loops, Workers, vars, dbVars, pushVars, workVars

\* As long as no call fails, of the database or in PrepareMessage, a batch that
\* is still new is on its way to a worker, or will be found by the backfill, or
\* there is no id left: no crash and no interleaving of the loops and the workers
\* forgets it.
THEOREM NewIsInFlightAlways == Spec => []NewIsInFlight
<1>1. Init => NewIsInFlight
  BY DEF Init, NewIsInFlight
<1>2. TypeOK /\ LastInv /\ NewIsInFlight /\ [Next]_vars => NewIsInFlight'
  <2> SUFFICES ASSUME TypeOK, LastInv, NewIsInFlight, [Next]_vars PROVE NewIsInFlight'
    OBVIOUS
  <2>1. CASE CallMayFail
    BY <2>1 DEF NewIsInFlight
  <2>2. CASE ~CallMayFail
    BY <2>2, FlightStep
  <2> QED BY <2>1, <2>2
<1> QED BY <1>1, <1>2, LastInvAlways, TypeCorrect, PTL DEF Spec

-----------------------------------------------------------------------------
(***************************************************************************)
(* NumbersInOrder: the sender implements Numbering                         *)
(***************************************************************************)

\* The numbers of the workers and those of the rows, as Numbering has them.
NumbersInHand   == {worker[w].msg.query_id : w \in {v \in Worker : Numbered(v)}}
NumbersRecorded == {m.query_id : m \in externalMessage}

LEMMA NumberingInit == Init => N!Init
<1> SUFFICES ASSUME Init PROVE N!Init
  OBVIOUS
<1>1. \A w \in Worker : ~Numbered(w)
  BY DEF Init, Idle, Numbered
<1> QED BY <1>1 DEF Init, N!Init, Numbered

\* A worker that takes a number.
LEMMA NumbersTaken ==
  ASSUME TypeOK, NEW w \in Worker, TakeQueryId(w), queryID < LastSeqno
  PROVE  NumbersInHand' = NumbersInHand \cup {queryID + 1}
<1>0. worker \in [Worker -> [step : WorkerStep, msg : Message \cup {NoMsg}]]
  BY DEF TypeOK
<1>1. worker[w].step = "number" /\ worker[w].msg \in Message
  BY DEF TakeQueryId, TypeOK
<1>2. worker' = [worker EXCEPT ![w] =
                  [step |-> "mark", msg |-> [worker[w].msg EXCEPT !.query_id = queryID + 1]]]
  BY DEF TakeQueryId, Goto
<1>3. /\ worker'[w].step = "mark" /\ worker'[w].msg.query_id = queryID + 1
      /\ \A v \in Worker \ {w} : worker'[v] = worker[v]
  BY <1>0, <1>1, <1>2 DEF Message
<1>4. ~Numbered(w) /\ Numbered(w)'
  BY <1>1, <1>3 DEF Numbered
<1>5. \A v \in Worker \ {w} : Numbered(v)' <=> Numbered(v)
  BY <1>3 DEF Numbered
<1> QED BY <1>3, <1>4, <1>5 DEF NumbersInHand

\* A worker that gives its number away, to a row or for good.
LEMMA NumbersGiven ==
  ASSUME IdInv, NEW w \in Worker, Numbered(w), ~Numbered(w)',
         \A v \in Worker \ {w} : worker'[v] = worker[v]
  PROVE  /\ worker[w].msg.query_id \in NumbersInHand
         /\ NumbersInHand' = NumbersInHand \ {worker[w].msg.query_id}
<1>1. \A v \in Worker \ {w} : Numbered(v)' <=> Numbered(v)
  BY DEF Numbered
<1>2. \A v \in Worker \ {w} : Numbered(v) => worker[v].msg.query_id # worker[w].msg.query_id
  BY DEF IdInv
<1> QED BY <1>1, <1>2 DEF NumbersInHand

\* A worker whose step neither takes a number nor gives one away.
LEMMA NumbersKept ==
  ASSUME NEW w \in Worker, \A v \in Worker \ {w} : worker'[v] = worker[v],
         Numbered(w)' <=> Numbered(w),
         Numbered(w) => worker'[w].msg = worker[w].msg
  PROVE  NumbersInHand' = NumbersInHand
<1>1. \A v \in Worker : Numbered(v)' <=> Numbered(v)
  BY DEF Numbered
<1>2. \A v \in Worker : Numbered(v) => worker'[v].msg.query_id = worker[v].msg.query_id
  OBVIOUS
<1> QED BY <1>1, <1>2 DEF NumbersInHand

LEMMA NumberingStep ==
  ASSUME TypeOK, IdInv, [Next]_vars
  PROVE  [N!Next]_N!vars
<1>0. worker \in [Worker -> [step : WorkerStep, msg : Message \cup {NoMsg}]]
  BY DEF TypeOK
<1>a. ASSUME UNCHANGED <<queryID, NumbersInHand, NumbersRecorded>>
      PROVE  UNCHANGED N!vars
  BY <1>a DEF N!vars, NumbersInHand, NumbersRecorded, Numbered
<1>b. ASSUME NEW n \in NumbersInHand, UNCHANGED queryID,
             NumbersInHand' = NumbersInHand \ {n},
             NumbersRecorded' \in {NumbersRecorded, NumbersRecorded \cup {n}}
      PROVE  N!Next
  <2>1. CASE NumbersRecorded' = NumbersRecorded
    <3>1. N!Drop(n)
      BY <1>b, <2>1 DEF N!Drop, NumbersInHand, NumbersRecorded, Numbered
    <3> QED BY <3>1 DEF N!Next, NumbersInHand, Numbered
  <2>2. CASE NumbersRecorded' = NumbersRecorded \cup {n}
    <3>1. N!Record(n)
      BY <1>b, <2>2 DEF N!Record, NumbersInHand, NumbersRecorded, Numbered
    <3> QED BY <3>1 DEF N!Next, NumbersInHand, Numbered
  <2> QED BY <1>b, <2>1, <2>2
<1>1. CASE UNCHANGED <<worker, externalMessage, queryID>>
  BY <1>1, <1>a DEF NumbersInHand, NumbersRecorded, Numbered
<1>2. CASE Loops
  BY <1>1, <1>2 DEF Loops, NextBatch, PushBatch, BackfillPush, RebatchPush,
                    BackfillRead, RebatchRead, RebatchFails, dbVars, workVars
<1>3. CASE Scanner
  BY <1>1, <1>3 DEF Scanner, ScanSkip, ScanInsert, ScanUpdate, ScanAdvance,
                    dbVars, workVars
<1>4. CASE Chain
  BY <1>1, <1>4 DEF Chain, Execute, Reject, Lose, OtherTx, Tick, dbVars, workVars
<1>5. ASSUME NEW w \in Worker, Receive(w) \/ Stamp(w) \/ Send(w)
      PROVE  UNCHANGED N!vars
  <2>1. UNCHANGED <<externalMessage, queryID>>
    BY <1>5 DEF Receive, Stamp, Send, dbVars
  <2>2. \A v \in Worker \ {w} : worker'[v] = worker[v]
    BY <1>0, <1>5 DEF Receive, Stamp, Send, Goto, Drop
  <2>3. ~Numbered(w) /\ ~Numbered(w)'
    BY <1>0, <1>5 DEF Receive, Stamp, Send, Goto, Drop, Idle, Numbered
  <2>4. NumbersInHand' = NumbersInHand
    BY <2>2, <2>3, NumbersKept
  <2> QED BY <1>a, <2>1, <2>4 DEF NumbersRecorded
<1>6. ASSUME NEW w \in Worker, TakeQueryId(w)
      PROVE  [N!Next]_N!vars
  <2>1. externalMessage' = externalMessage
    BY <1>6 DEF TakeQueryId, dbVars
  <2>2. CASE queryID < LastSeqno
    <3>1. NumbersInHand' = NumbersInHand \cup {queryID + 1} /\ queryID' = queryID + 1
      BY <1>6, <2>2, NumbersTaken DEF TakeQueryId
    <3>2. N!Take
      BY <2>1, <2>2, <3>1 DEF N!Take, NumbersInHand, Numbered
    <3> QED BY <3>2 DEF N!Next
  <2>3. CASE ~(queryID < LastSeqno)
    <3>1. \A v \in Worker \ {w} : worker'[v] = worker[v]
      BY <1>0, <1>6, <2>3 DEF TakeQueryId, Drop
    <3>2. ~Numbered(w) /\ ~Numbered(w)' /\ queryID' = queryID
      BY <1>0, <1>6, <2>3 DEF TakeQueryId, Drop, Idle, Numbered
    <3>3. NumbersInHand' = NumbersInHand
      BY <3>1, <3>2, NumbersKept
    <3> QED BY <1>a, <2>1, <3>2, <3>3 DEF NumbersRecorded
  <2> QED BY <2>2, <2>3
<1>7. ASSUME NEW w \in Worker, MarkProcessing(w)
      PROVE  [N!Next]_N!vars
  <2>1. UNCHANGED <<externalMessage, queryID>> /\ NumbersRecorded' = NumbersRecorded
    BY <1>7 DEF MarkProcessing, NumbersRecorded
  <2>2. \A v \in Worker \ {w} : worker'[v] = worker[v]
    BY <1>0, <1>7 DEF MarkProcessing, Goto, Drop
  <2>3. Numbered(w)
    BY <1>7 DEF MarkProcessing, Numbered
  <2>4. CASE worker' = [worker EXCEPT ![w] = [step |-> "insert", msg |-> worker[w].msg]]
    <3>1. Numbered(w)' /\ worker'[w].msg = worker[w].msg
      BY <1>0, <2>4 DEF Numbered
    <3>2. NumbersInHand' = NumbersInHand
      BY <2>2, <2>3, <3>1, NumbersKept
    <3> QED BY <1>a, <2>1, <3>2
  <2>5. CASE worker' = [worker EXCEPT ![w] = Idle]
    <3>1. ~Numbered(w)'
      BY <1>0, <2>5 DEF Numbered, Idle
    <3>2. PICK n \in NumbersInHand : NumbersInHand' = NumbersInHand \ {n}
      BY <2>2, <2>3, <3>1, NumbersGiven
    <3> QED BY <1>b, <2>1, <3>2
  <2> QED BY <1>7, <2>4, <2>5 DEF MarkProcessing, Goto, Drop
<1>8. ASSUME NEW w \in Worker, PersistExternalMessage(w)
      PROVE  N!Next
  <2>1. queryID' = queryID /\ Numbered(w)
    BY <1>8 DEF PersistExternalMessage, Numbered
  <2>2. \A v \in Worker \ {w} : worker'[v] = worker[v]
    BY <1>0, <1>8 DEF PersistExternalMessage, Goto, Drop
  <2>3. ~Numbered(w)'
    BY <1>0, <1>8 DEF PersistExternalMessage, Goto, Drop, Idle, Numbered
  <2>4. PICK n : n = worker[w].msg.query_id
    OBVIOUS
  <2>5. n \in NumbersInHand /\ NumbersInHand' = NumbersInHand \ {n}
    BY <2>1, <2>2, <2>3, <2>4, NumbersGiven
  <2>6. NumbersRecorded' \in {NumbersRecorded, NumbersRecorded \cup {n}}
    <3>1. externalMessage' \in {externalMessage, externalMessage \cup {worker[w].msg}}
      BY <1>8 DEF PersistExternalMessage
    <3> QED BY <2>4, <3>1 DEF NumbersRecorded
  <2> QED BY <1>b, <2>1, <2>5, <2>6
<1>9. CASE Restart
  <2>1. \A w \in Worker : ~Numbered(w)'
    BY <1>9 DEF Restart, Idle, Numbered
  <2>2. NumbersInHand' = {}
    BY <2>1 DEF NumbersInHand
  <2>3. externalMessage' = externalMessage /\ NumbersRecorded' = NumbersRecorded
    BY <1>9 DEF Restart, dbVars, NumbersRecorded
  <2>4. queryID' \in IF NumbersRecorded = {} THEN {0} ELSE NumbersRecorded
    BY <1>9 DEF Restart, LastQueryIDs, NumbersRecorded
  <2>5. N!Restart
    BY <2>2, <2>3, <2>4 DEF N!Restart, NumbersInHand, NumbersRecorded, Numbered
  <2> QED BY <2>5 DEF N!Next
<1> QED BY <1>1, <1>2, <1>3, <1>4, <1>5, <1>6, <1>7, <1>8, <1>9
        DEF Next, Workers, vars, dbVars, workVars

\* For any number of workers that take numbers, fail and drop messages in any
\* order, and for any number of crashes, the sender numbers its messages as
\* Numbering says; module QueryId does the same with the ids of the code.
THEOREM NumbersInOrderAlways == Spec => NumbersInOrder
<1>1. TypeOK /\ IdInv /\ [Next]_vars => [N!Next]_N!vars
  BY NumberingStep
<1> QED BY <1>1, NumberingInit, IdInvAlways, TypeCorrect, PTL
        DEF Spec, NumbersInOrder, N!Spec

=============================================================================

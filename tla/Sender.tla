------------------------------- MODULE Sender -------------------------------
(***************************************************************************)
(* The sender: everything between the moment a batch row is committed and  *)
(* the moment its outcome is recorded.                                     *)
(*                                                                         *)
(*   batcher  --batches-->  workers  --messages-->  wallet contract        *)
(*      ^          ^            |                         |                *)
(*      |       backfill,       v                         v                *)
(*   Postgres <- rebatch - external_message <- scanner - transactions      *)
(*                                                                         *)
(* The process may stop at any point and start again; the database and the *)
(* chain survive. Query ids are counted by their sequence number, as in    *)
(* module Numbering, which module QueryId implements with the ids of the   *)
(* code. The chain and its clock are external.                             *)
(***************************************************************************)
EXTENDS Naturals, Sequences, FiniteSets

CONSTANTS
  Batch,                \* batch uuids
  Worker,               \* sender workers (NumWorkers)
  ParallelBatches,      \* capacity of the channel Batches
  TTL,                  \* MessageTTL, in ticks of the clock
  ClockSkew,            \* how far the chain's clock may lag the database's
  LastSeqno,            \* sequence number of the last id GetNext hands out
  ErrorCountTolerated,  \* rebatchExpired gives up at this many errors in a row
  CallMayFail,          \* TRUE if the calls made for a batch may return an error
  MaxBoots,             \* bound: how often the process is started
  MaxLost,              \* bound: how many valid messages never reach a block
  MaxOther,             \* bound: how many other transactions the wallet gets
  MaxTime,              \* bound: how far the clock runs
  NoMsg

ASSUME SenderAssumption ==
  /\ ParallelBatches \in Nat
  /\ TTL \in Nat \ {0}
  /\ ClockSkew \in 0 .. TTL
  /\ LastSeqno \in Nat
  /\ ErrorCountTolerated \in Nat \ {0}
  /\ CallMayFail \in BOOLEAN
  /\ MaxBoots \in Nat \ {0}
  /\ MaxLost \in Nat
  /\ MaxOther \in Nat
  /\ MaxTime \in Nat

\* An external message. boot is history: the process start that built it.
Message ==
  [batch : Batch, query_id : Nat, created_at : Nat, boot : 1 .. MaxBoots]

ASSUME NoMsgAssumption == NoMsg \notin Message

BatchStatus    == {"none", "new", "processing", "success", "error"}
TransferStatus == {"new", "batched", "success", "error"}

VARIABLES
  \* --- Postgres
  batchStatus,       \* sender.batch.status, "none" before the row exists
  transferStatus,    \* sender.transfer.status of the transfers of a batch
  externalMessage,   \* sender.external_message
  transaction,       \* sender.transaction: the logical times recorded
  lastProcessedLt,   \* sender.wallet.last_processed_lt
  \* --- the process
  boot,              \* history: number of starts of the process
  pushing,           \* batches createBatch committed and has yet to push
  batches,           \* the channel of batch uuids
  backfillRead,      \* backfillFromDB has run its query
  backfillList,      \* what it has yet to push
  rebatchList,       \* what rebatchExpired has yet to push
  rebatchErrors,     \* errorCount of rebatchExpired
  worker,            \* step and message under construction of each worker
  queryID,           \* Wallet.queryID
  scanStep,          \* next statement of processNewTransactions
  scanned,           \* transactions handed over by the subscription
  \* --- the chain
  pool,              \* broadcast messages that may still get into a block
  ledger,            \* transactions of the wallet, by logical time
  lost,              \* messages lost so far
  now                \* the clock

dbVars    == <<batchStatus, transferStatus, externalMessage, transaction, lastProcessedLt>>
pushVars  == <<pushing, batches, backfillRead, backfillList, rebatchList, rebatchErrors>>
workVars  == <<worker, queryID>>
scanVars  == <<scanStep, scanned>>
chainVars == <<pool, ledger, lost, now>>
vars      == <<dbVars, boot, pushVars, workVars, scanVars, chainVars>>

WorkerStep == {"idle", "stamp", "number", "mark", "insert", "send"}
Idle       == [step |-> "idle", msg |-> NoMsg]

\* A transaction of the wallet: of one of its messages, or of something else
\* (NoMsg), which the scanner does not look at.
Transaction == [msg : Message \cup {NoMsg}, success : BOOLEAN]

\* The uuid of a message is a hash of its body.
Uuid(m) == <<m.batch, m.query_id, m.created_at>>

Recorded(m) == \E e \in externalMessage : Uuid(e) = Uuid(m)

ExpiredAt(m) == m.created_at + TTL

\* The wallet contract takes a message until its TTL is over by chain time.
Acceptable(m, time) == time <= ExpiredAt(m) + ClockSkew

\* The transactions of messages.
MessageTx == {i \in DOMAIN ledger : ledger[i].msg # NoMsg}

\* The contract took this query id before. It remembers an id for as long as
\* the message that used it could come again, and may forget it after that.
Used(query_id)       == \E i \in MessageTx : ledger[i].msg.query_id = query_id
Remembered(query_id) == \E i \in MessageTx : /\ ledger[i].msg.query_id = query_id
                                             /\ Acceptable(ledger[i].msg, now)

\* A worker holds a message from the moment it is stamped until it is sent.
Holding(w) == worker[w].step \in {"number", "mark", "insert", "send"}
Held       == {worker[w].msg : w \in {v \in Worker : Holding(v)}}

------------------------------------------------------------------------------
(***************************************************************************)
(* Statements of the repository                                            *)
(***************************************************************************)

\* Faulty form: a message counts as dead as soon as it has expired.
ResubmittableAtExpiry(m, time) == ExpiredAt(m) < time

\* The time at which ResubmitExpiredBatches may take a message for expired.
Resubmittable(m, time) == ExpiredAt(m) + TTL < time

\* Faulty form: looks for batches that were never taken up.
ExpiredBatchesOfNew ==
  {b \in Batch :
     /\ batchStatus[b] = "new"
     /\ \A m \in externalMessage : m.batch = b => Resubmittable(m, now)}

\* Faulty form: judges by the oldest message instead of the most recent one.
ExpiredBatchesByOldest ==
  {b \in Batch :
     /\ batchStatus[b] = "processing"
     /\ \E m \in externalMessage : m.batch = b /\ Resubmittable(m, now)}

\* ResubmitExpiredBatches: batches in processing whose latest message is past
\* its expiry by another TTL. A batch without a message is not selected: its
\* outer join gives NULL, which is not smaller than anything.
ExpiredBatches ==
  {b \in Batch :
     /\ batchStatus[b] = "processing"
     /\ \E m \in externalMessage : m.batch = b
     /\ \A m \in externalMessage : m.batch = b => Resubmittable(m, now)}

\* GetLastQueryID: the id of a row with the greatest created_at, 0 without a
\* row. Rows with the same created_at come in any order.
LastQueryIDs ==
  IF externalMessage = {} THEN {0}
  ELSE {m.query_id : m \in {e \in externalMessage :
          \A f \in externalMessage : f.created_at <= e.created_at}}

\* Faulty form: a failed transaction is recorded as a success.
UpdateBatchIgnoringAbort(m, success) ==
  /\ batchStatus'    = [batchStatus    EXCEPT ![m.batch] = "success"]
  /\ transferStatus' = [transferStatus EXCEPT ![m.batch] = "success"]

\* updateBatch: one statement settles the batch of a message, whatever its
\* status was, and the transfers of that batch.
UpdateBatch(m, success) ==
  LET status == IF success THEN "success" ELSE "error" IN
  /\ batchStatus'    = [batchStatus    EXCEPT ![m.batch] = status]
  /\ transferStatus' = [transferStatus EXCEPT ![m.batch] = status]

------------------------------------------------------------------------------
(***************************************************************************)
(* The batcher and the two loops that push batches into the channel        *)
(***************************************************************************)

Init ==
  /\ batchStatus = [b \in Batch |-> "none"]
  /\ transferStatus = [b \in Batch |-> "new"]
  /\ externalMessage = {} /\ transaction = {} /\ lastProcessedLt = 0
  /\ boot = 1
  /\ pushing = {} /\ batches = <<>>
  /\ backfillRead = FALSE /\ backfillList = {}
  /\ rebatchList = {} /\ rebatchErrors = 0
  /\ worker = [w \in Worker |-> Idle] /\ queryID = 0
  /\ scanStep = "wait" /\ scanned = 0
  /\ pool = {} /\ ledger = <<>> /\ lost = 0 /\ now = 0

\* Faulty form: the push does not wait for room.
PushUnbounded(b) == batches' = Append(batches, b)

\* b <- channel, while there is room.
Push(b) ==
  /\ Len(batches) < ParallelBatches
  /\ batches' = Append(batches, b)

\* createBatch up to the push: one statement marks transfers as batched and
\* creates the row. Its result may get lost after the commit.
NextBatch(b) ==
  /\ batchStatus[b] = "none"
  /\ batchStatus'    = [batchStatus EXCEPT ![b] = "new"]
  /\ transferStatus' = [transferStatus EXCEPT ![b] = "batched"]
  /\ \/ pushing' = pushing \cup {b}
     \/ CallMayFail /\ UNCHANGED pushing
  /\ UNCHANGED <<externalMessage, transaction, lastProcessedLt, boot, batches,
                 backfillRead, backfillList, rebatchList, rebatchErrors,
                 workVars, scanVars, chainVars>>

PushBatch(b) ==
  /\ b \in pushing
  /\ Push(b)
  /\ pushing' = pushing \ {b}
  /\ UNCHANGED <<dbVars, boot, backfillRead, backfillList, rebatchList,
                 rebatchErrors, workVars, scanVars, chainVars>>

\* Faulty form: picks up what was interrupted later, not what is still new.
BackfillReadProcessing ==
  /\ ~backfillRead
  /\ backfillRead' = TRUE
  /\ backfillList' = {b \in Batch : batchStatus[b] = "processing"}
  /\ UNCHANGED <<dbVars, boot, pushing, batches, rebatchList, rebatchErrors,
                 workVars, scanVars, chainVars>>

\* backfillFromDB reads once per start. An error leaves nothing to push.
BackfillRead ==
  /\ ~backfillRead
  /\ backfillRead' = TRUE
  /\ \/ backfillList' = {b \in Batch : batchStatus[b] = "new"}
     \/ CallMayFail /\ UNCHANGED backfillList
  /\ UNCHANGED <<dbVars, boot, pushing, batches, rebatchList, rebatchErrors,
                 workVars, scanVars, chainVars>>

BackfillPush(b) ==
  /\ b \in backfillList
  /\ Push(b)
  /\ backfillList' = backfillList \ {b}
  /\ UNCHANGED <<dbVars, boot, pushing, backfillRead, rebatchList,
                 rebatchErrors, workVars, scanVars, chainVars>>

\* rebatchExpired, one pass: the query, then a push for each batch.
RebatchRead ==
  /\ rebatchList = {}
  /\ rebatchList' = ExpiredBatches
  /\ rebatchErrors' = 0
  /\ UNCHANGED <<dbVars, boot, pushing, batches, backfillRead, backfillList,
                 workVars, scanVars, chainVars>>

\* A failed query has no other effect, so that it may happen in every instance.
RebatchFails ==
  /\ rebatchList = {}
  /\ rebatchErrors + 1 < ErrorCountTolerated
  /\ rebatchErrors' = rebatchErrors + 1
  /\ UNCHANGED <<dbVars, boot, pushing, batches, backfillRead, backfillList,
                 rebatchList, workVars, scanVars, chainVars>>

RebatchPush(b) ==
  /\ b \in rebatchList
  /\ Push(b)
  /\ rebatchList' = rebatchList \ {b}
  /\ UNCHANGED <<dbVars, boot, pushing, backfillRead, backfillList,
                 rebatchErrors, workVars, scanVars, chainVars>>

------------------------------------------------------------------------------
(***************************************************************************)
(* The workers                                                             *)
(***************************************************************************)

Goto(w, step, m) == worker' = [worker EXCEPT ![w] = [step |-> step, msg |-> m]]
Drop(w)          == worker' = [worker EXCEPT ![w] = Idle]

\* GetTransfersBatch reads rows that never change after NextBatch, whatever
\* the status of the batch is. If it fails, the batch is forgotten.
Receive(w) ==
  /\ worker[w].step = "idle"
  /\ batches # <<>>
  /\ batches' = Tail(batches)
  /\ \/ Goto(w, "stamp", [batch |-> Head(batches), query_id |-> 0,
                           created_at |-> 0, boot |-> boot])
     \/ CallMayFail /\ UNCHANGED worker
  /\ UNCHANGED <<dbVars, boot, pushing, backfillRead, backfillList, rebatchList,
                 rebatchErrors, queryID, scanVars, chainVars>>

\* PrepareMessage asks the liteserver for the wallet's state, and MessageBuilder
\* reads the clock before it takes the wallet's mutex. After an error the batch
\* is dropped; an error once it has a number is a failure of MarkProcessing.
Stamp(w) ==
  /\ worker[w].step = "stamp"
  /\ \/ Goto(w, "number", [worker[w].msg EXCEPT !.created_at = now])
     \/ CallMayFail /\ Drop(w)
  /\ UNCHANGED <<dbVars, boot, pushVars, queryID, scanVars, chainVars>>

\* Faulty form: two workers read the id before either writes it back.
TakeQueryIdUnlocked(w) ==
  /\ worker[w].step = "number"
  /\ queryID < LastSeqno
  /\ Goto(w, "mark", [worker[w].msg EXCEPT !.query_id = queryID + 1])
  /\ queryID' \in {queryID, queryID + 1}
  /\ UNCHANGED <<dbVars, boot, pushVars, scanVars, chainVars>>

\* The rest of MessageBuilder, under the mutex. Without an id left the batch
\* is dropped.
TakeQueryId(w) ==
  /\ worker[w].step = "number"
  /\ IF queryID < LastSeqno
       THEN /\ queryID' = queryID + 1
            /\ Goto(w, "mark", [worker[w].msg EXCEPT !.query_id = queryID + 1])
       ELSE Drop(w) /\ UNCHANGED queryID
  /\ UNCHANGED <<dbVars, boot, pushVars, scanVars, chainVars>>

\* MarkBatchAsProcessing, its first statement.
MarkProcessing(w) ==
  LET m == worker[w].msg IN
  /\ worker[w].step = "mark"
  /\ \/ /\ batchStatus' = [batchStatus EXCEPT ![m.batch] = "processing"]
        /\ Goto(w, "insert", m)
     \/ /\ CallMayFail
        /\ batchStatus' \in {batchStatus,
                             [batchStatus EXCEPT ![m.batch] = "processing"]}
        /\ Drop(w)
  /\ UNCHANGED <<transferStatus, externalMessage, transaction, lastProcessedLt,
                 boot, pushVars, queryID, scanVars, chainVars>>

\* Faulty form: the message is sent although it could not be recorded.
PersistExternalMessageIgnoringErrors(w) ==
  LET m == worker[w].msg IN
  /\ worker[w].step = "insert"
  /\ externalMessage' \in {externalMessage, externalMessage \cup {m}}
  /\ Goto(w, "send", m)
  /\ UNCHANGED <<batchStatus, transferStatus, transaction, lastProcessedLt,
                 boot, pushVars, queryID, scanVars, chainVars>>

\* persistExternalMessage, the second statement: the uuid is the primary key.
PersistExternalMessage(w) ==
  LET m == worker[w].msg IN
  /\ worker[w].step = "insert"
  /\ \/ /\ ~Recorded(m)
        /\ externalMessage' = externalMessage \cup {m}
        /\ Goto(w, "send", m)
     \/ /\ Recorded(m)
        /\ Drop(w) /\ UNCHANGED externalMessage
     \/ /\ CallMayFail /\ ~Recorded(m)
        /\ externalMessage' \in {externalMessage, externalMessage \cup {m}}
        /\ Drop(w)
  /\ UNCHANGED <<batchStatus, transferStatus, transaction, lastProcessedLt,
                 boot, pushVars, queryID, scanVars, chainVars>>

\* SendMessage: broadcast, or an error that nobody acts on. The liteserver
\* refuses a message that the contract would no longer take.
Send(w) ==
  LET m == worker[w].msg IN
  /\ worker[w].step = "send"
  /\ \/ /\ Acceptable(m, now)
        /\ pool' = pool \cup {m} /\ UNCHANGED lost
     \/ /\ Acceptable(m, now) /\ lost < MaxLost
        /\ lost' = lost + 1 /\ UNCHANGED pool
     \/ /\ ~Acceptable(m, now)
        /\ UNCHANGED <<pool, lost>>
  /\ Drop(w)
  /\ UNCHANGED <<dbVars, boot, pushVars, queryID, scanVars, ledger, now>>

------------------------------------------------------------------------------
(***************************************************************************)
(* The scanner. An error of any of its statements ends the process: that   *)
(* is Restart, which may come at every step.                               *)
(***************************************************************************)

\* The transaction at hand.
Tx == ledger[scanned + 1]

HasTx == scanned < Len(ledger)

ScanSkip ==
  /\ scanStep = "wait" /\ HasTx
  /\ Tx.msg = NoMsg
  /\ scanned' = scanned + 1
  /\ UNCHANGED <<dbVars, boot, pushVars, workVars, scanStep, chainVars>>

\* PersistTransaction, its first statement. The hash is the primary key and
\* the message has to be recorded; otherwise it is an error.
ScanInsert ==
  /\ scanStep = "wait" /\ HasTx
  /\ Tx.msg # NoMsg
  /\ scanned + 1 \notin transaction
  /\ Recorded(Tx.msg)
  /\ transaction' = transaction \cup {scanned + 1}
  /\ scanStep' = "update"
  /\ UNCHANGED <<batchStatus, transferStatus, externalMessage, lastProcessedLt,
                 boot, pushVars, workVars, scanned, chainVars>>

\* Faulty form: the batch is settled after the progress is saved.
ScanAdvanceBeforeUpdate ==
  /\ scanStep = "update"
  /\ lastProcessedLt' = scanned + 1
  /\ scanStep' = "advance"
  /\ UNCHANGED <<batchStatus, transferStatus, externalMessage, transaction,
                 boot, pushVars, workVars, scanned, chainVars>>

\* PersistTransaction, the second statement.
ScanUpdate ==
  /\ scanStep = "update"
  /\ UpdateBatch(Tx.msg, Tx.success)
  /\ scanStep' = "advance"
  /\ UNCHANGED <<externalMessage, transaction, lastProcessedLt, boot, pushVars,
                 workVars, scanned, chainVars>>

\* UpdateLastWalletLt.
ScanAdvance ==
  /\ scanStep = "advance"
  /\ lastProcessedLt' = scanned + 1
  /\ scanned' = scanned + 1
  /\ scanStep' = "wait"
  /\ UNCHANGED <<batchStatus, transferStatus, externalMessage, transaction,
                 boot, pushVars, workVars, chainVars>>

------------------------------------------------------------------------------
(***************************************************************************)
(* The process stops, at any point and for any reason, and starts again.   *)
(* The reasons in the code: log.Fatalf in the scanner (a duplicate         *)
(* transaction among them), a rebatchExpired that gives up after           *)
(* ErrorCountTolerated errors, a panic, a signal.                          *)
(***************************************************************************)
Restart ==
  /\ boot < MaxBoots
  /\ boot' = boot + 1
  /\ pushing' = {} /\ batches' = <<>>
  /\ backfillRead' = FALSE /\ backfillList' = {}
  /\ rebatchList' = {} /\ rebatchErrors' = 0
  /\ worker' = [w \in Worker |-> Idle]
  /\ queryID' \in LastQueryIDs
  /\ scanStep' = "wait" /\ scanned' = lastProcessedLt
  /\ UNCHANGED <<dbVars, chainVars>>

------------------------------------------------------------------------------
(***************************************************************************)
(* External: the wallet contract, the network and the clock                *)
(***************************************************************************)

\* The contract takes the message. The transfers went out unless it aborted.
Execute(m) ==
  /\ m \in pool
  /\ ~Remembered(m.query_id)
  /\ \E success \in BOOLEAN :
       ledger' = Append(ledger, [msg |-> m, success |-> success])
  /\ pool' = pool \ {m}
  /\ UNCHANGED <<dbVars, boot, pushVars, workVars, scanVars, lost, now>>

\* The contract refuses a query id it remembers, without a transaction.
Reject(m) ==
  /\ m \in pool
  /\ Used(m.query_id)
  /\ pool' = pool \ {m}
  /\ UNCHANGED <<dbVars, boot, pushVars, workVars, scanVars, ledger, lost, now>>

\* A broadcast message that no block ever holds.
Lose(m) ==
  /\ m \in pool
  /\ lost < MaxLost
  /\ pool' = pool \ {m}
  /\ lost' = lost + 1
  /\ UNCHANGED <<dbVars, boot, pushVars, workVars, scanVars, ledger, now>>

\* A transfer to the wallet, or an internal message of its own.
OtherTx ==
  /\ Cardinality(DOMAIN ledger \ MessageTx) < MaxOther
  /\ ledger' = Append(ledger, [msg |-> NoMsg, success |-> TRUE])
  /\ UNCHANGED <<dbVars, boot, pushVars, workVars, scanVars, pool, lost, now>>

\* A broadcast message is in a block, or lost, before it expires. The clock
\* stands still while nothing depends on it.
Tick ==
  /\ now < MaxTime
  /\ \A m \in pool : Acceptable(m, now + 1)
  /\ \E m \in externalMessage \cup Held : ~Resubmittable(m, now)
  /\ now' = now + 1
  /\ UNCHANGED <<dbVars, boot, pushVars, workVars, scanVars, pool, ledger, lost>>

------------------------------------------------------------------------------

Loops ==
  \/ \E b \in Batch : NextBatch(b) \/ PushBatch(b) \/ BackfillPush(b) \/ RebatchPush(b)
  \/ BackfillRead \/ RebatchRead \/ RebatchFails

Workers ==
  \E w \in Worker :
    \/ Receive(w) \/ Stamp(w) \/ TakeQueryId(w)
    \/ MarkProcessing(w) \/ PersistExternalMessage(w) \/ Send(w)

Scanner == ScanSkip \/ ScanInsert \/ ScanUpdate \/ ScanAdvance

Chain == (\E m \in pool : Execute(m) \/ Reject(m) \/ Lose(m)) \/ OtherTx \/ Tick

Next == Loops \/ Workers \/ Scanner \/ Restart \/ Chain

Spec == Init /\ [][Next]_vars

------------------------------------------------------------------------------

\* Type invariant. The channel never holds more than its capacity.
TypeOK ==
  /\ batchStatus \in [Batch -> BatchStatus]
  /\ transferStatus \in [Batch -> TransferStatus]
  /\ externalMessage \subseteq Message
  /\ transaction \subseteq Nat
  /\ lastProcessedLt \in Nat
  /\ boot \in 1 .. MaxBoots
  /\ pushing \subseteq Batch
  /\ batches \in Seq(Batch) /\ Len(batches) <= ParallelBatches
  /\ backfillRead \in BOOLEAN
  /\ backfillList \subseteq Batch
  /\ rebatchList \subseteq Batch
  /\ rebatchErrors \in Nat
  /\ worker \in [Worker -> [step : WorkerStep, msg : Message \cup {NoMsg}]]
  /\ \A w \in Worker : worker[w].step # "idle" => worker[w].msg \in Message
  /\ queryID \in Nat
  /\ scanStep \in {"wait", "update", "advance"}
  /\ scanned \in Nat
  /\ pool \subseteq Message
  /\ ledger \in Seq(Transaction)
  /\ lost \in Nat
  /\ now \in Nat

\* A message is broadcast only after its row is in the database, whatever
\* fails or crashes in between: every payment can be traced to its batch, and
\* the scanner never meets a transaction whose foreign key is missing.
RecordedBeforeSent ==
  /\ pool \subseteq externalMessage
  /\ \A i \in MessageTx : ledger[i].msg \in externalMessage

\* A batch is reported as paid (failed) only if a transaction of one of its
\* messages went through (aborted); the same for its transfers.
StatusHasTransaction ==
  \A b \in Batch : \A success \in BOOLEAN :
    LET status == IF success THEN "success" ELSE "error" IN
    status \in {batchStatus[b], transferStatus[b]} =>
      \E i \in MessageTx : ledger[i].msg.batch = b /\ ledger[i].success = success

\* The scanner's saved progress never runs ahead of its work: up to
\* last_processed_lt every transaction of a message is recorded and the
\* transfers of its batch have an outcome, across crashes between the three
\* writes of the scanner and whatever the workers write meanwhile.
NothingSkipped ==
  \A i \in MessageTx :
    i <= lastProcessedLt =>
      /\ i \in transaction
      /\ transferStatus[ledger[i].msg.batch] \in {"success", "error"}

\* Two messages of one run of the process never share a query id, however the
\* workers interleave in MessageBuilder.
UniqueIdsPerBoot ==
  \A m, n \in externalMessage : m.boot = n.boot /\ m.query_id = n.query_id => m = n

N == INSTANCE Numbering WITH
       last     <- queryID,
       inHand   <- {worker[w].msg.query_id : w \in
                      {v \in Worker : worker[v].step \in {"mark", "insert"}}},
       recorded <- {m.query_id : m \in externalMessage}

\* However the workers interleave, fail and crash, each message gets the number
\* after the last one, no two in hand share one, only such a number is ever
\* recorded, and a restart goes on from a recorded one: the sender counts its
\* messages as module QueryId counts ids.
NumbersInOrder == N!Spec

\* rebatchExpired takes a batch only when no message recorded for it can be
\* executed any more: the wait of another TTL after the expiry covers a chain
\* clock that lags by up to ClockSkew.
ResubmitOnlyDead ==
  [][\A b \in rebatchList' \ rebatchList :
       \A m \in externalMessage : m.batch = b => ~Acceptable(m, now)]_vars

\* Where a batch can be between its row and the worker that marks it.
InFlight(b) ==
  \/ b \in pushing \cup backfillList \cup rebatchList
  \/ \E i \in DOMAIN batches : batches[i] = b
  \/ \E w \in Worker : worker[w].step \in {"stamp", "number", "mark"}
                      /\ worker[w].msg.batch = b

\* While ids last and no call fails, a batch that is still new is on its way to
\* a worker or will be found by the backfill, however often the process crashed.
\* A call that fails, of the database or in PrepareMessage, may leave it to the
\* next start.
NewIsInFlight ==
  ~CallMayFail =>
    \A b \in Batch :
      batchStatus[b] = "new" => \/ InFlight(b)
                               \/ ~backfillRead
                               \/ queryID = LastSeqno

\* Documented at rebatchExpired: it takes batches that "still haven't been
\* confirmed". The code looks at the status, which the scanner sets later.
ResentUnconfirmed ==
  [][\A b \in rebatchList' \ rebatchList :
       \A i \in MessageTx : ledger[i].msg.batch = b => ~ledger[i].success]_vars

\* Documented at Wallet.init: it "restores the state of the query ID". The
\* code restores the id with the greatest created_at, not the greatest id.
QueryIdRestored ==
  [][boot' # boot => \A m \in externalMessage : m.query_id <= queryID']_vars

==============================================================================

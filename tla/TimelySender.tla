---------------------------- MODULE TimelySender ----------------------------
(***************************************************************************)
(* The sender under the timing it is configured for. Nothing in the code   *)
(* enforces these conditions: they are what it takes for every batch to be *)
(* paid at most once, and each of them is a hazard of its own.             *)
(***************************************************************************)
EXTENDS Sender

\* An executed message is confirmed in the database before the wait after its
\* expiry is over, counting the time the process is down. Otherwise the clock
\* stops: also after a crash between ScanInsert and ScanUpdate, which the scanner
\* never gets past, though the loop of restarts would go on resubmitting.
ScannerPrompt ==
  now' # now =>
    \A i \in MessageTx :
      batchStatus[ledger[i].msg.batch] = "processing" =>
        ~Resubmittable(ledger[i].msg, now')

\* A batch taken by one pass of rebatchExpired has its new message recorded
\* before the next pass (ExpirationCheckInterval, 30 s).
RebatchSpaced ==
  \A b \in rebatchList' \ rebatchList :
    /\ ~InFlight(b)
    /\ \A w \in Worker : worker[w].step = "insert" => worker[w].msg.batch # b

\* The batcher creates no batch before the backfill has run its query.
BackfillFirst ==
  \A b \in Batch : batchStatus[b] = "none" /\ ~backfillRead => batchStatus'[b] = "none"

Timely == ScannerPrompt /\ RebatchSpaced /\ BackfillFirst

TimelySpec == Init /\ [][Next /\ Timely]_vars

------------------------------------------------------------------------------
(***************************************************************************)
(* What liveness needs on top of it                                        *)
(***************************************************************************)

\* A message is sent before it expires (seconds against MessageTTL, 300 s).
WorkersPrompt == now' # now => \A m \in Held : Acceptable(m, now')

\* The process does not crash between two statements that belong together.
CleanCrash ==
  boot' # boot =>
    /\ scanStep = "wait"
    /\ \A w \in Worker : worker[w].step # "insert"

InTime == Timely /\ WorkersPrompt /\ CleanCrash

\* The goroutines of the process run, time passes, and a message the contract
\* takes gets into a block; nothing has to fail, get lost or crash.
Fairness ==
  /\ \A b \in Batch : /\ WF_vars(PushBatch(b) /\ InTime)
                      /\ WF_vars(BackfillPush(b) /\ InTime)
                      /\ WF_vars(RebatchPush(b) /\ InTime)
  /\ WF_vars(BackfillRead /\ InTime)
  /\ WF_vars(RebatchRead /\ InTime)
  /\ \A w \in Worker :
       WF_vars(/\ \/ Receive(w) \/ Stamp(w) \/ TakeQueryId(w)
                  \/ MarkProcessing(w) \/ PersistExternalMessage(w) \/ Send(w)
               /\ InTime)
  /\ WF_vars(Scanner /\ InTime)
  /\ WF_vars((\E m \in pool : Execute(m) \/ Reject(m)) /\ InTime)
  /\ WF_vars(Tick /\ InTime)

LiveSpec == Init /\ [][Next /\ InTime]_vars /\ Fairness

------------------------------------------------------------------------------

Settled(b) == batchStatus[b] \in {"success", "error"}

Verdicts(b, success) ==
  Cardinality({i \in MessageTx : ledger[i].msg.batch = b /\ ledger[i].success = success})

P == INSTANCE Payout WITH
       paid     <- [b \in Batch |-> Verdicts(b, TRUE)],
       failed   <- [b \in Batch |-> Verdicts(b, FALSE)],
       reported <- [b \in Batch |-> IF Settled(b) THEN batchStatus[b] ELSE "open"]

\* Under the timing above a batch gets one transaction at most and its final
\* status is the verdict of that transaction, across lost messages, restored
\* query ids, resubmissions and crashes, but for the resubmissions that
\* ScannerPrompt excludes after a crash of the scanner.
PaidAtMostOnce == P!Spec

MessagesOf(b) == {m \in externalMessage : m.batch = b}

\* Which message of a settled batch has a transaction, in the order that the
\* notifier's query sorts them.
PaidBy(b) ==
  LET paying == {ledger[i].msg : i \in {j \in transaction : ledger[j].msg.batch = b}} IN
  Cardinality({m \in MessagesOf(b) : \E p \in paying : m.created_at <= p.created_at})

O == INSTANCE Outcomes WITH
       MaxMessages <- LastSeqno * MaxBoots,
       status      <- [b \in Batch |-> IF Settled(b) THEN batchStatus[b] ELSE "processing"],
       messages    <- [b \in Batch |-> Cardinality(MessagesOf(b))],
       transaction <- [b \in Batch |-> IF Settled(b) THEN PaidBy(b) ELSE 0]

\* Under that timing the sender does no more than the notifier relies on: a
\* settled batch gets no further message, verdict or transaction, so that what
\* a poll has found stays true, across failing calls, resubmissions and the same
\* crashes.
SettledForGood == O!Spec

\* Every batch that was created gets a final status: a lost or refused message
\* is replaced after its expiry, and a crash outside the two windows of
\* CleanCrash loses nothing. A batch here is one whose message can be built.
EventuallySettled ==
  \A b \in Batch : batchStatus[b] = "new" ~> Settled(b)

==============================================================================

------------------------- MODULE TimelySenderProofs -------------------------
(***************************************************************************)
(* The sender under its timing pays a batch once and settles it for good:  *)
(* TimelySpec implements Payout and Outcomes, for any number of batches,   *)
(* workers, starts and ids, any channel capacity and any TTL.              *)
(***************************************************************************)
EXTENDS TimelySender, SenderProofs, FiniteSetTheorems

(***************************************************************************)
(* The inductive invariant. A batch that is not settled has one copy in    *)
(* flight, or one message the contract may still take, or one transaction, *)
(* or none of these; the three never exist side by side.                   *)
(***************************************************************************)

Listed(b)   == b \in pushing \cup backfillList \cup rebatchList
Queued(b)   == \E i \in DOMAIN batches : batches[i] = b
Building(w) == worker[w].step \in {"stamp", "number", "mark", "insert"}

\* A copy of the batch is in the process, and no message of that copy is
\* recorded yet.
Busy(b) ==
  \/ Listed(b) \/ Queued(b)
  \/ \E w \in Worker : Building(w) /\ worker[w].msg.batch = b

NoRepeat == \A i, j \in DOMAIN batches : batches[i] = batches[j] => i = j

\* There is one copy of a batch at most.
OneCopy ==
  /\ \A b \in pushing : b \notin backfillList \cup rebatchList
  /\ \A b \in backfillList : b \notin rebatchList
  /\ \A b \in Batch : Listed(b) => ~Queued(b)
  /\ NoRepeat
  /\ \A w \in Worker : Building(w) => /\ ~Listed(worker[w].msg.batch)
                                      /\ ~Queued(worker[w].msg.batch)
  /\ \A v, w \in Worker :
       Building(v) /\ Building(w) /\ worker[v].msg.batch = worker[w].msg.batch => v = w

\* A worker is about to send a message that the contract would take.
Sending(w) == worker[w].step = "send" /\ Acceptable(worker[w].msg, now)

\* Some message of the batch may still be taken.
Live(b) ==
  \/ \E m \in pool : m.batch = b
  \/ \E w \in Worker : Sending(w) /\ worker[w].msg.batch = b

Executed(b) == \E i \in MessageTx : ledger[i].msg.batch = b

\* There is one message of a batch at most that may still be taken.
OneMessage ==
  /\ \A m, n \in pool : m.batch = n.batch => m = n
  /\ \A w \in Worker : Sending(w) => \A m \in pool : m.batch # worker[w].msg.batch
  /\ \A v, w \in Worker :
       Sending(v) /\ Sending(w) /\ worker[v].msg.batch = worker[w].msg.batch => v = w

OneTx == \A i, j \in MessageTx : ledger[i].msg.batch = ledger[j].msg.batch => i = j

\* The three stages of a batch exclude each other.
Apart ==
  \A b \in Batch : /\ Busy(b) => ~Live(b) /\ ~Executed(b)
                   /\ Live(b) => ~Executed(b)

\* What the status tells of them.
StatusInv ==
  /\ \A b \in Batch : Busy(b) => batchStatus[b] # "none"
  /\ \A b \in Batch : batchStatus[b] = "new" /\ Busy(b) => backfillRead
  /\ \A m \in externalMessage : batchStatus[m.batch] \notin {"none", "new"}
  /\ \A w \in Worker : worker[w].step = "insert" =>
       batchStatus[worker[w].msg.batch] \notin {"none", "new"}

\* What the clock tells of them.
TimeInv ==
  /\ \A m \in pool : Acceptable(m, now)
  /\ \A i \in MessageTx : batchStatus[ledger[i].msg.batch] = "processing" =>
       ~Resubmittable(ledger[i].msg, now)

OnceInv == OneCopy /\ OneMessage /\ OneTx /\ Apart /\ StatusInv /\ TimeInv

\* The scanner has recorded the transaction of a settled batch.
SettledInv ==
  /\ transaction \subseteq MessageTx
  /\ \A b \in Batch : Settled(b) => \E i \in transaction : ledger[i].msg.batch = b

-----------------------------------------------------------------------------
(***************************************************************************)
(* Where the copies are                                                    *)
(***************************************************************************)

LEMMA PushQueues ==
  ASSUME TypeOK, NoRepeat, NEW c \in Batch, ~Queued(c), Push(c)
  PROVE  NoRepeat' /\ \A b : Queued(b)' <=> Queued(b) \/ b = c
<1>1. batches \in Seq(Batch) /\ Len(batches) \in Nat /\ DOMAIN batches = 1 .. Len(batches)
  BY DEF TypeOK
<1>2. /\ DOMAIN batches' = 1 .. Len(batches) + 1
      /\ \A i \in 1 .. Len(batches) : batches'[i] = batches[i]
      /\ batches'[Len(batches) + 1] = c
  BY <1>1 DEF Push
<1>3. \A i \in 1 .. Len(batches) + 1 : i \in 1 .. Len(batches) \/ i = Len(batches) + 1
  BY <1>1
<1>4. \A i \in 1 .. Len(batches) : i \in 1 .. Len(batches) + 1
  BY <1>1
<1>5. Len(batches) + 1 \in 1 .. Len(batches) + 1
  BY <1>1
<1>6. \A i \in DOMAIN batches : batches[i] # c
  BY DEF Queued
<1> QED BY <1>1, <1>2, <1>3, <1>4, <1>5, <1>6 DEF Queued, NoRepeat

LEMMA TailUnqueues ==
  ASSUME TypeOK, NoRepeat, batches # <<>>, batches' = Tail(batches)
  PROVE  /\ Head(batches) \in Batch /\ Queued(Head(batches))
         /\ NoRepeat'
         /\ \A b : Queued(b)' <=> Queued(b) /\ b # Head(batches)
<1>1. batches \in Seq(Batch) /\ Len(batches) \in Nat /\ DOMAIN batches = 1 .. Len(batches)
  BY DEF TypeOK
<1>2. /\ Len(batches) >= 1 /\ Head(batches) = batches[1] /\ batches[1] \in Batch
      /\ DOMAIN batches' = 1 .. Len(batches) - 1
      /\ \A i \in 1 .. Len(batches) - 1 : batches'[i] = batches[i + 1]
  BY <1>1
<1>3. NoRepeat'
  <2> SUFFICES ASSUME NEW i \in DOMAIN batches', NEW j \in DOMAIN batches',
                      batches'[i] = batches'[j]
               PROVE  i = j
    BY DEF NoRepeat
  <2>1. i + 1 \in DOMAIN batches /\ j + 1 \in DOMAIN batches /\ i \in Nat /\ j \in Nat
    BY <1>1, <1>2
  <2>2. i + 1 = j + 1
    BY <1>2, <2>1 DEF NoRepeat
  <2> QED BY <2>1, <2>2
<1>4. ASSUME NEW b, Queued(b)' PROVE Queued(b) /\ b # Head(batches)
  <2>1. PICK i \in DOMAIN batches' : batches'[i] = b
    BY <1>4 DEF Queued
  <2>2. i + 1 \in DOMAIN batches /\ i + 1 # 1 /\ 1 \in DOMAIN batches /\ batches[i + 1] = b
    BY <1>1, <1>2, <2>1
  <2> QED BY <1>2, <2>2 DEF Queued, NoRepeat
<1>5. ASSUME NEW b, Queued(b), b # Head(batches) PROVE Queued(b)'
  <2>1. PICK i \in DOMAIN batches : batches[i] = b
    BY <1>5 DEF Queued
  <2>2. i # 1
    BY <1>2, <1>5, <2>1
  <2>3. i - 1 \in DOMAIN batches' /\ batches'[i - 1] = b
    BY <1>1, <1>2, <2>1, <2>2
  <2> QED BY <2>3 DEF Queued
<1>6. 1 \in DOMAIN batches
  BY <1>1, <1>2
<1> QED BY <1>2, <1>3, <1>4, <1>5, <1>6 DEF Queued

\* Steps that move no copy and may drop some.
LEMMA CopiesFewer ==
  ASSUME OneCopy,
         pushing' \subseteq pushing, backfillList' \subseteq backfillList,
         rebatchList' \subseteq rebatchList,
         batches' = batches \/ batches' = <<>>,
         \A w \in Worker : Building(w)' =>
           Building(w) /\ worker'[w].msg.batch = worker[w].msg.batch
  PROVE  OneCopy' /\ \A b : Busy(b)' => Busy(b)
<1>1. \A b : Listed(b)' => Listed(b)
  BY DEF Listed
<1>2. NoRepeat' /\ \A b : Queued(b)' => Queued(b)
  BY DEF NoRepeat, Queued, OneCopy
<1>3. OneCopy'
  BY <1>1, <1>2 DEF OneCopy
<1> QED BY <1>1, <1>2, <1>3 DEF Busy

LEMMA CopiesPush ==
  ASSUME TypeOK, OneCopy, NEW c \in Batch,
         PushBatch(c) \/ BackfillPush(c) \/ RebatchPush(c)
  PROVE  OneCopy' /\ \A b : Busy(b)' => Busy(b)
<1>1. Push(c) /\ worker' = worker /\ Listed(c)
  BY DEF PushBatch, BackfillPush, RebatchPush, workVars, Listed
<1>2. /\ pushing' \subseteq pushing /\ backfillList' \subseteq backfillList
      /\ rebatchList' \subseteq rebatchList
  BY DEF PushBatch, BackfillPush, RebatchPush
<1>3. \A b : Listed(b)' => Listed(b) /\ b # c
  BY <1>2 DEF PushBatch, BackfillPush, RebatchPush, OneCopy, Listed
<1>4. ~Queued(c)
  BY <1>1 DEF OneCopy
<1>5. NoRepeat' /\ \A b : Queued(b)' <=> Queued(b) \/ b = c
  BY <1>1, <1>4, PushQueues DEF OneCopy
<1>6. \A w \in Worker : Building(w)' <=> Building(w)
  BY <1>1 DEF Building
<1>7. OneCopy'
  BY <1>1, <1>2, <1>3, <1>5, <1>6 DEF OneCopy
<1> QED BY <1>1, <1>3, <1>5, <1>6, <1>7 DEF Busy

LEMMA CopiesReceive ==
  ASSUME TypeOK, OneCopy, NEW w \in Worker, Receive(w)
  PROVE  OneCopy' /\ \A b : Busy(b)' => Busy(b)
<1> DEFINE c == Head(batches)
<1>0. worker \in [Worker -> [step : WorkerStep, msg : Message \cup {NoMsg}]]
  BY DEF TypeOK
<1>1. /\ UNCHANGED <<pushing, backfillList, rebatchList>>
      /\ worker[w].step = "idle" /\ batches # <<>> /\ batches' = Tail(batches)
      /\ \A v \in Worker \ {w} : worker'[v] = worker[v]
      /\ worker'[w].step = "idle" \/ worker'[w].msg.batch = c
  BY <1>0 DEF Receive, Goto
<1>2. c \in Batch /\ Queued(c) /\ NoRepeat' /\ \A b : Queued(b)' <=> Queued(b) /\ b # c
  BY <1>1, TailUnqueues DEF OneCopy
<1>3. \A b : Listed(b)' <=> Listed(b)
  BY <1>1 DEF Listed
<1>4. \A v \in Worker : Building(v)' =>
        \/ v # w /\ Building(v) /\ worker'[v].msg.batch = worker[v].msg.batch
        \/ v = w /\ worker'[v].msg.batch = c
  BY <1>1 DEF Building
<1>5. ~Listed(c) /\ \A v \in Worker : Building(v) => worker[v].msg.batch # c
  BY <1>2 DEF OneCopy
<1> HIDE DEF c
<1>6. OneCopy'
  BY <1>1, <1>2, <1>3, <1>4, <1>5 DEF OneCopy
<1>7. \A b : Busy(b)' => Busy(b)
  BY <1>2, <1>3, <1>4 DEF Busy
<1> QED BY <1>6, <1>7

\* Steps that put batches into a list: none of them has another copy.
LEMMA CopiesMore ==
  ASSUME OneCopy, UNCHANGED <<batches, worker>>, NEW S \in SUBSET Batch,
         \A b \in S : ~Busy(b),
         \/ pushing' \subseteq pushing \cup S /\ UNCHANGED <<backfillList, rebatchList>>
         \/ backfillList' \subseteq backfillList \cup S /\ UNCHANGED <<pushing, rebatchList>>
         \/ rebatchList' \subseteq rebatchList \cup S /\ UNCHANGED <<pushing, backfillList>>
  PROVE  OneCopy' /\ \A b : Busy(b)' => Busy(b) \/ b \in S
<1>1. /\ \A b : Queued(b)' <=> Queued(b)
      /\ \A w \in Worker : Building(w)' <=> Building(w)
      /\ NoRepeat' <=> NoRepeat
  BY DEF Queued, Building, NoRepeat
<1>2. \A b : Listed(b)' => Listed(b) \/ b \in S
  BY DEF Listed
<1>3. \A b \in S : /\ b \notin pushing /\ b \notin backfillList /\ b \notin rebatchList
                   /\ ~Queued(b)
                   /\ \A w \in Worker : Building(w) => worker[w].msg.batch # b
  BY DEF Busy, Listed
<1>4. OneCopy'
  BY <1>1, <1>2, <1>3 DEF OneCopy
<1> QED BY <1>1, <1>2, <1>4 DEF Busy

-----------------------------------------------------------------------------
(***************************************************************************)
(* The messages and transactions of a batch, and its status                *)
(***************************************************************************)

liveVars == <<pool, ledger, now, externalMessage, batchStatus>>

\* Steps of the goroutines that neither record nor send: the batches of S are
\* those that get a copy.
LEMMA StagesKept ==
  ASSUME OnceInv, OneCopy', UNCHANGED liveVars, backfillRead => backfillRead',
         NEW S, \A b : Busy(b)' => Busy(b) \/ b \in S,
         \A b \in S : /\ ~Live(b) /\ ~Executed(b) /\ batchStatus[b] # "none"
                     /\ (batchStatus[b] = "new" => backfillRead'),
         \A w \in Worker : Sending(w)' => Sending(w) /\ worker'[w].msg = worker[w].msg,
         \A w \in Worker : worker'[w].step = "insert" => worker'[w] = worker[w]
  PROVE  OnceInv'
<1>1. \A b : Live(b)' => Live(b)
  BY DEF Live, liveVars
<1>2. MessageTx' = MessageTx /\ \A b : Executed(b)' <=> Executed(b)
  BY DEF Executed, MessageTx, liveVars
<1>3. OneMessage'
  BY DEF OnceInv, OneMessage, liveVars
<1>4. OneTx'
  BY <1>2 DEF OnceInv, OneTx, liveVars
<1>5. Apart'
  BY <1>1, <1>2 DEF OnceInv, Apart
<1>6. StatusInv'
  BY DEF OnceInv, StatusInv, liveVars
<1>7. TimeInv'
  BY <1>2 DEF OnceInv, TimeInv, liveVars
<1> QED BY <1>3, <1>4, <1>5, <1>6, <1>7 DEF OnceInv

LEMMA StagesFewer ==
  ASSUME OnceInv, OneCopy', UNCHANGED liveVars, backfillRead => backfillRead',
         \A b : Busy(b)' => Busy(b),
         \A w \in Worker : Sending(w)' => Sending(w) /\ worker'[w].msg = worker[w].msg,
         \A w \in Worker : worker'[w].step = "insert" => worker'[w] = worker[w]
  PROVE  OnceInv'
<1> DEFINE S == {}
<1>1. /\ \A b : Busy(b)' => Busy(b) \/ b \in S
      /\ \A b \in S : /\ ~Live(b) /\ ~Executed(b) /\ batchStatus[b] # "none"
                     /\ (batchStatus[b] = "new" => backfillRead')
  OBVIOUS
<1> HIDE DEF S
<1> QED BY <1>1, StagesKept

\* A batch without a recorded message can be at no later stage.
LEMMA NoMessageYet ==
  ASSUME RecordedInv, OnceInv, NEW b, batchStatus[b] \in {"none", "new"}
  PROVE  ~Live(b) /\ ~Executed(b)
<1>1. \A m \in externalMessage : m.batch # b
  BY DEF OnceInv, StatusInv
<1> QED BY <1>1 DEF Live, Executed, Sending, RecordedInv, RecordedBeforeSent

\* A batch with a copy in flight or a live message is not settled.
LEMMA StagesUnsettled ==
  ASSUME ScanInv, OnceInv, NEW b \in Batch, Busy(b) \/ Live(b)
  PROVE  ~Settled(b)
<1>1. ~Executed(b)
  BY DEF OnceInv, Apart
<1>2. ASSUME NEW success \in BOOLEAN,
             batchStatus[b] = IF success THEN "success" ELSE "error"
      PROVE  FALSE
  BY <1>1, <1>2 DEF ScanInv, StatusHasTransaction, Executed
<1>3. batchStatus[b] # "success"
  BY <1>2
<1>4. batchStatus[b] # "error"
  BY <1>2
<1> QED BY <1>3, <1>4 DEF Settled

LEMMA OnceNextBatch ==
  ASSUME TypeOK, RecordedInv, OnceInv, BackfillFirst, NEW b \in Batch, NextBatch(b)
  PROVE  OnceInv'
<1>1. /\ batchStatus[b] = "none" /\ batchStatus' = [batchStatus EXCEPT ![b] = "new"]
      /\ UNCHANGED <<batches, backfillRead, backfillList, rebatchList, worker,
                     externalMessage, pool, ledger, now>>
  BY DEF NextBatch, workVars, chainVars
<1>2. batchStatus'[b] = "new" /\ \A c \in Batch \ {b} : batchStatus'[c] = batchStatus[c]
  BY <1>1 DEF TypeOK
<1>3. backfillRead /\ ~Busy(b)
  BY <1>1, <1>2 DEF BackfillFirst, OnceInv, StatusInv
<1>4. OneCopy' /\ \A c : Busy(c)' => Busy(c) \/ c = b
  <2>1. CASE pushing' = pushing \cup {b}
    <3> DEFINE S == {b}
    <3>1. S \in SUBSET Batch /\ (\A c \in S : ~Busy(c)) /\ pushing' \subseteq pushing \cup S
      BY <1>3, <2>1
    <3>2. \A c : c \in S <=> c = b
      OBVIOUS
    <3> HIDE DEF S
    <3>3. OneCopy' /\ \A c : Busy(c)' => Busy(c) \/ c \in S
      BY <1>1, <3>1, CopiesMore DEF OnceInv
    <3> QED BY <3>2, <3>3
  <2>2. CASE pushing' = pushing
    BY <1>1, <2>2, CopiesFewer DEF OnceInv, Building
  <2> QED BY <2>1, <2>2 DEF NextBatch
<1>5. ~Live(b) /\ ~Executed(b)
  BY <1>1, NoMessageYet
<1>6. MessageTx' = MessageTx /\ \A w \in Worker : Sending(w)' <=> Sending(w)
  BY <1>1 DEF MessageTx, Sending
<1>7. \A c : (Live(c)' <=> Live(c)) /\ (Executed(c)' <=> Executed(c))
  BY <1>1, <1>6 DEF Live, Executed
<1>8. OneMessage' /\ OneTx'
  BY <1>1, <1>6 DEF OnceInv, OneMessage, OneTx
<1>9. Apart'
  BY <1>4, <1>5, <1>7 DEF OnceInv, Apart
<1>10. StatusInv'
  <2>1. \A m \in externalMessage : m.batch \in Batch /\ m.batch # b
    BY <1>1 DEF TypeOK, Message, OnceInv, StatusInv
  <2>2. \A w \in Worker : worker[w].step = "insert" =>
          worker[w].msg.batch \in Batch /\ worker[w].msg.batch # b
    BY <1>1 DEF TypeOK, Message, OnceInv, StatusInv
  <2> QED BY <1>1, <1>2, <1>3, <1>4, <2>1, <2>2 DEF OnceInv, StatusInv
<1>11. TimeInv'
  <2>1. \A i \in MessageTx : ledger[i].msg.batch \in Batch
    BY MessageTxType
  <2> QED BY <1>1, <1>2, <1>6, <2>1 DEF OnceInv, TimeInv
<1> QED BY <1>4, <1>8, <1>9, <1>10, <1>11 DEF OnceInv

LEMMA OnceBackfillRead ==
  ASSUME TypeOK, RecordedInv, OnceInv, BackfillRead
  PROVE  OnceInv'
<1> DEFINE S == {b \in Batch : batchStatus[b] = "new"}
<1>1. /\ ~backfillRead /\ backfillRead'
      /\ UNCHANGED <<pushing, batches, rebatchList, worker>> /\ UNCHANGED liveVars
      /\ backfillList' = S \/ backfillList' = backfillList
  BY DEF BackfillRead, workVars, dbVars, chainVars, liveVars
<1>2. /\ \A w \in Worker : Sending(w)' => Sending(w) /\ worker'[w].msg = worker[w].msg
      /\ \A w \in Worker : worker'[w].step = "insert" => worker'[w] = worker[w]
  BY <1>1 DEF Sending, liveVars
<1>3. CASE backfillList' = backfillList
  <2>1. OneCopy' /\ \A b : Busy(b)' => Busy(b)
    BY <1>1, <1>3, CopiesFewer DEF OnceInv, Building
  <2> QED BY <1>1, <1>2, <2>1, StagesFewer
<1>4. CASE backfillList' = S
  <2>1. \A b \in S : ~Busy(b)
    BY <1>1 DEF OnceInv, StatusInv
  <2>2. OneCopy' /\ \A b : Busy(b)' => Busy(b) \/ b \in S
    BY <1>1, <1>4, <2>1, CopiesMore DEF OnceInv
  <2>3. \A b \in S : ~Live(b) /\ ~Executed(b) /\ batchStatus[b] = "new"
    BY NoMessageYet
  <2> HIDE DEF S
  <2> QED BY <1>1, <1>2, <2>2, <2>3, StagesKept
<1> QED BY <1>1, <1>3, <1>4

\* The steps that push, and those that stay in the memory of a worker.
LEMMA OncePush ==
  ASSUME TypeOK, OnceInv, NEW c \in Batch,
         PushBatch(c) \/ BackfillPush(c) \/ RebatchPush(c)
  PROVE  OnceInv'
<1>1. OneCopy' /\ \A b : Busy(b)' => Busy(b)
  BY CopiesPush DEF OnceInv
<1>2. UNCHANGED liveVars /\ worker' = worker /\ backfillRead' = backfillRead
  BY DEF PushBatch, BackfillPush, RebatchPush, liveVars, dbVars, workVars, chainVars
<1>3. \A w \in Worker : Sending(w)' <=> Sending(w)
  BY <1>2 DEF Sending, liveVars
<1> QED BY <1>1, <1>2, <1>3, StagesFewer

\* What rebatchExpired takes: nothing of the batch is in flight, and the wait
\* after the expiry has outlived its messages.
LEMMA OnceRebatchRead ==
  ASSUME TypeOK, RecordedInv, OnceInv, RebatchSpaced, RebatchRead
  PROVE  OnceInv'
<1> DEFINE S == ExpiredBatches
<1>1. /\ rebatchList = {} /\ rebatchList' = S
      /\ UNCHANGED <<pushing, batches, backfillRead, backfillList, worker>>
      /\ UNCHANGED liveVars
  BY DEF RebatchRead, workVars, dbVars, chainVars, liveVars
<1>2. /\ S \in SUBSET Batch
      /\ \A b \in S : /\ batchStatus[b] = "processing"
                      /\ \A m \in externalMessage : m.batch = b => Resubmittable(m, now)
  BY DEF ExpiredBatches
<1> HIDE DEF S
<1>3. \A b \in S : ~Busy(b)
  BY <1>1 DEF RebatchSpaced, InFlight, Busy, Listed, Queued, Building
<1>4. ASSUME NEW b \in S PROVE ~Live(b) /\ ~Executed(b)
  <2>1. \A m \in externalMessage : m.batch = b => Resubmittable(m, now) /\ ~Acceptable(m, now)
    BY <1>2, ResubmittableIsDead
  <2>2. ~Live(b)
    BY <2>1 DEF Live, Sending, RecordedInv, RecordedBeforeSent, OnceInv, TimeInv
  <2>3. ~Executed(b)
    BY <1>2, <2>1 DEF Executed, RecordedInv, RecordedBeforeSent, OnceInv, TimeInv
  <2> QED BY <2>2, <2>3
<1>5. OneCopy' /\ \A b : Busy(b)' => Busy(b) \/ b \in S
  BY <1>1, <1>2, <1>3, CopiesMore DEF OnceInv
<1>6. /\ \A w \in Worker : Sending(w)' => Sending(w) /\ worker'[w].msg = worker[w].msg
      /\ \A w \in Worker : worker'[w].step = "insert" => worker'[w] = worker[w]
  BY <1>1 DEF Sending, liveVars
<1> QED BY <1>1, <1>2, <1>4, <1>5, <1>6, StagesKept

LEMMA OnceReceive ==
  ASSUME TypeOK, OnceInv, NEW w \in Worker, Receive(w)
  PROVE  OnceInv'
<1>0. worker \in [Worker -> [step : WorkerStep, msg : Message \cup {NoMsg}]]
  BY DEF TypeOK
<1>1. OneCopy' /\ \A b : Busy(b)' => Busy(b)
  BY CopiesReceive DEF OnceInv
<1>2. UNCHANGED liveVars /\ backfillRead' = backfillRead
  BY DEF Receive, liveVars, dbVars, chainVars
<1>3. \A v \in Worker : worker'[v].step \in {"insert", "send"} => worker'[v] = worker[v]
  BY <1>0 DEF Receive, Goto
<1>4. \A v \in Worker : Sending(v)' => Sending(v) /\ worker'[v].msg = worker[v].msg
  BY <1>2, <1>3 DEF Sending, liveVars
<1> QED BY <1>1, <1>2, <1>3, <1>4, StagesFewer

\* The copy stays with its worker, or is dropped.
LEMMA CopiesKept ==
  ASSUME TypeOK, OnceInv, NEW w \in Worker, UNCHANGED pushVars,
         \A v \in Worker \ {w} : worker'[v] = worker[v],
         Building(w)' => Building(w) /\ worker'[w].msg.batch = worker[w].msg.batch
  PROVE  OneCopy' /\ \A b : Busy(b)' => Busy(b)
<1>1. \A v \in Worker : Building(v)' =>
        Building(v) /\ worker'[v].msg.batch = worker[v].msg.batch
  BY DEF Building
<1> QED BY <1>1, CopiesFewer DEF OnceInv, pushVars

LEMMA OnceBuild ==
  ASSUME TypeOK, OnceInv, NEW w \in Worker, Stamp(w) \/ TakeQueryId(w)
  PROVE  OnceInv'
<1>0. /\ worker \in [Worker -> [step : WorkerStep, msg : Message \cup {NoMsg}]]
      /\ worker[w].step # "idle" => worker[w].msg \in Message
  BY DEF TypeOK
<1>1. UNCHANGED liveVars /\ UNCHANGED pushVars
  BY DEF Stamp, TakeQueryId, liveVars, dbVars, chainVars
<1>2. /\ Building(w) /\ worker'[w].step \in {"number", "mark", "idle"}
      /\ worker'[w].step = "idle" \/ worker'[w].msg.batch = worker[w].msg.batch
      /\ \A v \in Worker \ {w} : worker'[v] = worker[v]
  BY <1>0 DEF Stamp, TakeQueryId, Goto, Drop, Idle, Building, Message
<1>3. Building(w)' => Building(w) /\ worker'[w].msg.batch = worker[w].msg.batch
  BY <1>2 DEF Building
<1>4. OneCopy' /\ \A b : Busy(b)' => Busy(b)
  BY <1>1, <1>2, <1>3, CopiesKept
<1>5. \A v \in Worker : worker'[v].step \in {"insert", "send"} => worker'[v] = worker[v]
  BY <1>2
<1>6. \A v \in Worker : Sending(v)' => Sending(v) /\ worker'[v].msg = worker[v].msg
  BY <1>1, <1>5 DEF Sending, liveVars
<1> QED BY <1>1, <1>4, <1>5, <1>6, StagesFewer DEF pushVars

LEMMA OnceMark ==
  ASSUME TypeOK, OnceInv, NEW w \in Worker, MarkProcessing(w)
  PROVE  OnceInv'
<1> DEFINE m == worker[w].msg
<1>0. worker \in [Worker -> [step : WorkerStep, msg : Message \cup {NoMsg}]]
  BY DEF TypeOK
<1>1. /\ worker[w].step = "mark" /\ m.batch \in Batch
      /\ UNCHANGED pushVars /\ UNCHANGED <<pool, ledger, now, externalMessage>>
  BY DEF MarkProcessing, TypeOK, Message, chainVars
<1>2. /\ \A v \in Worker \ {w} : worker'[v] = worker[v]
      /\ \/ worker'[w].step = "idle"
         \/ /\ worker'[w].step = "insert" /\ worker'[w].msg = m
            /\ batchStatus'[m.batch] = "processing"
      /\ batchStatus'[m.batch] \in {batchStatus[m.batch], "processing"}
      /\ \A b \in Batch \ {m.batch} : batchStatus'[b] = batchStatus[b]
  BY <1>0, <1>1 DEF MarkProcessing, Goto, Drop, Idle, TypeOK
<1>3. OneCopy' /\ \A b : Busy(b)' => Busy(b)
  BY <1>1, <1>2, CopiesKept DEF Building
<1>4. Busy(m.batch) /\ ~Executed(m.batch)
  BY <1>1 DEF Busy, Building, OnceInv, Apart
<1>5. /\ \A v \in Worker : Sending(v)' => Sending(v) /\ worker'[v].msg = worker[v].msg
      /\ MessageTx' = MessageTx
  BY <1>1, <1>2 DEF Sending, MessageTx
<1>6. \A b : (Live(b)' => Live(b)) /\ (Executed(b)' <=> Executed(b))
  BY <1>1, <1>5 DEF Live, Executed
<1>7. OneMessage' /\ OneTx' /\ Apart'
  BY <1>1, <1>3, <1>5, <1>6 DEF OnceInv, OneMessage, OneTx, Apart
<1>8. StatusInv'
  <2>1. \A n \in externalMessage : n.batch \in Batch
    BY DEF TypeOK, Message
  <2>2. \A v \in Worker : worker[v].step = "insert" => worker[v].msg.batch \in Batch
    BY DEF TypeOK, Message
  <2>3. \A b \in Batch : batchStatus'[b] = batchStatus[b] \/ batchStatus'[b] = "processing"
    BY <1>2
  <2>4. \A b \in Batch : Busy(b)' => batchStatus'[b] # "none"
    BY <1>3, <2>3 DEF OnceInv, StatusInv
  <2>5. \A b \in Batch : batchStatus'[b] = "new" /\ Busy(b)' => backfillRead'
    BY <1>1, <1>3, <2>3 DEF OnceInv, StatusInv, pushVars
  <2>6. \A n \in externalMessage' : batchStatus'[n.batch] \notin {"none", "new"}
    BY <1>1, <2>1, <2>3 DEF OnceInv, StatusInv
  <2>7. \A v \in Worker : worker'[v].step = "insert" =>
          batchStatus'[worker'[v].msg.batch] \notin {"none", "new"}
    BY <1>2, <2>2, <2>3 DEF OnceInv, StatusInv
  <2> QED BY <2>4, <2>5, <2>6, <2>7 DEF StatusInv
<1>9. TimeInv'
  <2>1. \A i \in MessageTx : ledger[i].msg.batch \in Batch /\ ledger[i].msg.batch # m.batch
    BY <1>4, MessageTxType DEF Executed
  <2> QED BY <1>1, <1>2, <1>5, <2>1 DEF OnceInv, TimeInv
<1> QED BY <1>3, <1>7, <1>8, <1>9 DEF OnceInv

\* The copy becomes a message; what the failing call leaves is never sent.
LEMMA OncePersist ==
  ASSUME TypeOK, OnceInv, NEW w \in Worker, PersistExternalMessage(w)
  PROVE  OnceInv'
<1>0. worker \in [Worker -> [step : WorkerStep, msg : Message \cup {NoMsg}]]
  BY DEF TypeOK
<1>m. PICK m \in Message : m = worker[w].msg
  BY DEF PersistExternalMessage, TypeOK
<1>c. PICK c \in Batch : c = m.batch
  BY DEF Message
<1>1. /\ worker[w].step = "insert"
      /\ UNCHANGED pushVars /\ UNCHANGED <<pool, ledger, now, batchStatus>>
      /\ externalMessage' \subseteq externalMessage \cup {m}
  BY <1>m DEF PersistExternalMessage, chainVars
<1>2. /\ \A v \in Worker \ {w} : worker'[v] = worker[v]
      /\ worker'[w].step = "idle" \/ (worker'[w].step = "send" /\ worker'[w].msg = m)
  BY <1>0, <1>m DEF PersistExternalMessage, Goto, Drop, Idle
<1>3. OneCopy' /\ \A b : Busy(b)' => Busy(b)
  BY <1>1, <1>2, CopiesKept DEF Building
<1>4. Busy(c) /\ ~Live(c) /\ ~Executed(c)
  BY <1>1, <1>m, <1>c DEF Busy, Building, OnceInv, Apart
<1>5. ~Busy(c)'
  <2>1. /\ ~Listed(c) /\ ~Queued(c)
        /\ \A v \in Worker \ {w} : Building(v) => worker[v].msg.batch # c
    BY <1>1, <1>m, <1>c DEF OnceInv, OneCopy, Building
  <2>2. ~Listed(c)' /\ ~Queued(c)'
    BY <1>1, <2>1 DEF Listed, Queued, pushVars
  <2>3. \A v \in Worker : Building(v)' => v # w /\ Building(v) /\ worker'[v].msg = worker[v].msg
    BY <1>2 DEF Building
  <2> QED BY <2>1, <2>2, <2>3 DEF Busy
<1>6. /\ \A v \in Worker \ {w} : Sending(v)' <=> Sending(v)
      /\ Sending(w)' => worker'[w].msg = m
      /\ MessageTx' = MessageTx
  BY <1>1, <1>2 DEF Sending, MessageTx
<1>7. /\ \A b : Live(b)' => Live(b) \/ b = c
      /\ \A b : Executed(b)' <=> Executed(b)
  BY <1>1, <1>2, <1>6, <1>c DEF Live, Executed
<1>8. OneMessage'
  <2>1. \A n \in pool : n.batch # c
    BY <1>4 DEF Live
  <2>2. \A v \in Worker : Sending(v) => worker[v].msg.batch # c
    BY <1>4 DEF Live
  <2> QED BY <1>1, <1>2, <1>6, <1>c, <2>1, <2>2 DEF OnceInv, OneMessage
<1>9. Apart'
  BY <1>3, <1>4, <1>5, <1>7 DEF OnceInv, Apart
<1>10. StatusInv'
  BY <1>1, <1>2, <1>3, <1>m DEF OnceInv, StatusInv, pushVars
<1>11. OneTx' /\ TimeInv'
  BY <1>1, <1>6 DEF OnceInv, OneTx, TimeInv
<1> QED BY <1>3, <1>8, <1>9, <1>10, <1>11 DEF OnceInv

LEMMA OnceSend ==
  ASSUME TypeOK, OnceInv, NEW w \in Worker, Send(w)
  PROVE  OnceInv'
<1> DEFINE m == worker[w].msg
<1>0. worker \in [Worker -> [step : WorkerStep, msg : Message \cup {NoMsg}]]
  BY DEF TypeOK
<1>1. /\ worker[w].step = "send"
      /\ UNCHANGED pushVars /\ UNCHANGED <<ledger, now, batchStatus, externalMessage>>
      /\ pool' = pool \/ (Sending(w) /\ pool' = pool \cup {m})
  BY DEF Send, Sending, dbVars
<1>2. worker'[w].step = "idle" /\ \A v \in Worker \ {w} : worker'[v] = worker[v]
  BY <1>0 DEF Send, Drop, Idle
<1>3. OneCopy' /\ \A b : Busy(b)' => Busy(b)
  BY <1>1, <1>2, CopiesKept DEF Building
<1>4. /\ \A v \in Worker : Sending(v)' => v # w /\ Sending(v) /\ worker'[v].msg = worker[v].msg
      /\ MessageTx' = MessageTx
  BY <1>1, <1>2 DEF Sending, MessageTx
<1>5. \A b : (Live(b)' => Live(b)) /\ (Executed(b)' <=> Executed(b))
  BY <1>1, <1>4 DEF Live, Executed
<1>6. OneMessage'
  BY <1>1, <1>4 DEF OnceInv, OneMessage
<1>7. OneTx' /\ Apart'
  BY <1>1, <1>3, <1>4, <1>5 DEF OnceInv, OneTx, Apart
<1>8. StatusInv'
  BY <1>1, <1>2, <1>3 DEF OnceInv, StatusInv, pushVars
<1>9. TimeInv'
  BY <1>1, <1>4 DEF OnceInv, TimeInv, Sending
<1> QED BY <1>3, <1>6, <1>7, <1>8, <1>9 DEF OnceInv
LEMMA OnceScanner ==
  ASSUME TypeOK, ScanInv, OnceInv, Scanner
  PROVE  OnceInv'
<1>1. /\ UNCHANGED <<pool, ledger, now, externalMessage>> /\ UNCHANGED pushVars
      /\ worker' = worker
  BY DEF Scanner, ScanSkip, ScanInsert, ScanUpdate, ScanAdvance, dbVars, workVars, chainVars
<1>2. /\ MessageTx' = MessageTx
      /\ \A w \in Worker : (Building(w)' <=> Building(w)) /\ (Sending(w)' <=> Sending(w))
  BY <1>1 DEF MessageTx, Building, Sending
<1>3. OneCopy' /\ \A b : Busy(b)' => Busy(b)
  BY <1>1, <1>2, CopiesFewer DEF OnceInv, pushVars
<1>4. CASE UNCHANGED batchStatus
  BY <1>1, <1>2, <1>3, <1>4, StagesFewer DEF liveVars, pushVars
<1>5. CASE ScanUpdate
  <2>1. scanned + 1 \in MessageTx
    BY <1>5 DEF ScanUpdate, ScanInv
  <2>2. Tx.msg \in Message /\ Tx.success \in BOOLEAN
    BY <2>1, MessageTxType DEF Tx
  <2>3. PICK c \in Batch : c = Tx.msg.batch
    BY <2>2 DEF Message
  <2>4. /\ batchStatus'[c] \in {"success", "error"}
        /\ \A b \in Batch \ {c} : batchStatus'[b] = batchStatus[b]
    BY <1>5, <2>2, <2>3, UpdateBatchSettles DEF ScanUpdate
  <2>5. \A b : (Live(b)' <=> Live(b)) /\ (Executed(b)' <=> Executed(b))
    BY <1>1, <1>2 DEF Live, Executed
  <2>6. OneMessage' /\ OneTx' /\ Apart'
    BY <1>1, <1>2, <1>3, <2>5 DEF OnceInv, OneMessage, OneTx, Apart
  <2>7. StatusInv'
    <3>1. \A m \in externalMessage : m.batch \in Batch
      BY DEF TypeOK, Message
    <3>2. \A w \in Worker : worker[w].step = "insert" => worker[w].msg.batch \in Batch
      BY DEF TypeOK, Message
    <3> QED BY <1>1, <1>3, <2>4, <3>1, <3>2 DEF OnceInv, StatusInv, pushVars
  <2>8. TimeInv'
    <3>1. \A i \in MessageTx : ledger[i].msg.batch \in Batch
      BY MessageTxType
    <3> QED BY <1>1, <1>2, <2>4, <3>1 DEF OnceInv, TimeInv
  <2> QED BY <1>3, <2>6, <2>7, <2>8 DEF OnceInv
<1> QED BY <1>4, <1>5 DEF Scanner, ScanSkip, ScanInsert, ScanAdvance, dbVars

\* A crash takes every copy with it, and the messages that were not sent.
LEMMA OnceRestart ==
  ASSUME TypeOK, OnceInv, Restart
  PROVE  OnceInv'
<1>1. /\ UNCHANGED liveVars
      /\ pushing' = {} /\ batches' = <<>> /\ backfillList' = {} /\ rebatchList' = {}
      /\ \A w \in Worker : worker'[w].step = "idle"
  BY DEF Restart, dbVars, chainVars, liveVars, Idle
<1>2. \A w \in Worker : ~Building(w)' /\ ~Sending(w)'
  BY <1>1 DEF Building, Sending
<1>3. OneCopy' /\ \A b : ~Busy(b)'
  BY <1>1, <1>2 DEF OneCopy, NoRepeat, Busy, Listed, Queued
<1>4. \A b : Live(b)' => Live(b)
  BY <1>1, <1>2 DEF Live, liveVars
<1>5. MessageTx' = MessageTx /\ \A b : Executed(b)' <=> Executed(b)
  BY <1>1 DEF Executed, MessageTx, liveVars
<1>6. OneMessage' /\ OneTx' /\ Apart'
  BY <1>1, <1>2, <1>3, <1>4, <1>5 DEF OnceInv, OneMessage, OneTx, Apart, liveVars
<1>7. StatusInv'
  BY <1>1, <1>3 DEF OnceInv, StatusInv, liveVars
<1>8. TimeInv'
  BY <1>1, <1>5 DEF OnceInv, TimeInv, liveVars
<1> QED BY <1>3, <1>6, <1>7, <1>8 DEF OnceInv

-----------------------------------------------------------------------------
(***************************************************************************)
(* The chain                                                               *)
(***************************************************************************)

\* Steps outside the process move no copy.
LEMMA CopiesStay ==
  ASSUME OnceInv, UNCHANGED <<pushVars, workVars>>
  PROVE  /\ OneCopy' /\ \A b : Busy(b)' => Busy(b)
         /\ \A w \in Worker : worker'[w] = worker[w]
<1>1. \A w \in Worker : worker'[w] = worker[w] /\ (Building(w)' <=> Building(w))
  BY DEF Building, workVars
<1> QED BY <1>1, CopiesFewer DEF OnceInv, pushVars

\* Reject and Lose.
LEMMA OnceGone ==
  ASSUME OnceInv, pool' \subseteq pool,
         UNCHANGED <<dbVars, pushVars, workVars, ledger, now>>
  PROVE  OnceInv'
<1>1. /\ OneCopy' /\ \A b : Busy(b)' => Busy(b)
      /\ \A w \in Worker : worker'[w] = worker[w]
  BY CopiesStay
<1>2. /\ MessageTx' = MessageTx
      /\ \A w \in Worker : Sending(w)' <=> Sending(w)
  BY <1>1 DEF MessageTx, Sending
<1>3. \A b : (Live(b)' => Live(b)) /\ (Executed(b)' <=> Executed(b))
  BY <1>1, <1>2 DEF Live, Executed
<1>4. OneMessage' /\ OneTx' /\ Apart'
  BY <1>1, <1>2, <1>3 DEF OnceInv, OneMessage, OneTx, Apart
<1>5. StatusInv'
  BY <1>1 DEF OnceInv, StatusInv, dbVars, pushVars
<1>6. TimeInv'
  BY <1>2 DEF OnceInv, TimeInv, dbVars
<1> QED BY <1>1, <1>4, <1>5, <1>6 DEF OnceInv

LEMMA OnceExecute ==
  ASSUME TypeOK, OnceInv, NEW m \in pool, Execute(m)
  PROVE  OnceInv'
<1>1. PICK success \in BOOLEAN : ledger' = Append(ledger, [msg |-> m, success |-> success])
  BY DEF Execute
<1>2. m \in Message
  BY DEF TypeOK
<1>c. PICK c \in Batch : c = m.batch
  BY <1>2 DEF Message
<1>k. PICK k : k = Len(ledger) + 1
  OBVIOUS
<1>3. /\ MessageTx' = MessageTx \cup {k} /\ ledger'[k].msg = m
      /\ \A i \in MessageTx : ledger'[i] = ledger[i] /\ i # k
  <2> DEFINE tx == [msg |-> m, success |-> success]
  <2>1. tx \in Transaction /\ tx.msg # NoMsg
    BY <1>2, NoMsgAssumption DEF Transaction
  <2>2. tx.msg = m
    OBVIOUS
  <2>3. ledger' = Append(ledger, tx)
    BY <1>1
  <2>4. \A i \in MessageTx : i \in DOMAIN ledger /\ i # k
    BY <1>k, MessageTxType DEF MessageTx
  <2> HIDE DEF tx
  <2> QED BY <1>k, <2>1, <2>2, <2>3, <2>4, AppendMessageTx
<1>4. /\ pool' = pool \ {m}
      /\ UNCHANGED <<batchStatus, externalMessage, now>> /\ UNCHANGED <<pushVars, workVars>>
  BY DEF Execute, dbVars
<1>5. /\ OneCopy' /\ \A b : Busy(b)' => Busy(b)
      /\ \A w \in Worker : worker'[w] = worker[w]
  BY <1>4, CopiesStay
<1>6. Live(c) /\ ~Executed(c) /\ ~Busy(c)
  BY <1>c DEF Live, OnceInv, Apart
<1>7. \A w \in Worker : Sending(w)' <=> Sending(w)
  BY <1>4, <1>5 DEF Sending
<1>8. \A b : Executed(b)' <=> Executed(b) \/ b = c
  BY <1>3, <1>c DEF Executed
<1>9. \A b : Live(b)' => Live(b) /\ b # c
  <2>1. \A n \in pool' : n \in pool /\ n.batch # c
    BY <1>4, <1>c DEF OnceInv, OneMessage
  <2>2. \A w \in Worker : Sending(w) => worker[w].msg.batch # c
    BY <1>c DEF OnceInv, OneMessage
  <2> QED BY <1>5, <1>7, <2>1, <2>2 DEF Live
<1>10. OneMessage'
  BY <1>4, <1>5, <1>7 DEF OnceInv, OneMessage
<1>11. OneTx'
  BY <1>3, <1>6, <1>c DEF OnceInv, OneTx, Executed
<1>12. Apart'
  BY <1>5, <1>6, <1>8, <1>9 DEF OnceInv, Apart
<1>13. StatusInv'
  BY <1>4, <1>5 DEF OnceInv, StatusInv, pushVars
<1>14. TimeInv'
  <2>1. Acceptable(m, now)
    BY DEF OnceInv, TimeInv
  <2>2. ~Resubmittable(m, now)
    BY <1>2, <2>1, SenderAssumption DEF Acceptable, Resubmittable, ExpiredAt, Message, TypeOK
  <2> QED BY <1>3, <1>4, <2>2 DEF OnceInv, TimeInv
<1> QED BY <1>5, <1>10, <1>11, <1>12, <1>13, <1>14 DEF OnceInv

LEMMA OnceOtherTx ==
  ASSUME TypeOK, OnceInv, OtherTx
  PROVE  OnceInv'
<1> DEFINE tx == [msg |-> NoMsg, success |-> TRUE]
<1>1. tx \in Transaction /\ tx.msg = NoMsg /\ ledger' = Append(ledger, tx)
  BY DEF OtherTx, Transaction
<1> HIDE DEF tx
<1>2. MessageTx' = MessageTx /\ \A i \in MessageTx : ledger'[i] = ledger[i]
  BY <1>1, AppendMessageTx DEF MessageTx
<1>3. /\ UNCHANGED <<batchStatus, externalMessage, now, pool>>
      /\ UNCHANGED <<pushVars, workVars>>
  BY DEF OtherTx, dbVars
<1>4. /\ OneCopy' /\ \A b : Busy(b)' => Busy(b)
      /\ \A w \in Worker : worker'[w] = worker[w]
  BY <1>3, CopiesStay
<1>5. \A w \in Worker : Sending(w)' <=> Sending(w)
  BY <1>3, <1>4 DEF Sending
<1>6. \A b : (Live(b)' <=> Live(b)) /\ (Executed(b)' <=> Executed(b))
  BY <1>2, <1>3, <1>4, <1>5 DEF Live, Executed
<1>7. OneMessage' /\ OneTx' /\ Apart'
  BY <1>2, <1>3, <1>4, <1>5, <1>6 DEF OnceInv, OneMessage, OneTx, Apart
<1>8. StatusInv'
  BY <1>3, <1>4 DEF OnceInv, StatusInv, pushVars
<1>9. TimeInv'
  BY <1>2, <1>3 DEF OnceInv, TimeInv
<1> QED BY <1>4, <1>7, <1>8, <1>9 DEF OnceInv

\* Time only takes messages away; the scanner keeps up with it.
LEMMA OnceTick ==
  ASSUME TypeOK, OnceInv, ScannerPrompt, Tick
  PROVE  OnceInv'
<1>1. /\ now' = now + 1 /\ now' # now
      /\ \A m \in pool : Acceptable(m, now')
      /\ UNCHANGED <<batchStatus, externalMessage, ledger, pool>>
      /\ UNCHANGED <<pushVars, workVars>>
  BY DEF Tick, dbVars, TypeOK
<1>2. /\ OneCopy' /\ \A b : Busy(b)' => Busy(b)
      /\ \A w \in Worker : worker'[w] = worker[w]
  BY <1>1, CopiesStay
<1>3. ASSUME NEW w \in Worker, Sending(w)' PROVE Sending(w)
  <2>1. worker[w].step = "send" /\ worker[w].msg \in Message /\ Acceptable(worker[w].msg, now + 1)
    BY <1>1, <1>2, <1>3 DEF Sending, TypeOK, Acceptable, ExpiredAt
  <2>2. Acceptable(worker[w].msg, now)
    BY <2>1, SenderAssumption DEF Acceptable, ExpiredAt, Message, TypeOK
  <2> QED BY <2>1, <2>2 DEF Sending
<1>4. MessageTx' = MessageTx
  BY <1>1 DEF MessageTx
<1>5. \A b : (Live(b)' => Live(b)) /\ (Executed(b)' <=> Executed(b))
  BY <1>1, <1>2, <1>3, <1>4 DEF Live, Executed
<1>6. OneMessage' /\ OneTx' /\ Apart'
  BY <1>1, <1>2, <1>3, <1>4, <1>5 DEF OnceInv, OneMessage, OneTx, Apart
<1>7. StatusInv'
  BY <1>1, <1>2 DEF OnceInv, StatusInv, pushVars
<1>8. TimeInv'
  <2>1. \A i \in MessageTx : batchStatus[ledger[i].msg.batch] = "processing" =>
          ~Resubmittable(ledger[i].msg, now')
    BY <1>1 DEF ScannerPrompt
  <2> QED BY <1>1, <1>4, <2>1 DEF TimeInv
<1> QED BY <1>2, <1>6, <1>7, <1>8 DEF OnceInv

-----------------------------------------------------------------------------
(***************************************************************************)
(* OnceInv and SettledInv are invariants                                   *)
(***************************************************************************)

LEMMA OnceInvStep ==
  TypeOK /\ RecordedInv /\ ScanInv /\ OnceInv /\ [Next /\ Timely]_vars => OnceInv'
<1> SUFFICES ASSUME TypeOK, RecordedInv, ScanInv, OnceInv, [Next /\ Timely]_vars
             PROVE  OnceInv'
  OBVIOUS
<1>1. CASE UNCHANGED vars
  <2>1. /\ UNCHANGED liveVars /\ UNCHANGED <<pushVars, workVars>>
    BY <1>1 DEF vars, liveVars, chainVars, dbVars
  <2>2. /\ OneCopy' /\ \A b : Busy(b)' => Busy(b)
        /\ \A w \in Worker : worker'[w] = worker[w]
    BY <2>1, CopiesStay
  <2>3. \A w \in Worker : Sending(w)' <=> Sending(w)
    BY <2>1, <2>2 DEF Sending, liveVars
  <2> QED BY <2>1, <2>2, <2>3, StagesFewer DEF pushVars
<1>2. CASE Loops
  <2>1. ASSUME NEW b \in Batch, NextBatch(b) PROVE OnceInv'
    BY <1>1, <2>1, OnceNextBatch DEF Timely
  <2>2. ASSUME NEW b \in Batch, PushBatch(b) \/ BackfillPush(b) \/ RebatchPush(b)
        PROVE  OnceInv'
    BY <2>2, OncePush
  <2>3. CASE BackfillRead
    BY <2>3, OnceBackfillRead
  <2>4. CASE RebatchRead
    BY <1>1, <2>4, OnceRebatchRead DEF Timely
  <2>5. CASE RebatchFails
    <3>1. UNCHANGED <<batches, pushing, backfillRead, backfillList, rebatchList, worker>>
          /\ UNCHANGED liveVars
      BY <2>5 DEF RebatchFails, workVars, chainVars, dbVars, liveVars
    <3>2. \A w \in Worker : (Sending(w)' <=> Sending(w)) /\ (Building(w)' <=> Building(w))
      BY <3>1 DEF Sending, Building, liveVars
    <3>3. OneCopy' /\ \A b : Busy(b)' => Busy(b)
      BY <3>1, <3>2, CopiesFewer DEF OnceInv
    <3> QED BY <3>1, <3>2, <3>3, StagesFewer
  <2> QED BY <1>2, <2>1, <2>2, <2>3, <2>4, <2>5 DEF Loops
<1>3. CASE Workers
  BY <1>3, OnceReceive, OnceBuild, OnceMark, OncePersist, OnceSend DEF Workers
<1>4. CASE Scanner
  BY <1>4, OnceScanner
<1>5. CASE Restart
  BY <1>5, OnceRestart
<1>6. CASE Chain
  <2>1. ASSUME NEW m \in pool, Reject(m) \/ Lose(m) PROVE OnceInv'
    BY <2>1, OnceGone DEF Reject, Lose
  <2>2. CASE Tick
    BY <1>1, <2>2, OnceTick DEF Timely
  <2> QED BY <1>6, <2>1, <2>2, OnceExecute, OnceOtherTx DEF Chain
<1> QED BY <1>1, <1>2, <1>3, <1>4, <1>5, <1>6 DEF Next

LEMMA OnceInvInit == Init => OnceInv
<1> SUFFICES ASSUME Init PROVE OnceInv
  OBVIOUS
<1>1. /\ batches = <<>> /\ MessageTx = {} /\ \A b : ~Listed(b) /\ ~Queued(b)
      /\ \A w \in Worker : ~Building(w) /\ ~Sending(w)
  BY DEF Init, MessageTx, Listed, Queued, Building, Sending, Idle
<1>2. /\ \A b : ~Busy(b) /\ ~Live(b) /\ ~Executed(b)
  BY <1>1 DEF Init, Busy, Live, Executed
<1> QED BY <1>1, <1>2 DEF Init, OnceInv, OneCopy, NoRepeat, OneMessage, OneTx, Apart,
                          StatusInv, TimeInv, Idle

LEMMA TimelyIsSpec == TimelySpec => Spec
<1>1. [Next /\ Timely]_vars => [Next]_vars
  OBVIOUS
<1> QED BY <1>1, PTL DEF TimelySpec, Spec

LEMMA OnceInvAlways == TimelySpec => []OnceInv
BY OnceInvInit, OnceInvStep, TimelyIsSpec, TypeCorrect, RecordedInvAlways,
   ScanInvAlways, PTL DEF TimelySpec

LEMMA SettledInvStep ==
  TypeOK /\ ScanInv /\ OnceInv /\ SettledInv /\ [Next]_vars => SettledInv'
<1> SUFFICES ASSUME TypeOK, ScanInv, OnceInv, SettledInv, [Next]_vars
             PROVE  SettledInv'
  OBVIOUS
<1>0. \A i \in MessageTx : i \in Nat /\ ledger[i].msg.batch \in Batch
  BY MessageTxType
<1>1. CASE UNCHANGED <<transaction, batchStatus, ledger>>
  BY <1>1 DEF SettledInv, Settled, MessageTx
\* No step but the scanner's settles a batch.
<1>2. ASSUME UNCHANGED <<transaction, ledger>>,
             \A b \in Batch : Settled(b)' => Settled(b)
      PROVE  SettledInv'
  BY <1>2 DEF SettledInv, MessageTx
<1>3. CASE Loops
  <2>1. ASSUME NEW b \in Batch, NextBatch(b) PROVE SettledInv'
    <3>1. UNCHANGED <<transaction, ledger>> /\ batchStatus' = [batchStatus EXCEPT ![b] = "new"]
      BY <2>1 DEF NextBatch, chainVars
    <3> QED BY <1>2, <3>1 DEF TypeOK, Settled
  <2> QED BY <1>1, <1>3, <2>1 DEF Loops, PushBatch, BackfillPush, RebatchPush,
             BackfillRead, RebatchRead, RebatchFails, dbVars, chainVars
<1>4. CASE Workers
  <2>1. ASSUME NEW w \in Worker, MarkProcessing(w) PROVE SettledInv'
    <3>1. /\ UNCHANGED <<transaction, ledger>>
          /\ \/ batchStatus' = batchStatus
             \/ batchStatus' = [batchStatus EXCEPT ![worker[w].msg.batch] = "processing"]
      BY <2>1 DEF MarkProcessing, chainVars
    <3> QED BY <1>2, <3>1 DEF TypeOK, Settled
  <2> QED BY <1>1, <1>4, <2>1 DEF Workers, Receive, Stamp, TakeQueryId,
             PersistExternalMessage, Send, dbVars, chainVars
<1>5. CASE Scanner
  <2>1. CASE ScanInsert
    <3>1. /\ transaction' = transaction \cup {scanned + 1} /\ scanned + 1 \in MessageTx
          /\ UNCHANGED <<batchStatus, ledger>>
      BY <2>1 DEF ScanInsert, MessageTx, HasTx, Tx, chainVars, TypeOK
    <3> QED BY <3>1 DEF SettledInv, Settled, MessageTx
  <2>2. CASE ScanUpdate
    <3>1. scanned + 1 \in MessageTx /\ scanned + 1 \in transaction
      BY <2>2 DEF ScanUpdate, ScanInv
    <3>2. PICK c \in Batch : c = Tx.msg.batch
      BY <3>1, MessageTxType DEF Tx
    <3>3. \A b \in Batch : Settled(b)' => Settled(b) \/ b = c
      <4>1. Tx.msg \in Message /\ Tx.success \in BOOLEAN
        BY <3>1, MessageTxType DEF Tx
      <4> QED BY <2>2, <3>2, <4>1, UpdateBatchSettles DEF ScanUpdate, Settled
    <3>4. UNCHANGED <<transaction, ledger>>
      BY <2>2 DEF ScanUpdate, chainVars
    <3> QED BY <3>1, <3>2, <3>3, <3>4 DEF SettledInv, MessageTx, Tx
  <2> QED BY <1>1, <1>5, <2>1, <2>2 DEF Scanner, ScanSkip, ScanAdvance, dbVars, chainVars
<1>6. CASE Restart
  BY <1>1, <1>6 DEF Restart, dbVars, chainVars
<1>7. CASE Chain
  <2>1. ASSUME NEW tx \in Transaction, ledger' = Append(ledger, tx),
               UNCHANGED <<transaction, batchStatus>>
        PROVE  SettledInv'
    <3>1. MessageTx \subseteq MessageTx' /\ \A i \in MessageTx : ledger'[i] = ledger[i]
      BY <2>1, AppendMessageTx DEF MessageTx
    <3> QED BY <2>1, <3>1 DEF SettledInv, Settled
  <2>2. ASSUME NEW m \in pool, Execute(m) PROVE SettledInv'
    <3>1. PICK success \in BOOLEAN : ledger' = Append(ledger, [msg |-> m, success |-> success])
      BY <2>2 DEF Execute
    <3>2. [msg |-> m, success |-> success] \in Transaction
      BY DEF Transaction, TypeOK
    <3> QED BY <2>1, <2>2, <3>1, <3>2 DEF Execute, dbVars
  <2>3. CASE OtherTx
    <3>1. [msg |-> NoMsg, success |-> TRUE] \in Transaction
      BY DEF Transaction
    <3> QED BY <2>1, <2>3, <3>1 DEF OtherTx, dbVars
  <2> QED BY <1>1, <1>7, <2>2, <2>3 DEF Chain, Reject, Lose, Tick, dbVars
<1>8. CASE UNCHANGED vars
  BY <1>1, <1>8 DEF vars, dbVars, chainVars
<1> QED BY <1>3, <1>4, <1>5, <1>6, <1>7, <1>8 DEF Next

LEMMA SettledInvAlways == TimelySpec => []SettledInv
<1>1. Init => SettledInv
  BY DEF Init, SettledInv, Settled
<1> QED BY <1>1, SettledInvStep, TimelyIsSpec, OnceInvAlways, TypeCorrect, ScanInvAlways,
           PTL DEF Spec

-----------------------------------------------------------------------------
(***************************************************************************)
(* PaidAtMostOnce: TimelySpec implements Payout                            *)
(***************************************************************************)

VerdictTx(b, success) ==
  {i \in MessageTx : ledger[i].msg.batch = b /\ ledger[i].success = success}

Reported(b) == IF Settled(b) THEN batchStatus[b] ELSE "open"

\* A batch without a transaction has no verdict, and one with a transaction has
\* one verdict, of that transaction.
LEMMA VerdictsNone ==
  ASSUME NEW b, ~Executed(b), NEW success
  PROVE  Verdicts(b, success) = 0
<1>1. VerdictTx(b, success) = {}
  BY DEF Executed, VerdictTx
<1>2. Verdicts(b, success) = Cardinality(VerdictTx(b, success))
  BY DEF Verdicts, VerdictTx
<1> QED BY <1>1, <1>2, FS_EmptySet

LEMMA VerdictsOne ==
  ASSUME OneTx, NEW i \in MessageTx, ledger[i].success \in BOOLEAN
  PROVE  \A success \in BOOLEAN :
           Verdicts(ledger[i].msg.batch, success) =
             IF success = ledger[i].success THEN 1 ELSE 0
<1> SUFFICES ASSUME NEW success \in BOOLEAN
             PROVE  Verdicts(ledger[i].msg.batch, success) =
                      IF success = ledger[i].success THEN 1 ELSE 0
  OBVIOUS
<1>1. VerdictTx(ledger[i].msg.batch, success) =
        IF success = ledger[i].success THEN {i} ELSE {}
  BY DEF OneTx, VerdictTx
<1>2. Verdicts(ledger[i].msg.batch, success) =
        Cardinality(VerdictTx(ledger[i].msg.batch, success))
  BY DEF Verdicts, VerdictTx
<1>3. Cardinality({i}) = 1 /\ Cardinality({}) = 0
  BY FS_EmptySet, FS_Singleton
<1> QED BY <1>1, <1>2, <1>3

\* A final status stays: no step but the scanner's reports, and it reports a
\* batch for the first time or says the same again.
LEMMA ReportedStep ==
  ASSUME TypeOK, ScanInv, OnceInv, [Next]_vars, NEW b \in Batch,
         ScanUpdate => b # Tx.msg.batch \/ Settled(b)
  PROVE  Reported(b)' = Reported(b)
<1>1. CASE UNCHANGED batchStatus
  BY <1>1 DEF Reported, Settled
<1>2. CASE Loops
  <2>1. ASSUME NEW c \in Batch, NextBatch(c) PROVE Reported(b)' = Reported(b)
    BY <2>1 DEF NextBatch, TypeOK, Reported, Settled
  <2> QED BY <1>1, <1>2, <2>1 DEF Loops, PushBatch, BackfillPush, RebatchPush,
             BackfillRead, RebatchRead, RebatchFails, dbVars
<1>3. CASE Workers
  <2>1. ASSUME NEW w \in Worker, MarkProcessing(w) PROVE Reported(b)' = Reported(b)
    <3>1. PICK c \in Batch : c = worker[w].msg.batch
      BY <2>1 DEF MarkProcessing, TypeOK, Message
    <3>2. batchStatus' = batchStatus \/ batchStatus' = [batchStatus EXCEPT ![c] = "processing"]
      BY <2>1, <3>1 DEF MarkProcessing
    <3>3. Busy(c)
      BY <2>1, <3>1 DEF MarkProcessing, Busy, Building
    <3>4. ~Settled(c)
      BY <3>3, StagesUnsettled
    <3> QED BY <3>2, <3>4 DEF TypeOK, Reported, Settled
  <2> QED BY <1>1, <1>3, <2>1 DEF Workers, Receive, Stamp, TakeQueryId,
             PersistExternalMessage, Send, dbVars
<1>4. CASE ScanUpdate
  <2>1. scanned + 1 \in MessageTx
    BY <1>4 DEF ScanUpdate, ScanInv
  <2>t. PICK i \in MessageTx : i = scanned + 1 /\ Tx = ledger[i]
    BY <2>1 DEF Tx
  <2>2. Tx.msg \in Message /\ Tx.success \in BOOLEAN
    BY <2>t, MessageTxType
  <2>s. PICK s \in {"success", "error"} : s = IF Tx.success THEN "success" ELSE "error"
    OBVIOUS
  <2>3. /\ b = Tx.msg.batch => batchStatus'[b] = s
        /\ b # Tx.msg.batch => batchStatus'[b] = batchStatus[b]
    BY <1>4, <2>2, <2>s, UpdateBatchSettles DEF ScanUpdate
  <2>4. CASE b # Tx.msg.batch
    BY <2>3, <2>4 DEF Reported, Settled
  <2>5. CASE b = Tx.msg.batch /\ Settled(b)
    <3>1. ASSUME NEW success \in BOOLEAN,
                 batchStatus[b] = IF success THEN "success" ELSE "error"
          PROVE  success = Tx.success
      <4>1. PICK j \in MessageTx : ledger[j].msg.batch = b /\ ledger[j].success = success
        BY <3>1 DEF ScanInv, StatusHasTransaction
      <4> QED BY <2>t, <2>5, <4>1 DEF OnceInv, OneTx
    <3>2. batchStatus[b] = s
      BY <2>2, <2>s, <2>5, <3>1 DEF Settled
    <3> QED BY <2>3, <2>5, <3>2 DEF Reported, Settled
  <2> QED BY <1>4, <2>4, <2>5
<1>5. CASE Scanner
  BY <1>1, <1>4, <1>5 DEF Scanner, ScanSkip, ScanInsert, ScanAdvance, dbVars
<1>6. CASE Restart \/ Chain
  BY <1>1, <1>6 DEF Restart, Chain, Execute, Reject, Lose, OtherTx, Tick, dbVars
<1> QED BY <1>1, <1>2, <1>3, <1>5, <1>6 DEF Next, vars, dbVars

\* What the refinement mapping says of one batch.
LEMMA PayoutAt ==
  ASSUME NEW c \in Batch, NEW p \in Nat, NEW f \in Nat,
         Verdicts(c, TRUE) = p, Verdicts(c, FALSE) = f
  PROVE  /\ [b \in Batch |-> Verdicts(b, TRUE)][c] = p
         /\ [b \in Batch |-> Verdicts(b, TRUE)][c] + [b \in Batch |-> Verdicts(b, FALSE)][c] = p + f
<1>1. [b \in Batch |-> Verdicts(b, TRUE)][c] = p
  BY Zenon
<1>2. [b \in Batch |-> Verdicts(b, FALSE)][c] = f
  BY Zenon
<1> QED BY <1>1, <1>2, Zenon

\* Steps that do not concern the promise.
LEMMA PayoutStutter ==
  ASSUME \A b \in Batch : \A success \in BOOLEAN : VerdictTx(b, success)' = VerdictTx(b, success),
         \A b \in Batch : Reported(b)' = Reported(b)
  PROVE  UNCHANGED P!vars
<1>1. \A b \in Batch : \A success \in BOOLEAN : Verdicts(b, success)' = Verdicts(b, success)
  BY DEF Verdicts, VerdictTx
<1>2. UNCHANGED [b \in Batch |-> Verdicts(b, TRUE)]
  BY <1>1
<1>3. UNCHANGED [b \in Batch |-> Verdicts(b, FALSE)]
  BY <1>1
<1>4. UNCHANGED [b \in Batch |-> IF Settled(b) THEN batchStatus[b] ELSE "open"]
  BY DEF Reported
<1> QED BY <1>2, <1>3, <1>4 DEF P!vars

\* The contract takes a message: the batch is paid, or its payment failed.
LEMMA PayoutExecute ==
  ASSUME TypeOK, OnceInv, NEW m \in pool, Execute(m)
  PROVE  P!Next
<1>1. PICK success \in BOOLEAN : ledger' = Append(ledger, [msg |-> m, success |-> success])
  BY DEF Execute
<1>2. m \in Message
  BY DEF TypeOK
<1>c. PICK c \in Batch : c = m.batch
  BY <1>2 DEF Message
<1>k. PICK k : k = Len(ledger) + 1
  OBVIOUS
<1>3. /\ MessageTx' = MessageTx \cup {k} /\ ledger'[k].msg = m
      /\ ledger'[k].success = success
      /\ \A i \in MessageTx : ledger'[i] = ledger[i] /\ i # k
  <2> DEFINE tx == [msg |-> m, success |-> success]
  <2>1. tx \in Transaction /\ tx.msg # NoMsg
    BY <1>2, NoMsgAssumption DEF Transaction
  <2>2. tx.msg = m /\ tx.success = success
    OBVIOUS
  <2>3. ledger' = Append(ledger, tx)
    BY <1>1
  <2>4. \A i \in MessageTx : i \in DOMAIN ledger /\ i # k
    BY <1>k, MessageTxType DEF MessageTx
  <2> HIDE DEF tx
  <2> QED BY <1>k, <2>1, <2>2, <2>3, <2>4, AppendMessageTx
<1>4. ~Executed(c)
  BY <1>c DEF Live, OnceInv, Apart
<1>5. \A s \in BOOLEAN : VerdictTx(c, s)' = IF s = success THEN {k} ELSE {}
  BY <1>3, <1>4, <1>c DEF VerdictTx, Executed
<1>6. \A b \in Batch \ {c} : \A s \in BOOLEAN : VerdictTx(b, s)' = VerdictTx(b, s)
  BY <1>3, <1>c DEF VerdictTx
<1>7. \A b, s : Verdicts(b, s) = Cardinality(VerdictTx(b, s))
                /\ Verdicts(b, s)' = Cardinality(VerdictTx(b, s)')
  BY DEF Verdicts, VerdictTx
<1>8. Cardinality({k}) = 1 /\ Cardinality({}) = 0
  BY FS_EmptySet, FS_Singleton
<1>9. /\ Verdicts(c, TRUE) = 0 /\ Verdicts(c, FALSE) = 0
      /\ Verdicts(c, TRUE)'  = IF success THEN 1 ELSE 0
      /\ Verdicts(c, FALSE)' = IF success THEN 0 ELSE 1
      /\ \A b \in Batch \ {c} : /\ Verdicts(b, TRUE)' = Verdicts(b, TRUE)
                                /\ Verdicts(b, FALSE)' = Verdicts(b, FALSE)
  BY <1>4, <1>5, <1>6, <1>7, <1>8, VerdictsNone
<1>10. UNCHANGED [b \in Batch |-> IF Settled(b) THEN batchStatus[b] ELSE "open"]
  BY DEF Execute, dbVars, Settled
<1>0. 0 \in Nat /\ 0 + 0 = 0
  OBVIOUS
<1>11. CASE success
  <2>1. [b \in Batch |-> Verdicts(b, TRUE)]' =
          [[b \in Batch |-> Verdicts(b, TRUE)] EXCEPT ![c] = 1]
    BY <1>9, <1>11
  <2>2. UNCHANGED [b \in Batch |-> Verdicts(b, FALSE)]
    BY <1>9, <1>11
  <2>3. [b \in Batch |-> Verdicts(b, TRUE)][c] + [b \in Batch |-> Verdicts(b, FALSE)][c] = 0
    BY <1>0, <1>9, PayoutAt, Zenon
  <2>4. P!Pay(c)
    BY <1>10, <2>1, <2>2, <2>3, Zenon DEF P!Pay
  <2> QED BY <2>4 DEF P!Next
<1>12. CASE ~success
  <2>1. [b \in Batch |-> Verdicts(b, FALSE)]' =
          [[b \in Batch |-> Verdicts(b, FALSE)] EXCEPT ![c] = 1]
    BY <1>9, <1>12
  <2>2. UNCHANGED [b \in Batch |-> Verdicts(b, TRUE)]
    BY <1>9, <1>12
  <2>3. [b \in Batch |-> Verdicts(b, TRUE)][c] + [b \in Batch |-> Verdicts(b, FALSE)][c] = 0
    BY <1>0, <1>9, PayoutAt, Zenon
  <2>4. P!Fail(c)
    BY <1>10, <2>1, <2>2, <2>3, Zenon DEF P!Fail
  <2> QED BY <2>4 DEF P!Next
<1> QED BY <1>11, <1>12

\* The scanner settles a batch, for the first time or once more.
LEMMA PayoutUpdate ==
  ASSUME TypeOK, ScanInv, OnceInv, ScanUpdate
  PROVE  [P!Next]_P!vars
<1>1. scanned + 1 \in MessageTx /\ UNCHANGED ledger
  BY DEF ScanUpdate, ScanInv, chainVars
<1>t. PICK i \in MessageTx : i = scanned + 1 /\ Tx = ledger[i]
  BY <1>1 DEF Tx
<1>2. Tx.msg \in Message /\ Tx.success \in BOOLEAN
  BY <1>t, MessageTxType
<1>c. PICK c \in Batch : c = Tx.msg.batch
  BY <1>2 DEF Message
<1>s. PICK s \in {"success", "error"} : s = IF Tx.success THEN "success" ELSE "error"
  OBVIOUS
<1>3. batchStatus'[c] = s /\ \A b \in Batch \ {c} : batchStatus'[b] = batchStatus[b]
  BY <1>2, <1>c, <1>s, UpdateBatchSettles DEF ScanUpdate
<1>4. \A success \in BOOLEAN : Verdicts(c, success) = IF success = Tx.success THEN 1 ELSE 0
  BY <1>2, <1>t, <1>c, VerdictsOne DEF OnceInv
<1>5. \A b, success : VerdictTx(b, success)' = VerdictTx(b, success)
  BY <1>1 DEF VerdictTx, MessageTx
<1>6. CASE Settled(c)
  <2>1. [Next]_vars
    BY DEF Next, Scanner
  <2>2. \A b \in Batch : Reported(b)' = Reported(b)
    BY <1>c, <1>6, <2>1, ReportedStep
  <2> QED BY <1>5, <2>2, PayoutStutter
<1>7. CASE ~Settled(c)
  <2>0. 0 \in Nat /\ 1 \in Nat /\ 0 + 1 = 1 /\ 1 + 0 = 1 /\ 0 # 1
    OBVIOUS
  <2>1. UNCHANGED [b \in Batch |-> Verdicts(b, TRUE)]
    BY <1>1 DEF Verdicts, MessageTx
  <2>2. UNCHANGED [b \in Batch |-> Verdicts(b, FALSE)]
    BY <1>1 DEF Verdicts, MessageTx
  <2>3. /\ Verdicts(c, TRUE)  = IF Tx.success THEN 1 ELSE 0
        /\ Verdicts(c, FALSE) = IF Tx.success THEN 0 ELSE 1
    BY <1>2, <1>4
  <2>4. s = IF [b \in Batch |-> Verdicts(b, TRUE)][c] = 1 THEN "success" ELSE "error"
    <3>1. CASE Tx.success
      BY <1>s, <2>0, <2>3, <3>1, PayoutAt, Zenon
    <3>2. CASE ~Tx.success
      BY <1>s, <2>0, <2>3, <3>2, PayoutAt, Zenon
    <3> QED BY <3>1, <3>2
  <2>5. [b \in Batch |-> IF Settled(b) THEN batchStatus[b] ELSE "open"]' =
          [[b \in Batch |-> IF Settled(b) THEN batchStatus[b] ELSE "open"]
             EXCEPT ![c] = IF [b \in Batch |-> Verdicts(b, TRUE)][c] = 1
                             THEN "success" ELSE "error"]
    BY <1>3, <1>7, <2>4 DEF Settled
  <2>6. [b \in Batch |-> Verdicts(b, TRUE)][c] + [b \in Batch |-> Verdicts(b, FALSE)][c] = 1
    <3>1. CASE Tx.success
      BY <2>0, <2>3, <3>1, PayoutAt, Zenon
    <3>2. CASE ~Tx.success
      BY <2>0, <2>3, <3>2, PayoutAt, Zenon
    <3> QED BY <3>1, <3>2
  <2>7. [b \in Batch |-> IF Settled(b) THEN batchStatus[b] ELSE "open"][c] = "open"
    BY <1>7
  <2>8. P!Report(c)
    BY <2>1, <2>2, <2>5, <2>6, <2>7, Zenon DEF P!Report
  <2> QED BY <2>8 DEF P!Next
<1> QED BY <1>6, <1>7

\* The ledger grows by nothing else.
LEMMA OnlyChainAppends ==
  [Next]_vars => UNCHANGED ledger \/ OtherTx \/ \E m \in pool : Execute(m)
<1>1. Loops => UNCHANGED ledger
  BY DEF Loops, NextBatch, PushBatch, BackfillPush, RebatchPush, BackfillRead,
         RebatchRead, RebatchFails, chainVars
<1>2. Workers => UNCHANGED ledger
  BY DEF Workers, Receive, Stamp, TakeQueryId, MarkProcessing,
         PersistExternalMessage, Send, chainVars
<1>3. Scanner \/ Restart => UNCHANGED ledger
  BY DEF Scanner, ScanSkip, ScanInsert, ScanUpdate, ScanAdvance, Restart, chainVars
<1>4. Chain => UNCHANGED ledger \/ OtherTx \/ \E m \in pool : Execute(m)
  BY DEF Chain, Reject, Lose, Tick
<1> QED BY <1>1, <1>2, <1>3, <1>4 DEF Next, vars, chainVars

LEMMA PayoutStep ==
  ASSUME TypeOK, ScanInv, OnceInv, [Next]_vars
  PROVE  [P!Next]_P!vars
<1>1. CASE ScanUpdate
  BY <1>1, PayoutUpdate
<1>2. ASSUME NEW m \in pool, Execute(m) PROVE [P!Next]_P!vars
  BY <1>2, PayoutExecute
<1>3. ASSUME ~ScanUpdate, \A b, success : VerdictTx(b, success)' = VerdictTx(b, success)
      PROVE  [P!Next]_P!vars
  <2>1. \A b \in Batch : Reported(b)' = Reported(b)
    BY <1>3, ReportedStep
  <2> QED BY <1>3, <2>1, PayoutStutter
<1>4. CASE UNCHANGED ledger
  BY <1>1, <1>3, <1>4 DEF VerdictTx, MessageTx
<1>5. CASE OtherTx
  <2> DEFINE tx == [msg |-> NoMsg, success |-> TRUE]
  <2>1. tx \in Transaction /\ tx.msg = NoMsg /\ ledger' = Append(ledger, tx)
    BY <1>5 DEF OtherTx, Transaction
  <2> HIDE DEF tx
  <2>2. MessageTx' = MessageTx /\ \A i \in MessageTx : ledger'[i] = ledger[i]
    BY <2>1, AppendMessageTx DEF MessageTx
  <2>3. \A b, success : VerdictTx(b, success)' = VerdictTx(b, success)
    BY <2>2 DEF VerdictTx
  <2> QED BY <1>1, <1>3, <2>3
<1> QED BY <1>2, <1>4, <1>5, OnlyChainAppends

LEMMA PayoutInit == Init => P!Init
<1> SUFFICES ASSUME Init PROVE P!Init
  OBVIOUS
<1>1. \A b \in Batch : ~Executed(b) /\ ~Settled(b)
  BY DEF Init, Executed, MessageTx, Settled
<1>2. \A b \in Batch : Verdicts(b, TRUE) = 0 /\ Verdicts(b, FALSE) = 0
  BY <1>1, VerdictsNone
<1> QED BY <1>1, <1>2 DEF P!Init

\* A batch gets one transaction at most and its final status is the verdict of
\* that transaction, for any number of batches, workers, resubmissions, lost
\* messages, failing calls and crashes: under the timing of TimelySpec (which
\* excludes what the scanner's restart loop would resubmit) every step of the
\* sender is a Pay, a Fail or a Report of Payout, or none of them.
THEOREM PaidAtMostOnceAlways == TimelySpec => PaidAtMostOnce
<1>1. TypeOK /\ ScanInv /\ OnceInv /\ [Next]_vars => [P!Next]_P!vars
  BY PayoutStep
<1> QED BY <1>1, PayoutInit, TimelyIsSpec, TypeCorrect, ScanInvAlways,
           OnceInvAlways, PTL DEF Spec, PaidAtMostOnce, P!Spec

-----------------------------------------------------------------------------
(***************************************************************************)
(* SettledForGood: TimelySpec implements Outcomes                          *)
(***************************************************************************)

\* The messages that the transactions recorded for a batch belong to, and those
\* that the notifier's query sorts up to them.
Paying(b) == {ledger[i].msg : i \in {j \in transaction : ledger[j].msg.batch = b}}
UpTo(b)   == {m \in MessagesOf(b) : \E p \in Paying(b) : m.created_at <= p.created_at}

\* The bound on the messages of a batch: a start of the process numbers
\* LastSeqno of them at most, each with an id of its own.
LEMMA MessagesBounded ==
  ASSUME NEW S \in SUBSET Message,
         \A m \in S : m.query_id \in 1 .. LastSeqno,
         \A m, n \in S : m.boot = n.boot /\ m.query_id = n.query_id => m = n
  PROVE  /\ IsFiniteSet(S) /\ Cardinality(S) \in Nat
         /\ Cardinality(S) <= LastSeqno * MaxBoots
<1> DEFINE T == (1 .. LastSeqno) \X (1 .. MaxBoots)
           f == [m \in S |-> <<m.query_id, m.boot>>]
<1>1. /\ IsFiniteSet(1 .. LastSeqno) /\ Cardinality(1 .. LastSeqno) = LastSeqno
      /\ IsFiniteSet(1 .. MaxBoots) /\ Cardinality(1 .. MaxBoots) = MaxBoots
  <2>1. 1 \in Int /\ LastSeqno \in Int /\ MaxBoots \in Int
    BY SenderAssumption
  <2>2. IsFiniteSet(1 .. LastSeqno) /\ IsFiniteSet(1 .. MaxBoots)
    BY <2>1, FS_Interval
  <2>3. /\ Cardinality(1 .. LastSeqno) = IF 1 > LastSeqno THEN 0 ELSE LastSeqno - 1 + 1
        /\ Cardinality(1 .. MaxBoots) = IF 1 > MaxBoots THEN 0 ELSE MaxBoots - 1 + 1
    BY <2>1, FS_Interval
  <2> QED BY <2>2, <2>3, SenderAssumption
<1>2. IsFiniteSet(T) /\ Cardinality(T) = LastSeqno * MaxBoots
  BY <1>1, FS_Product
<1>3. f \in Injection(S, T)
  <2>1. \A m \in S : <<m.query_id, m.boot>> \in T
    BY DEF Message
  <2>2. f \in [S -> T]
    BY <2>1
  <2>3. \A m, n \in S : f[m] = f[n] => m = n
    OBVIOUS
  <2> HIDE DEF f, T
  <2> QED BY <2>2, <2>3 DEF Injection, IsInjective
<1> HIDE DEF f, T
<1>4. IsFiniteSet(S) /\ Cardinality(S) <= Cardinality(T)
  BY <1>2, <1>3, FS_Injection
<1> QED BY <1>2, <1>4, FS_CardinalityType

\* The messages of a batch fit the bound of Outcomes.
LEMMA MessagesOfBounded ==
  ASSUME TypeOK, LastInv, UniqueIdsPerBoot, NEW b
  PROVE  /\ IsFiniteSet(MessagesOf(b)) /\ Cardinality(MessagesOf(b)) \in Nat
         /\ Cardinality(MessagesOf(b)) <= LastSeqno * MaxBoots
<1>1. MessagesOf(b) \in SUBSET Message
  BY DEF TypeOK, MessagesOf
<1>2. /\ \A m \in MessagesOf(b) : m.query_id \in 1 .. LastSeqno
      /\ \A m, n \in MessagesOf(b) : m.boot = n.boot /\ m.query_id = n.query_id => m = n
  BY DEF LastInv, UniqueIdsPerBoot, MessagesOf
<1> QED BY <1>1, <1>2, MessagesBounded

\* Steps that do not concern a settled batch, nor the messages of any.
LEMMA OutcomesStutter ==
  ASSUME UNCHANGED externalMessage,
         \A b \in Batch : Reported(b)' = Reported(b),
         \A b \in Batch : (Settled(b)' <=> Settled(b)),
         \A b \in Batch : Settled(b) => Paying(b)' = Paying(b)
  PROVE  UNCHANGED O!vars
<1>1. \A b : MessagesOf(b)' = MessagesOf(b)
  BY DEF MessagesOf
<1>2. \A b \in Batch : Settled(b) => PaidBy(b)' = PaidBy(b)
  <2>1. \A b : PaidBy(b) = Cardinality(UpTo(b)) /\ PaidBy(b)' = Cardinality(UpTo(b)')
    BY DEF PaidBy, UpTo, Paying
  <2>2. \A b \in Batch : Settled(b) => UpTo(b)' = UpTo(b)
    BY <1>1 DEF UpTo
  <2> QED BY <2>1, <2>2
<1>3. UNCHANGED [b \in Batch |-> IF Settled(b) THEN batchStatus[b] ELSE "processing"]
  BY DEF Reported
<1>4. UNCHANGED [b \in Batch |-> Cardinality(MessagesOf(b))]
  BY <1>1
<1>5. UNCHANGED [b \in Batch |-> IF Settled(b) THEN PaidBy(b) ELSE 0]
  BY <1>2
<1> QED BY <1>3, <1>4, <1>5 DEF O!vars

\* A worker records a message.
LEMMA OutcomesPersist ==
  ASSUME TypeOK, RecordedInv, ScanInv, OnceInv, LastInv, UniqueIdsPerBoot,
         TypeOK', LastInv', UniqueIdsPerBoot',
         NEW w \in Worker, PersistExternalMessage(w), externalMessage' # externalMessage
  PROVE  O!Next
<1>m. PICK m \in Message : m = worker[w].msg
  BY DEF PersistExternalMessage, TypeOK
<1>c. PICK c \in Batch : c = m.batch
  BY DEF Message
<1>1. /\ externalMessage' = externalMessage \cup {m} /\ m \notin externalMessage
      /\ UNCHANGED <<batchStatus, transaction, ledger>>
      /\ worker[w].step = "insert"
  BY <1>m DEF PersistExternalMessage, chainVars, Recorded
<1>2. ~Settled(c)
  BY <1>1, <1>m, <1>c, StagesUnsettled DEF Busy, Building
<1>3. /\ MessagesOf(c)' = MessagesOf(c) \cup {m} /\ m \notin MessagesOf(c)
      /\ \A b \in Batch \ {c} : MessagesOf(b)' = MessagesOf(b)
  BY <1>1, <1>c DEF MessagesOf
<1>4. /\ Cardinality(MessagesOf(c)') = Cardinality(MessagesOf(c)) + 1
      /\ Cardinality(MessagesOf(c)) \in Nat
  BY <1>3, MessagesOfBounded, FS_AddElement
<1>5. Cardinality(MessagesOf(c)') <= LastSeqno * MaxBoots
  <2>1. MessagesOf(c)' \in SUBSET Message
    BY DEF TypeOK, MessagesOf
  <2>2. /\ \A n \in MessagesOf(c)' : n.query_id \in 1 .. LastSeqno
        /\ \A n, o \in MessagesOf(c)' : n.boot = o.boot /\ n.query_id = o.query_id => n = o
    BY DEF LastInv, UniqueIdsPerBoot, MessagesOf
  <2> QED BY <2>1, <2>2, MessagesBounded
<1>6. Cardinality(MessagesOf(c)) < LastSeqno * MaxBoots
  <2>1. LastSeqno * MaxBoots \in Nat
    BY SenderAssumption
  <2> QED BY <1>4, <1>5, <2>1
<1>7. /\ \A b \in Batch : (Settled(b)' <=> Settled(b))
      /\ \A b \in Batch : Settled(b) => PaidBy(b)' = PaidBy(b)
  <2>1. \A b \in Batch : (Settled(b)' <=> Settled(b))
    BY <1>1 DEF Settled
  <2>2. \A b : PaidBy(b) = Cardinality(UpTo(b)) /\ PaidBy(b)' = Cardinality(UpTo(b)')
    BY DEF PaidBy, UpTo, Paying
  <2>3. \A b \in Batch \ {c} : UpTo(b)' = UpTo(b)
    BY <1>1, <1>3 DEF UpTo, Paying
  <2> QED BY <1>2, <2>1, <2>2, <2>3
<1>8. UNCHANGED [b \in Batch |-> IF Settled(b) THEN batchStatus[b] ELSE "processing"]
  BY <1>1, <1>7
<1>9. UNCHANGED [b \in Batch |-> IF Settled(b) THEN PaidBy(b) ELSE 0]
  BY <1>7
<1>10. [b \in Batch |-> Cardinality(MessagesOf(b))]' =
         [[b \in Batch |-> Cardinality(MessagesOf(b))] EXCEPT
            ![c] = [b \in Batch |-> Cardinality(MessagesOf(b))][c] + 1]
  BY <1>3, <1>4
<1>11. [b \in Batch |-> IF Settled(b) THEN batchStatus[b] ELSE "processing"][c] = "processing"
  BY <1>2
<1>12. [b \in Batch |-> Cardinality(MessagesOf(b))][c] < LastSeqno * MaxBoots
  BY <1>6, Zenon
<1>13. O!NewMessage(c)
  BY <1>8, <1>9, <1>10, <1>11, <1>12, Zenon DEF O!NewMessage
<1> QED BY <1>13 DEF O!Next

\* The scanner settles a batch, for the first time or once more: some message of
\* it is the one with the transaction.
LEMMA OutcomesUpdate ==
  ASSUME TypeOK, RecordedInv, ScanInv, OnceInv, LastInv, UniqueIdsPerBoot, ScanUpdate
  PROVE  [O!Next]_O!vars
<1>1. /\ scanned + 1 \in MessageTx /\ scanned + 1 \in transaction
      /\ UNCHANGED <<externalMessage, transaction, ledger>>
  BY DEF ScanUpdate, ScanInv, chainVars
<1>t. PICK i \in MessageTx : i = scanned + 1 /\ Tx = ledger[i]
  BY <1>1 DEF Tx
<1>m. PICK m \in Message : m = Tx.msg
  BY <1>t, MessageTxType
<1>c. PICK c \in Batch : c = m.batch
  BY DEF Message
<1>s. PICK s \in {"success", "error"} : s = IF Tx.success THEN "success" ELSE "error"
  OBVIOUS
<1>2. batchStatus'[c] = s /\ \A b \in Batch \ {c} : batchStatus'[b] = batchStatus[b]
  <2>1. Tx.success \in BOOLEAN
    BY <1>t, MessageTxType
  <2> QED BY <2>1, <1>m, <1>c, <1>s, UpdateBatchSettles DEF ScanUpdate
<1>3. \A b : /\ MessagesOf(b)' = MessagesOf(b) /\ Paying(b)' = Paying(b)
             /\ UpTo(b)' = UpTo(b) /\ PaidBy(b)' = PaidBy(b) /\ PaidBy(b) = Cardinality(UpTo(b))
  BY <1>1 DEF MessagesOf, Paying, UpTo, PaidBy
<1>4. \A b \in Batch \ {c} : (Settled(b)' <=> Settled(b)) /\ Reported(b)' = Reported(b)
  BY <1>2 DEF Settled, Reported
<1>5. Settled(c)'
  BY <1>2 DEF Settled
<1>6. CASE Settled(c)
  <2>1. [Next]_vars
    BY DEF Next, Scanner
  <2>2. Reported(c)' = Reported(c)
    BY <1>m, <1>c, <1>6, <2>1, ReportedStep
  <2> QED BY <1>1, <1>3, <1>4, <1>5, <1>6, <2>2, OutcomesStutter
<1>7. CASE ~Settled(c)
  <2>1. m \in UpTo(c)
    <3>1. m \in externalMessage /\ m \in Paying(c)
      BY <1>1, <1>t, <1>m, <1>c DEF RecordedInv, RecordedBeforeSent, Paying
    <3>2. m.created_at <= m.created_at
      BY DEF Message
    <3> QED BY <1>c, <3>1, <3>2 DEF UpTo, MessagesOf
  <2>2. UpTo(c) \in SUBSET MessagesOf(c) /\ IsFiniteSet(MessagesOf(c))
    BY MessagesOfBounded DEF UpTo
  <2>3. PaidBy(c) \in 1 .. Cardinality(MessagesOf(c))
    <3>1. /\ IsFiniteSet(UpTo(c)) /\ Cardinality(UpTo(c)) <= Cardinality(MessagesOf(c))
          /\ Cardinality(UpTo(c)) \in Nat /\ Cardinality(MessagesOf(c)) \in Nat
      BY <2>2, FS_Subset, FS_CardinalityType
    <3>2. Cardinality(UpTo(c)) # 0
      BY <2>1, <3>1, FS_EmptySet
    <3> QED BY <1>3, <3>1, <3>2
  <2>4. UNCHANGED [b \in Batch |-> Cardinality(MessagesOf(b))]
    BY <1>3
  <2>5. [b \in Batch |-> IF Settled(b) THEN batchStatus[b] ELSE "processing"]' =
          [[b \in Batch |-> IF Settled(b) THEN batchStatus[b] ELSE "processing"]
             EXCEPT ![c] = s]
    BY <1>2, <1>4, <1>5
  <2>6. [b \in Batch |-> IF Settled(b) THEN PaidBy(b) ELSE 0]' =
          [[b \in Batch |-> IF Settled(b) THEN PaidBy(b) ELSE 0] EXCEPT ![c] = PaidBy(c)]
    BY <1>3, <1>4, <1>5
  <2>7. [b \in Batch |-> IF Settled(b) THEN batchStatus[b] ELSE "processing"][c] = "processing"
    BY <1>7
  <2>k. PICK k : k = PaidBy(c)
    OBVIOUS
  <2>8. O!Settle(c, k)
    BY <2>k, <2>4, <2>5, <2>6, <2>7, Zenon DEF O!Settle
  <2>9. k \in 1 .. [b \in Batch |-> Cardinality(MessagesOf(b))][c]
    BY <2>k, <2>3, Zenon
  <2>10. \E n \in 1 .. [b \in Batch |-> Cardinality(MessagesOf(b))][c] : O!Settle(c, n)
    BY <2>8, <2>9, Zenon
  <2>11. O!Next
    BY <2>10, Zenon DEF O!Next
  <2> QED BY <2>11
<1> QED BY <1>6, <1>7

\* The scanner records a transaction: its batch is not settled, for a settled
\* batch has one in the table, and no batch has two.
LEMMA OutcomesInsert ==
  ASSUME TypeOK, ScanInv, OnceInv, SettledInv, ScanInsert
  PROVE  UNCHANGED O!vars
<1>1. /\ scanned + 1 \in MessageTx /\ scanned + 1 \notin transaction
      /\ transaction' = transaction \cup {scanned + 1}
      /\ UNCHANGED <<externalMessage, batchStatus, ledger>>
  BY DEF ScanInsert, MessageTx, HasTx, Tx, chainVars, TypeOK
<1>2. \A b \in Batch : Settled(b) => ledger[scanned + 1].msg.batch # b
  BY <1>1 DEF SettledInv, OnceInv, OneTx
<1>3. \A b \in Batch : Settled(b) => Paying(b)' = Paying(b)
  BY <1>1, <1>2 DEF Paying
<1>4. \A b \in Batch : (Settled(b)' <=> Settled(b)) /\ Reported(b)' = Reported(b)
  BY <1>1 DEF Settled, Reported
<1> QED BY <1>1, <1>3, <1>4, OutcomesStutter

\* A further transaction of the wallet is in no table yet.
LEMMA OutcomesAppend ==
  ASSUME TypeOK, SettledInv, NEW tx \in Transaction, ledger' = Append(ledger, tx),
         UNCHANGED dbVars
  PROVE  UNCHANGED O!vars
<1>1. \A i \in transaction : i \in DOMAIN ledger /\ ledger'[i] = ledger[i]
  BY AppendMessageTx DEF SettledInv, MessageTx
<1>2. \A b \in Batch : Paying(b)' = Paying(b)
  BY <1>1 DEF Paying, dbVars
<1>3. \A b \in Batch : (Settled(b)' <=> Settled(b)) /\ Reported(b)' = Reported(b)
  BY DEF Settled, Reported, dbVars
<1> QED BY <1>2, <1>3, OutcomesStutter DEF dbVars

LEMMA OutcomesStep ==
  ASSUME TypeOK, RecordedInv, ScanInv, OnceInv, SettledInv, LastInv, UniqueIdsPerBoot,
         TypeOK', LastInv', UniqueIdsPerBoot', [Next]_vars
  PROVE  [O!Next]_O!vars
<1>1. CASE ScanUpdate
  BY <1>1, OutcomesUpdate
<1>2. CASE ScanInsert
  BY <1>2, OutcomesInsert
<1>3. ASSUME NEW w \in Worker, PersistExternalMessage(w), externalMessage' # externalMessage
      PROVE  [O!Next]_O!vars
  BY <1>3, OutcomesPersist
<1>4. CASE OtherTx
  <2>1. [msg |-> NoMsg, success |-> TRUE] \in Transaction
    BY DEF Transaction
  <2> QED BY <1>4, <2>1, OutcomesAppend DEF OtherTx
<1>5. ASSUME NEW m \in pool, Execute(m) PROVE [O!Next]_O!vars
  <2>1. PICK success \in BOOLEAN : ledger' = Append(ledger, [msg |-> m, success |-> success])
    BY <1>5 DEF Execute
  <2>2. [msg |-> m, success |-> success] \in Transaction
    BY DEF Transaction, TypeOK
  <2> QED BY <1>5, <2>1, <2>2, OutcomesAppend DEF Execute
<1>6. ASSUME ~ScanUpdate, UNCHANGED <<externalMessage, transaction, ledger>>
      PROVE  [O!Next]_O!vars
  <2>1. \A b \in Batch : Reported(b)' = Reported(b)
    BY <1>6, ReportedStep
  <2>2. \A b \in Batch : (Settled(b)' <=> Settled(b))
    BY <2>1 DEF Reported, Settled
  <2>3. \A b : Paying(b)' = Paying(b)
    BY <1>6 DEF Paying
  <2> QED BY <1>6, <2>1, <2>2, <2>3, OutcomesStutter
<1>7. \/ ScanInsert
      \/ UNCHANGED <<externalMessage, transaction>>
      \/ \E w \in Worker : PersistExternalMessage(w) /\ externalMessage' # externalMessage
  <2>1. Loops => UNCHANGED <<externalMessage, transaction>>
    BY DEF Loops, NextBatch, PushBatch, BackfillPush, RebatchPush, BackfillRead,
           RebatchRead, RebatchFails, dbVars
  <2>2. ASSUME Workers
        PROVE  \/ UNCHANGED <<externalMessage, transaction>>
               \/ \E w \in Worker : PersistExternalMessage(w) /\ externalMessage' # externalMessage
    BY <2>2 DEF Workers, Receive, Stamp, TakeQueryId, MarkProcessing,
                PersistExternalMessage, Send, dbVars
  <2>3. Scanner => ScanInsert \/ UNCHANGED <<externalMessage, transaction>>
    BY DEF Scanner, ScanSkip, ScanUpdate, ScanAdvance, dbVars
  <2>4. Restart \/ Chain => UNCHANGED <<externalMessage, transaction>>
    BY DEF Restart, Chain, Execute, Reject, Lose, OtherTx, Tick, dbVars
  <2> QED BY <2>1, <2>2, <2>3, <2>4 DEF Next, vars, dbVars
<1> QED BY <1>1, <1>2, <1>3, <1>4, <1>5, <1>6, <1>7, OnlyChainAppends

LEMMA OutcomesInit == Init => O!Init
<1> SUFFICES ASSUME Init PROVE O!Init
  OBVIOUS
<1>1. \A b \in Batch : ~Settled(b) /\ MessagesOf(b) = {}
  BY DEF Init, Settled, MessagesOf
<1> QED BY <1>1, FS_EmptySet DEF O!Init

\* A settled batch gets no further message, verdict or transaction, and no
\* batch has more messages than there are ids and starts: under the timing of
\* TimelySpec the sender does no more than module Notifier relies on, whatever
\* crashes, fails or is sent again.
THEOREM SettledForGoodAlways == TimelySpec => SettledForGood
<1>1. /\ TypeOK /\ RecordedInv /\ ScanInv /\ OnceInv /\ SettledInv /\ LastInv
      /\ UniqueIdsPerBoot /\ TypeOK' /\ LastInv' /\ UniqueIdsPerBoot' /\ [Next]_vars
      => [O!Next]_O!vars
  BY OutcomesStep
<1> QED BY <1>1, OutcomesInit, TimelyIsSpec, TypeCorrect, RecordedInvAlways,
           ScanInvAlways, OnceInvAlways, SettledInvAlways, LastInvAlways,
           UniqueIdsPerBootAlways, PTL DEF Spec, SettledForGood, O!Spec

=============================================================================

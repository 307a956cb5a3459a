# batch-sender, in TLA+

`batch-sender` pays out TON transfers in batches. It consumes transfer messages
from RabbitMQ, stores them in Postgres, groups them into batches, sends each
batch as one external message to a high-load wallet, watches the wallet's
transactions on the chain, and publishes the outcome of every order.

These modules model its way from the consumed message to the published outcome,
the query ids every external message carries, and the life of the process that
runs it all. The question they answer is the one that matters for a payout
service: **is every transfer paid, and is it paid once?** The second one is
about operating it: **does the process end when it has to, and as a whole?**

1. [The system](#the-system)
2. [Modules](#modules)
3. [How the code maps to actions](#how-the-code-maps-to-actions)
4. [Abstractions](#abstractions)
5. [Runs, bounds and what they show](#runs-bounds-and-what-they-show)
6. [Timing and fairness](#timing-and-fairness)
7. [Where the code differs from its comments](#where-the-code-differs-from-its-comments)
8. [What is proved](#what-is-proved)
9. [What is not modelled](#what-is-not-modelled)
10. [Plan](#plan)

All paths below are relative to `src/`; `repository.go` is
`internal/repository/postgres/repository.go`.

## The system

```
 HTTP API --publish--> RabbitMQ --consume--> Batcher --INSERT--> Postgres
                                                |                 ^  ^  |
                                             channel Batches      |  |  |
                                                v                 |  |  v
 blockchain <--SendMessage-- workers of Sender ------------------ +  |  Notifier --publish--> RabbitMQ
      |                                                              |
      +--- subscription ---> transaction scanner --------------------+
```

One process runs all of it: `cmd/server/main.go` starts each part in an `errgroup`
goroutine, except for the batcher, which registers a worker that the queue
manager invokes whenever it has a connection. The API and the notifier publish
through the queue manager's connection, on a channel of their own each time.

| Component | State it keeps | Operations | Hard behaviour | What makes it correct |
|---|---|---|---|---|
| Query ids, `internal/sender/queryid.go` | a (shift, bit number) pair | `GetNext`, `HasNext`, packing, unpacking, sequence numbers | the carry; the last shift ends early; 1023 usable bit numbers in 1024 packed ones | ids ascend without a gap; a recorded id is restored exactly; the last one is kept |
| Sender, `internal/sender/sender.go`, `wallet.go` | `Wallet.queryID` under a mutex, five workers, the channel | `worker`, `MessageBuilder`, `SendMessage`, `initWallet` | clock read outside the mutex; two statements that are not one transaction; failures after the message is numbered | a message is recorded before it is broadcast; ids are not shared |
| Backfill, `sender.go:265` | list of batches it has yet to push | one query per start, blocking pushes | races with the batcher | a batch the last process left `new` is picked up, once |
| Rebatch, `sender.go:293` | list of batches, error count | a query every 30 s, blocking pushes, gives up at the fifth error in a row | selects a batch again while its copy is in flight; decides by a status that lags | only messages that cannot be executed any more are replaced |
| Scanner, `internal/sender/scanner.go` | subscription, `last_processed_lt` | three writes per transaction | a crash between any two of them | progress never runs ahead of the outcomes |
| Repository, `repository.go` | tables `transfer`, `batch`, `external_message`, `transaction`, `wallet` | one statement or two per method | no database transactions; keys that refuse a repetition | statuses account for transactions |
| Batcher, `internal/batcher/batcher.go` | counters, timers | consume, persist, acknowledge, `createBatch` | acknowledgement after an uncertain persist; poison messages | a message is acknowledged only if its transfers are stored |
| Queue manager, `internal/queue/gueue.go` | connection, workers | reconnect, invoke workers | a worker that returns while the connection stays up | consumption resumes |
| Notifier, `internal/notifier/notifier.go` | none | poll, publish, record | one INSERT for many publications | each outcome is published, and recorded so that it stops |
| Start and shutdown, `cmd/server/main.go`, `conn.go` | three nested contexts, two nested `errgroup`s and one in the scanner | ping, start, cancel, wait | goroutines blocked on a channel nobody reads; errors that have to travel through three groups | it ends, and no part stays down while the rest goes on |
| HTTP API, `internal/api` | listener, open requests | accept, answer (parse and publish), cut off, shut down | requests open at shutdown; a handler's timeout that is also the write deadline; a listener that fails | no request is open when `main` returns from its wait |

`PROJECT.json` lists every component with its status, and every hazard at the
line where it bites with the properties that would catch it.

## Modules

| Module | What it is |
|---|---|
| `QueryId` | the arithmetic of query ids, and a wallet that takes, records and restores them |
| `Sender` | batcher's `createBatch`, backfill, rebatch, workers, wallet, scanner, their statements in Postgres; the chain and its clock around them |
| `TimelySender` | `Sender` under the timing it is configured for; fairness; the refinement of `Payout` |
| `Payout` | what a batch is promised, in three actions: paid or failed once, then reported as such |
| `Numbering` | how the messages of a wallet are numbered, in four actions: one after the other, recorded or dropped, and on from a recorded number after a restart |
| `Outcomes` | what a poll of the notifier can tell of the sender, in two actions: a batch gets messages and is settled by one of them, for good |
| `Intake` | RabbitMQ's queue, the queue manager, the batcher's workers, `PersistMessage` and `NextBatch` over sets of transfers |
| `Notifier` | the notifier and its two statements, composed with `Outcomes` in the sender's place |
| `Lifecycle` | the process: `main`, its parts and their goroutines, contexts and groups, the HTTP server, the channel `Batches` as a number |
| `MCSender`, `MCTimelySender`, `MCIntake`, `MCNotifier` | the instances TLC checks: symmetry, which message holds which transfers, which batch holds which orders |
| `QueryIdProofs`, `SenderProofs`, `TimelySenderProofs`, `IntakeProofs`, `NotifierProofs`, `LifecycleProofs` | theorems and proofs |

`Sender` counts query ids by sequence number and leaves the pair to `QueryId`.
Both implement `Numbering` (property `NumbersInOrder` of either): by their
sequence numbers the packed pairs of the code do what `queryID + 1` and restoring
a recorded number do here, and the workers number their messages as if one
process counted. `Intake` ends with the push of a batch,
`Sender` begins with it. Sender and notifier are composed through `Outcomes`:
`TimelySender` implements it (property `SettledForGood`, with the rows of
`external_message` and `transaction` mapped to a count and a rank in the order
of the notifier's query), and `Notifier` takes its steps for those of the sender
(`Sender == INSTANCE Outcomes`). What `Notifier` shows about any sender that
behaves like `Outcomes` it shows about this one. `Lifecycle` keeps nothing of
the data: which goroutine runs, and who waits for whom.

Operators commented "Faulty form" are deliberate mistakes (a missing guard, a
swapped order). No specification uses them; substituting one for the definition
next to it makes TLC refute the property the project pairs it with
(`PROJECT.json`, `mutants`), which shows that the property can fail.

## How the code maps to actions

State of `Sender`:

| Variable | Code |
|---|---|
| `batchStatus`, `transferStatus` | `sender.batch.status`; `sender.transfer.status` of the transfers of that batch |
| `externalMessage` | rows of `sender.external_message`: batch, query id, `created_at` |
| `transaction`, `lastProcessedLt` | rows of `sender.transaction`; `sender.wallet.last_processed_lt` |
| `pushing` | `createBatch` between its commit and `b.batches <- ...` |
| `batches` | the channel `Batches`, capacity `ParallelBatches` |
| `backfillRead`, `backfillList`; `rebatchList`, `rebatchErrors` | locals of `backfillFromDB` and `rebatchExpired` |
| `worker` | where each goroutine of `Sender.worker` is, and its message |
| `queryID` | `Wallet.queryID` |
| `scanStep`, `scanned` | where `processNewTransactions` is, and how far the subscription got |
| `pool`, `ledger`, `lost`, `now` | the chain: broadcast messages, the wallet's transactions, lost messages, time |
| `boot` | history variable: how often the process was started |

Actions, each ending at the next point where another goroutine, the database or
a crash can come in between:

| Action | Code |
|---|---|
| `NextBatch`, `PushBatch` | `batcher.createBatch`: the single statement of `repository.NextBatch`, then the send into the channel |
| `BackfillRead`, `BackfillPush` | `Sender.backfillFromDB`, `repository.GetNewBatches` |
| `RebatchRead`, `RebatchFails`, `RebatchPush` | `Sender.rebatchExpired`, `repository.ResubmitExpiredBatches` |
| `Receive` | the receive of `Sender.worker` and `GetTransfersBatch` |
| `Stamp` | `Wallet.PrepareMessage` and its error; `MessageBuilder` up to `time.Now()` |
| `TakeQueryId` | `MessageBuilder` under the mutex |
| `MarkProcessing`, `PersistExternalMessage` | the two statements of `repository.MarkBatchAsProcessing` |
| `Send` | `Wallet.SendMessage` |
| `ScanSkip`, `ScanInsert`, `ScanUpdate`, `ScanAdvance` | one round of `processNewTransactions`: `PersistTransaction` (two statements), `UpdateLastWalletLt` |
| `Restart` | the process ends, for any reason, at any point, and starts again: `initWallet`, the scanner's `last_processed_lt`, empty memory |
| `Execute`, `Reject`, `Lose`, `OtherTx`, `Tick` | external: contract, network, clock |

A call that may fail offers both outcomes when `CallMayFail` holds: with an error
a statement may still have committed (a timeout of a query that went through).
`PrepareMessage` fails before its message has a number; an error after that has
the effect of a `MarkProcessing` that fails without its own.
The query of `rebatchExpired` may fail whatever `CallMayFail` says (it changes
nothing but the count of errors): at `ErrorCountTolerated` errors in a row the
process ends, which is a `Restart`, so a run with 1 has no tolerated error.

`QueryId`: `queryID` is `Wallet.queryID`, `inHand` the ids of messages that are
built and not recorded, `recorded` the column `query_id`. `Take` is the guarded
`GetNext` of `MessageBuilder`, `Persist` the row of a message (the messages under
construction are recorded in any order), `Drop` a message that is not recorded,
`Restore` is `initWallet` with any of the recorded ids: which one
`GetLastQueryID` selects is up to `created_at`, which `Sender` has.

`Intake`. `queue` holds the messages that were not acknowledged, `delivered`
those the open channel holds; `conns`, `live` and `open` are the connections made,
the one that is up and whether its worker has a channel. Each connection has a
worker of its own, with the locals of its goroutine (`step`, `msg`,
`unbatched`), since the worker of an old one may go on beside the new one.

| Action | Code |
|---|---|
| `Publish` | `Server.SendHandler`, once the broker has the message |
| `Connect`, `ConnLost` | `Queue.connect` and `reconnectLoop`: cancel the old workers, start new ones |
| `CloseChannel` | external: the broker closes a channel only |
| `OpenChannel`, `End` | the head of the batcher's loop; its returns |
| `Deliver`, `Persist`, `Ack` | a round of the inner loop: `handleMessage` with `repository.PersistMessage` and the acknowledgement, then the decision to make a batch |
| `Timer` | the `time.After` case |
| `NextBatchStart`, `NextBatchEnd` | the statement of `repository.NextBatch` between the rows it reads and its commit |
| `AbandonedEnd` | such a statement after its caller timed out or its process ended |
| `Push`, `Take` | `b.Batches <- batchUUID`; a sender's receive |

`Notifier`. `Poll`, `Publish` and `Record` are the three parts of the loop in
`Notifier.Start`; `NewMessage` and `Settle` are the actions of `Outcomes`, what
the sender and the scanner do to the tables that the poll reads.

`Lifecycle`. `at` says where each goroutine is, `worker` the same of the sender's
workers; `cancelled` holds the contexts that are done (`main`, from which
`sender` is derived, from which `scanner` is), `batches` is the length of the
channel, `left` what the two loops that push have yet to push; `open`, `age` and
`drained` are the open requests, their age and the time the server has been
shutting down; `exited` says how the process ended.

| Action | Code |
|---|---|
| `Signal` | `signal.NotifyContext`, whose registration is never undone |
| `Ping`, `StartParts`, `Exit` | `main`: `Postgres.Ping`, the light client and the five `errGroup.Go`, `errGroup.Wait` |
| `AnnounceStop` | `waitForShutdown` |
| `ServerStart`, `Listen`, `ServeFails`, `Drain`, `ServerDone` | `Server.Start` and `Server.run` |
| `Accept`, `Answer`, `CutOff`, `Tick` | a request, the answer of its handler, `TimeoutHandler` meeting the connection's write deadline, the clock of all timeouts |
| `NotifierStop` | the `ctx.Done` case of `Notifier.Start` |
| `ManagerConnect`, `ManagerConnLost`, `ManagerStop` | `Queue.reconnectLoop` |
| `BatcherPush` | `createBatch` in any of the batcher's workers |
| `SenderInit`, `SenderDone` | `Sender.Run` up to its goroutines, and its `g.Wait` |
| `ScannerStart`, `SubscriberExits`, `Process`, `ProcessorExits`, `ScannerDone` | `TxScanner.Start`, its two goroutines, its `g.Wait` |
| `RebatchPass`, `RebatchPush`, `RebatchStop`; `BackfillRead`, `BackfillPush` | the loops of `rebatchExpired` and `backfillFromDB` |
| `Receive`, `Finish`, `WorkerStop` | the loop of a sender worker |

## Abstractions

- **A batch is its uuid** in `Sender`: its transfers are given with it and never
  change, so one `transferStatus` stands for all of them. Which transfers
  `NextBatch` chooses is the subject of `Intake`.
- **`NextBatch` is serialised** in `Sender`, where it creates a batch of given
  transfers. `Intake` lets its statements overlap.
- **`created_at` is the moment the clock is read.** `MessageBuilder` subtracts
  30 s for the benefit of lagging validators and both ends of the TTL shift
  with it; the lag is the constant `ClockSkew`, and `Acceptable` uses it.
- **The clocks of the process and of Postgres are one.** `ExpiredBatches`
  compares Go's timestamps with `now()`; a difference between the two hosts
  counts towards `ClockSkew`.
- **The contract forgets.** A high-load wallet remembers a query id for as long
  as the message could be replayed. `Execute` needs an id that is not
  `Remembered`; `Reject` may refuse any id that was ever `Used`, since the
  contract forgets at some later time of its own choosing.
- **The liteserver refuses** a message the contract would no longer accept, so
  `Send` puts only acceptable messages into the pool.
- **All writers of the wallet are this process.** A foreign external message
  with this wallet's key would fail the foreign key of `transaction`; it is left
  out. Incoming transfers and the wallet's internal messages are `OtherTx`.
- **`Restart` is every way to end.** `log.Fatalf` of the scanner, the error of a
  `rebatchExpired` that gives up, panics and signals all lose the same memory
  and keep the same database. The model lets the process die also where the
  code would not; safety holds for more behaviours than there are.
- **Message bodies** are the triple (batch, query id, `created_at`): `Uuid`
  hashes exactly that.
- **A message of `Intake` is the set of its transfers**, empty if it does not
  parse; a republication is another message with the same set. A transfer is the
  tuple that the table's unique key covers.
- **Prefetched deliveries** are not told apart from those still at the broker:
  both are ready until the worker has them in hand, and both come again when the
  channel closes.
- **Statements** under READ COMMITTED read the rows committed when they start.
  `Commit` marks what was picked then, also rows another statement marked
  meanwhile: the `UPDATE` waits for their locks and evaluates its join again,
  and the join does not mention the status. A statement whose caller is gone
  commits later or never (`abandoned`).
- **A publication is what the channel accepted.** `Queue.Publish` asks for no
  confirm; what the broker does with it is external.
- **Batches of `Outcomes`** start with the status `processing`: a batch without
  a message cannot be due. Its `transaction` names the message that settled it,
  together with the status: a poll looks at transactions of settled batches only.
- **Goroutines of `Lifecycle`** are as coarse as their contexts: a worker is
  busy or at its `select`, a round of the notifier is over when it looks at its
  context. The five errors of `rebatchExpired` are one choice, its loop either
  passes or gives up. Old and new workers of the batcher are one producer.
- **`End`** is the end of the process: `main` returns, `log.Fatalf`, a panic of a
  goroutine. All goroutines are gone with it.
- **Answers** come before `WriteTimeout` or not at all. `TimeoutHandler` and the
  write deadline of the connection have the same 5 s (`main.go:88`,
  `server.go:47` and `96`), and the deadline starts first, when the header has
  been read: the 503 of a handler that takes too long cannot be written any more.
  `CutOff` closes such a request without an answer. What the handler does
  meanwhile is not followed: it may publish (`Publish` of `Intake`, at any time),
  and a client that tries again is another `Publish`.
  The clock counts for requests and the shutdown only. Reading
  a request has a timeout of its own (5 s); both together are less than the 15 s
  of the shutdown, as `WriteTimeout < ShutdownTimeout` demands.
- **Waiting** that nothing depends on (the sleeps between attempts to connect)
  is left out, and so are the listeners of metrics and health probes, which
  nobody stops or waits for.

## Runs, bounds and what they show

| Run | Question | Instance | Size |
|---|---|---|---|
| `query_id` | Are the carries, the last shift and the packing right, so that ids may be thought of as numbers that are counted up? | 4 shifts, 3 bit numbers, radix 4, 2 messages under construction: as in the code one bit number of the radix is unused, and the range ends in the reserved id | 80 k states |
| `sender_crash` | Two workers, copies of a batch in flight, a crash at any step: is anything skipped, forgotten, numbered twice or out of order, resubmitted too early? | 1 batch, 2 workers, 1 slot in the channel, 2 starts, clock to 4, 1 foreign transaction | 2.9 M |
| `sender_payout` | Calls that fail with or without effect: does the database still account for what was sent? Does it implement `Payout` and `Outcomes` if timing is as configured? | 2 batches, 2 workers, failing calls, 2 starts, clock to 5 | 0.5 M |
| `sender_live` | Is every batch settled? | 2 batches, 1 worker, 1 lost message, 2 starts, clock to 20 | 0.2 M |
| `sender_resent`, `sender_query_id` | the two comments the code contradicts (below) | 1–2 batches | until the violation |
| `intake` | Is what was acknowledged stored, is nothing batched twice, does every message get into batches? | an order of 2 transfers, a message that does not parse, 2 connections, 1 failing call, 1 crash, channels may close, batches of 1 | 0.3 M |
| `intake_overlap`, `intake_channel` | the two comments the code contradicts (below) | 1 message | until the violation |
| `notifier` | Was published what is recorded, is it true, and do notifications end? | 3 batches, one order over three batches and one batch of two orders, limit 2, 2 messages each, 1 failing call, 1 crash | 33 k |
| `lifecycle` | Does the process end when a part of it has, unless it hangs for good, and does a normal end wait for every open request? | 1 worker, 1 slot in the channel, 1 request, 2 attempts to ping, timeouts of 1 and 2 ticks, 1 batch per query | 0.3 M |
| `lifecycle_hang` | the comment the code contradicts (below) | 2 workers, no requests | until the violation |

Why the bounds suffice to be interesting:

- `TTL = 1`, `ClockSkew = 1`: the largest lag the assumptions allow. A message
  of time 0 expires at 1, is dead for the chain after 2 and replaced from 3 on;
  a clock to 4 or 5 holds a message, its replacement and the expiry of both.
- `ParallelBatches = 1` with up to four producers makes the channel full and the
  producers wait in almost every behaviour.
- `LastSeqno = 2` runs out of ids (a batch is then dropped); the live run has
  more ids than it needs, so that running out does not excuse a batch.
- two starts give one crash between any two steps, followed by a whole life; ids
  are restored while the messages of the first life are still in the pool.
- `MaxTime = 20` in the live run is never reached: the clock stands still once
  no message waits for anything (guard of `Tick`), and all the lost, refused and
  replaced messages of two batches fit. A clock that stopped early would show as
  a violation of `EventuallySettled`, not hide one.
- two connections let the worker of the first one go on (in a statement, a push,
  an acknowledgement) beside that of the second, and one crash ends both.
- `BatchSize = 1` in `intake` makes two batches of one order: the counter reaches
  its limit with one message, and with none when the message is delivered again
  and counts nothing, so that the second transfer is left to the timer. No order
  is published twice in this instance: it would take the path of a message that
  is delivered again;
  the theorems about `AckedAreStored` and `InOneBatch` hold for any messages.
- in `query_id` every id of the range is taken, recorded and restored; a radix
  of 4 has every carry and the one unused bit number that 1024 has. Two messages
  under construction are enough to record ids out of order.
- the invariants of `sender_payout` are proved for `Spec`, without the timing and
  for any number of batches; the run is where they can be seen to break.
- one failing call reaches every error path of both modules, and together with the
  crash two statements without a caller; the theorems cover any number of each.
- in `notifier` the limit of two is smaller than the number of batches, so that
  it can be filled with overtaken ones; two messages are enough for a batch to be
  paid by an earlier one.
- in `lifecycle` one slot, one worker and three producers make the channel full
  in most behaviours; a second worker only repeats the first one's choices. A
  request older than its timeout would have to be open for two ticks, which is
  what the server waits: with `ShutdownTimeout = 2` the bound is tight.

Symmetry of batches, workers, transfers and messages is used where they are
interchangeable, never with liveness. The runs of `Sender` leave deadlock
checking on; it says little there, since `rebatchExpired` always has another
pass to make (`RebatchRead`). Those of `Intake`, `Notifier` and `Lifecycle`
switch it off: they really stop when the bounded connections are used up,
everything is published or the process has ended. That nothing gets stuck before
is the subject of `EventuallySettled`, `EventuallyBatched`, `EventuallyRecorded`
and `EndsTogether`.

## Timing and fairness

`Sender` alone does not pay at most once. Nothing in the code orders a
resubmission after the scanner, a pass of `rebatchExpired` after the worker of
the pass before, or the backfill before the batcher. `TimelySender` names what
it takes:

| Condition | Why it is plausible | Without it |
|---|---|---|
| `ScannerPrompt` | scanner is behind by less than a TTL after the expiry (300 s each), downtime included | an executed batch is resubmitted (`rebatchExpired` runs at once after a start, while the scanner catches up; in the restart loop that follows a crash between the scanner's writes it runs at every start, and no start settles the batch) |
| `RebatchSpaced` | a resubmitted batch is recorded within `ExpirationCheckInterval`, 30 s | the same batch is pushed by two passes and sent with two ids |
| `BackfillFirst` | the backfill's query runs at the start, the batcher first waits for the queue and a threshold or timer | the batch is pushed by batcher and backfill and sent twice |

TLC finds a double payment when any one of the three is dropped; they are
hazards of the code and not facts about it. `PaidAtMostOnce` under the three is
the refinement of `Payout`: it holds across calls that fail after their effect,
restored (and therefore repeated) query ids, resubmissions and crashes at any
step, but for what comes of one: after a crash between `ScanInsert` and
`ScanUpdate` the scanner never gets past that transaction, and `ScannerPrompt`
stops the clock before the executed message may be replaced. The code has no
such clock: there its restart loop can resubmit the batch, and pay it again, two
TTLs later (the hazard at `repository.go:316`).

Liveness adds `WorkersPrompt` (a message goes out before it expires: seconds
against 300 s) and `CleanCrash` (no crash in the middle of
`MarkBatchAsProcessing` or of the scanner's writes; those two windows lose a
batch, or the process, for good: see the hazards at `repository.go:400` and
`repository.go:316`).

Fairness is weak, and only on steps that the Go runtime or the network owe:
goroutines that can run (each loop and each worker), the scanner, a valid
message reaching a block, the clock. No fairness is assumed of `NextBatch`
(nobody owes a batch), of errors, of losses or of crashes. Every fair action is
conjoined with `InTime`, so that fairness never asks for a step that the timing
excludes.

`EventuallyBatched` needs the queue manager to reconnect, workers to run and
senders to take batches (weak fairness), and deliveries to be taken: Go's
`select` chooses among ready cases at random, so a timer that is ready over and
over does not starve a message that is there over and over (strong fairness of
`Deliver`). Its exceptions are in the formula: messages that mix known transfers
with new ones, a worker that returned while the connection stays up (`Deaf`, see
run `intake_channel`), a message that can never be acknowledged (`Poisoned`, the
hazard at `batcher.go:167`) and a broker that closes channels forever.
`EventuallyRecorded` needs the notifier's loop to go on. Its
exceptions are in the formula: a due batch with two orders, whose rows the
`INSERT ... ON CONFLICT DO UPDATE` refuses, and a limit filled with overtaken
batches.

`EndsTogether` needs goroutines to run and time to pass (weak fairness, one
condition for all steps that a goroutine takes once in its life, since each of
them disables itself), and loops to notice their cancelled context in the end
although their `select` may choose another ready case for a while (strong
fairness of `WorkerStop` and `RebatchStop`). Nobody owes a signal, an error, a
batch, a request, a lost connection, a transaction, or a subscription that ends
before its context: of the queue manager only connecting and returning are fair,
of the processor only that a statement under way ends. That excludes a database
that never answers: the statements of the scanner have no timeout of their own.
Its exception
is `Stuck`: `rebatchExpired` waiting for room when all workers have returned.
`StuckForGood` is what makes that exception honest: nothing leaves the state
but the end of the process, so that it exempts a hang and no state that is
merely passed through.

## Where the code differs from its comments

- `sender.go:291` says `rebatchExpired` takes batches that "still haven't been
  confirmed". It looks at a status that the scanner writes later; run
  `sender_resent` ends with a batch that was paid on the chain, taken for
  resubmission because the scanner had not reached it.
- `wallet.go:123` says `Init` "restores the state of the query ID".
  `GetLastQueryID` orders by `created_at`, read before the mutex that orders the
  ids and with a resolution of a second; run `sender_query_id` ends with a
  restart below an id that is already recorded. The contract refuses the next
  message, which a resubmission replaces two TTLs later.

- `repository.go:60` says `NextBatch` will "atomically get" new transactions
  and "mark them as batched". Run `intake_overlap` ends with a transfer in two
  batches: `createBatch` gave up after its timeout, the statement ran on, and
  the next one had picked the same rows before it committed. Each batch is paid.
- `gueue.go:59` says a registered worker "will be invoked every time a channel is
  (re)created". It is invoked once for a connection; run `intake_channel` ends
  with a connection that is up and nobody who consumes.
- `main.go:51` says the signals cause a "gracefull shutdown". Run `lifecycle_hang`
  ends with a process that never ends: the workers have returned, the channel
  has been filled, and `rebatchExpired`, which looks at no context while it
  pushes, waits for room. `Sender.Run` waits for it, `main` for `Sender.Run`, and
  further signals are swallowed. `EndsTogether` shows that this is the only way:
  also for errors, after which the process may go on without a sender.

## What is proved

For every set of batches and workers, every capacity, TTL, number of ids, crash
count and clock bound, from `SenderAssumption` (`ClockSkew <= TTL` is the one
that carries weight), `NoMsgAssumption` and, for query ids, `QueryIdAssumption`
(at least two bit numbers, fewer than the radix has room for):

| Theorem | Argument |
|---|---|
| `TypeCorrect` (`Sender`) | inductive as it stands, action by action |
| `RecordedBeforeSentAlways` | `RecordedInv` adds that a worker at `send` holds a recorded message; a row is never deleted |
| `ResubmitOnlyDeadAlways` | an action property: the guard `Resubmittable` puts `now` past the expiry by a TTL, and a TTL covers the lag |
| `NothingSkippedAlways`, `StatusHasTransactionAlways` | one invariant `ScanInv` for both, since each step of the scanner needs the other's facts: the scanner's position is at or past the saved one, between `ScanInsert` and `ScanAdvance` the transaction at hand is recorded, after `ScanUpdate` its batch has an outcome. `NothingSkipped` alone is not inductive: `ScanAdvance` says nothing about the outcome |
| `UniqueIdsPerBootAlways` | `IdInv`: all messages of this start, recorded or held, have ids up to `queryID`, and two workers past the mutex never hold the same one |
| `NewIsInFlightAlways` | with `LastInv` (a restored id never exceeds `LastSeqno`): each step either leaves a batch where it is in its journey, moves it on, or marks it. The case analysis is by place: list, channel (shifted by `Receive`), worker |
| `NumbersInOrderAlways` (`Sender`) | the refinement of `Numbering`, step by step: a worker between the mutex and the row holds a number in hand; `IdInv` makes it the only holder, so that giving a number away takes it out of the set. Drawing a number is `Take`, a row `Record`, every error in between `Drop`, and a restart takes one of the recorded numbers |
| `TypeCorrect`, `RestoreIsExactAlways`, `EmergencyIdKeptAlways` (`QueryId`) | `IdInv` there: every id in the wallet, in hand and in a row is a legal pair other than the emergency id. Lemmas on quotient and remainder: packing and unpacking are inverse below the radix, so are `ToSeqno` and `FromSeqno` |
| `NumbersInOrderAlways` (`QueryId`) | the refinement of `Numbering` by the pairs: `GetNext` is the successor in sequence numbers, the emergency id is the largest one, different pairs have different numbers |

Under the timing conditions of `TimelySender` (`TimelySpec`; they restrict steps,
and run `sender_payout` explores what is left of them):

| Theorem | Argument |
|---|---|
| `PaidAtMostOnceAlways` | the refinement of `Payout`. Its heart is `OnceInv`: an unsettled batch is in one of three stages that exclude each other (`Apart`): there is one copy of it in flight without a row (`OneCopy`: a list, the channel or a worker), or one message the contract may still take (`OneMessage`: in the pool or about to be sent), or one transaction (`OneTx`). A copy is made of a batch in three places: by `NextBatch` when it has none, by the backfill, which finds the batch `new` and therefore, with `BackfillFirst`, nowhere else (`StatusInv`), and by `rebatchExpired`, where `RebatchSpaced` excludes another copy, `Resubmittable` a live message (`ResubmittableIsDead`), and `ScannerPrompt` a transaction that the status does not show (`TimeInv`). From `OneTx` and `StatusHasTransaction`, an execution is the only verdict of its batch and `ScanUpdate` reports it |
| `SettledForGoodAlways` | the refinement of `Outcomes`. `OnceInv` excludes that a settled batch is marked or gets a row again, since it has a transaction and so no copy; `SettledInv` adds that the transaction of a settled batch is recorded, which gives the rank that the notifier's query finds. The bound on messages of a batch, one per id and start, follows from `UniqueIdsPerBoot` |

Neither invariant is inductive without the other parts: without `TimeInv` a
resubmission could meet a transaction, without `StatusInv` the backfill a copy,
and `OneTx` needs that a live message excludes a transaction.

For `Intake` (`IntakeAssumption`: finitely many transfers, a positive batch
size), `Notifier` (`NotifierAssumption`: a positive limit) and `Lifecycle`
(`LifecycleAssumption`: `WriteTimeout < ShutdownTimeout`):

| Theorem | Argument |
|---|---|
| `TypeCorrect` (`Intake`, `Notifier`) | inductive as it stands |
| `TypeCorrect` (`Lifecycle`) | `CountInv` adds that a loop at its push has something left to push, and that `main` pings only while it has attempts |
| `AckedAreStoredAlways` | `AckInv` adds that the message of a worker at `ack` is already stored; `PickedInv`, that statements only mark rows that exist, so that no commit undoes it |
| `InOneBatchAlways` | `InOneBatch` is about batches only. `BatchInv` adds that all transfers of batches are marked, and that as long as nothing has overlapped there is one statement at most, in a worker or abandoned, whose rows are still new |
| `RecordedWasPublishedAlways` | `RoundInv`: a poll returns all orders of a batch or none, and what is no longer pending was published |
| `PublishedWasPaidAlways` | `PaidInv` extends it to what was polled and not yet published: a final status and its transaction do not change |
| `StuckForGoodAlways` | an action property. `StartInv`: the sender's loops are started once, after `main` has started the sender; so no step restarts the workers, and all who could make room have returned |
| `DrainedAlways` | `DrainInv`: a server that drains accepts nothing, so every open request is at least as old as the shutdown; it is answered or cut off first, so the server never gives up on one. That a request was answered is not claimed |

Put together: `TimelySender` implements `Outcomes`, and `Notifier`, which takes
the steps of `Outcomes` for those of the sender, publishes nothing but outcomes
that were paid (`PublishedWasPaidAlways`). Both ends are proved, for any number
of batches.

Only model-checked: `EventuallySettled`, `EventuallyBatched`,
`EventuallyRecorded` and `EndsTogether` (liveness under fairness is outside what
the prover can do). The comments the code contradicts are refuted by TLC and have
nothing to prove.

## What is not modelled

Handlers of the API beyond accepting, answering and publishing (they keep no
state; parsing and the wording of answers), its listeners of metrics and health
probes, the broker's own failures, configuration, logging, the unused row type,
the legacy Python service and the development tools. Cells and bodies of
messages, amounts and addresses are left out. They do carry control flow in one
place: `MustParseAddr` panics on an address that does not parse (`wallet.go:58`),
nothing before it looks at addresses, and the backfill pushes the same batch at
every start. The batches of these models can be built, and `EventuallySettled`
says nothing of one that cannot.

Some hazards have no property. Publications that the broker loses (`gueue.go:180`)
and addresses that do not parse are outside the models; deferred cancellations
that pile up in endless loops (`notifier.go:71`) cost memory only. A batch dropped
after an error of a call (`sender.go:209`, `batcher.go:208`) and a client that is
cut off by a slow handler (`server.go:96`) are steps of the models, and the code
promises nothing about them: nothing brings such a batch back before the next
start, and no one answers such a client.

## Plan

In this order; the first eight are done.

1. `QueryId`, `QueryIdProofs`.
2. `Sender`, `SenderProofs`, `Payout`, `TimelySender`.
3. `Intake`, `IntakeProofs`.
4. `Notifier`, `NotifierProofs`.
5. `Lifecycle`, `LifecycleProofs`.
6. `Outcomes`: the composition of `Sender` and `Notifier`.
7. `Numbering`: the composition of `QueryId` and `Sender`.
8. `TimelySenderProofs`: the refinements of `Payout` and `Outcomes`.
9. The handover from `Intake` to `Sender`: the pushed batches of the one are a
   number, those of the other have names. An abstract specification of what a
   batch is (a set of transfers, created once) that both implement would carry
   `InOneBatch` and `PaidAtMostOnce` over to single transfers.

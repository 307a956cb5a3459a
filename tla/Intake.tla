------------------------------- MODULE Intake -------------------------------
(***************************************************************************)
(* The way of a transfer into a batch: RabbitMQ, the queue manager that    *)
(* reconnects, the batcher's workers (one per connection) and the tables   *)
(* transfer and batch.                                                     *)
(*                                                                         *)
(*   publisher --> queue --> worker --COPY--> transfer --NextBatch--> batch *)
(*                   ^----- ack ---'                       '--> channel    *)
(*                                                                         *)
(* A delivered message stays in the queue until it is acknowledged, and is *)
(* delivered again when its channel closes before that. The broker, the    *)
(* publisher and the reader of the channel are external.                   *)
(***************************************************************************)
EXTENDS Naturals, FiniteSets, SequencesExt

CONSTANTS
  Transfer,         \* (order, wallet, amount, comment): what is unique
  Msg,              \* messages; a republication is a message of its own
  transfersOf,      \* the transfers of a message; none if it does not parse
  Repeating,        \* messages that list one of their transfers twice
  BatchSize,
  ParallelBatches,  \* capacity of the channel Batches
  ChannelMayClose,  \* TRUE if the broker may close a channel of a connection
  MaxConns,         \* bound: how often the queue manager connects
  MaxFailures,      \* bound: how many database calls return an error
  MaxCrashes,       \* bound: how often the process stops
  NoMsg

ASSUME IntakeAssumption ==
  /\ IsFiniteSet(Transfer)
  /\ transfersOf \in [Msg -> SUBSET Transfer]
  /\ Repeating \subseteq Msg
  /\ BatchSize \in Nat \ {0}
  /\ ParallelBatches \in Nat
  /\ ChannelMayClose \in BOOLEAN
  /\ MaxConns \in Nat
  /\ MaxFailures \in Nat
  /\ MaxCrashes \in Nat
  /\ NoMsg \notin Msg

VARIABLES
  \* --- RabbitMQ and the connection
  queue,           \* messages that were not acknowledged, in order
  delivered,       \* those the open channel holds
  acked,           \* history: the acknowledged ones
  conns,           \* connections made so far
  live,            \* the connection that is up, 0 if none is
  open,            \* the worker of that connection has an open channel
  \* --- Postgres
  transferStatus,  \* "none" before the row exists
  arrival,         \* updated_at of a new transfer: rows before its COPY
  batch,           \* transfer_ids of the batches created so far
  abandoned,       \* NextBatch statements whose caller gave up on them
  overlapped,      \* history: two NextBatch statements ran at the same time
  \* --- the process
  step,            \* where the worker of each connection is
  msg,             \* the message it handles
  unbatched,       \* its count of transfers since the last batch
  picked,          \* the transfers its NextBatch statement selected
  batches,         \* how many batches the channel holds
  failures, crashes

queueVars  == <<queue, delivered, acked>>
connVars   == <<conns, live, open>>
tableVars  == <<transferStatus, arrival, batch>>
stmtVars   == <<abandoned, overlapped>>
workerVars == <<step, msg, unbatched, picked>>
boundVars  == <<failures, crashes>>
vars == <<queueVars, connVars, tableVars, stmtVars, workerVars, batches, boundVars>>

Worker == 1 .. MaxConns

Step == {"none", "open", "consume", "persist", "ack", "create", "commit", "push", "gone"}

Init ==
  /\ queue = <<>> /\ delivered = {} /\ acked = {}
  /\ conns = 0 /\ live = 0 /\ open = FALSE
  /\ transferStatus = [t \in Transfer |-> "none"]
  /\ arrival = [t \in Transfer |-> 0]
  /\ batch = <<>> /\ abandoned = {} /\ overlapped = FALSE
  /\ step = [c \in Worker |-> "none"]
  /\ msg = [c \in Worker |-> NoMsg]
  /\ unbatched = [c \in Worker |-> 0]
  /\ picked = [c \in Worker |-> {}]
  /\ batches = 0 /\ failures = 0 /\ crashes = 0

\* The worker of this connection has an open channel.
Attached(c) == live = c /\ open

\* connect() cancels the context of all earlier workers.
Cancelled(c) == c < conns

Queued == {queue[i] : i \in DOMAIN queue}
Ready  == {i \in DOMAIN queue : queue[i] \notin delivered}
Stored == {t \in Transfer : transferStatus[t] # "none"}
New    == {t \in Transfer : transferStatus[t] = "new"}

Fail == failures < MaxFailures /\ failures' = failures + 1

------------------------------------------------------------------------------
(***************************************************************************)
(* The publisher, the broker and the queue manager                         *)
(***************************************************************************)

Publish(m) ==
  /\ m \notin Queued \cup acked
  /\ queue' = Append(queue, m)
  /\ UNCHANGED <<delivered, acked, connVars, tableVars, stmtVars, workerVars,
                 batches, boundVars>>

\* Faulty form: the workers are started once, with the first connection.
ConnectStartingOnce ==
  /\ live = 0 /\ conns < MaxConns
  /\ conns' = conns + 1 /\ live' = conns + 1
  /\ step' = IF conns = 0 THEN [step EXCEPT ![1] = "open"] ELSE step
  /\ UNCHANGED <<queueVars, open, tableVars, stmtVars, msg, unbatched, picked,
                 batches, boundVars>>

\* connect: cancels the workers of earlier connections and starts new ones.
Connect ==
  /\ live = 0 /\ conns < MaxConns
  /\ conns' = conns + 1 /\ live' = conns + 1
  /\ step' = [step EXCEPT ![conns + 1] = "open"]
  /\ UNCHANGED <<queueVars, open, tableVars, stmtVars, msg, unbatched, picked,
                 batches, boundVars>>

\* What a channel holds is ready again when it closes.
ChannelLost == open' = FALSE /\ delivered' = {}

Disconnect == live # 0 /\ conns < MaxConns /\ live' = 0 /\ ChannelLost

ConnLost ==
  /\ Disconnect
  /\ UNCHANGED <<queue, acked, conns, tableVars, stmtVars, workerVars, batches,
                 boundVars>>

\* The broker closes the channel and leaves the connection up.
CloseChannel ==
  /\ ChannelMayClose
  /\ open
  /\ ChannelLost
  /\ UNCHANGED <<queue, acked, conns, live, tableVars, stmtVars, workerVars,
                 batches, boundVars>>

------------------------------------------------------------------------------
(***************************************************************************)
(* The batcher's worker: channel and messages                              *)
(***************************************************************************)

Goto(c, s) == step' = [step EXCEPT ![c] = s]

\* The head of the loop: the previous channel is closed, a new one opened.
OpenChannel(c) ==
  /\ step[c] = "open"
  /\ live = c
  /\ Goto(c, "consume")
  /\ open' = TRUE /\ delivered' = {}
  /\ msg' = [msg EXCEPT ![c] = NoMsg]
  /\ unbatched' = [unbatched EXCEPT ![c] = 0]
  /\ UNCHANGED <<queue, acked, conns, live, tableVars, stmtVars, picked, batches,
                 boundVars>>

\* The worker returns: its context is cancelled, its deliveries have ended, or
\* the queue could not be declared. Nobody starts it again.
End(c) ==
  /\ \/ step[c] = "open" /\ Cancelled(c) /\ UNCHANGED <<open, delivered>>
     \/ step[c] = "consume" /\ ~Attached(c) /\ UNCHANGED <<open, delivered>>
     \/ step[c] = "open" /\ live = c /\ ChannelMayClose /\ ChannelLost
  /\ Goto(c, "gone")
  /\ msg' = [msg EXCEPT ![c] = NoMsg]
  /\ unbatched' = [unbatched EXCEPT ![c] = 0]
  /\ UNCHANGED <<queue, acked, conns, live, tableVars, stmtVars, picked, batches,
                 boundVars>>

Deliver(c) ==
  /\ step[c] = "consume"
  /\ Attached(c)
  /\ \E i \in Ready :
       /\ \A j \in Ready : i <= j
       /\ msg' = [msg EXCEPT ![c] = queue[i]]
       /\ delivered' = delivered \cup {queue[i]}
  /\ Goto(c, "persist")
  /\ UNCHANGED <<queue, acked, connVars, tableVars, stmtVars, unbatched, picked,
                 batches, boundVars>>

\* The COPY of PersistMessage hits the unique key.
Duplicate(m) ==
  /\ transfersOf[m] # {}
  /\ m \in Repeating \/ transfersOf[m] \cap Stored # {}

CopyFrom(m) ==
  /\ transfersOf[m] # {} /\ ~Duplicate(m)
  /\ transferStatus' = [t \in Transfer |->
       IF t \in transfersOf[m] THEN "new" ELSE transferStatus[t]]
  /\ arrival' = [t \in Transfer |->
       IF t \in transfersOf[m] THEN Cardinality(Stored) ELSE arrival[t]]

\* Faulty form: a message is acknowledged although storing it failed.
PersistAckingErrors(c) ==
  /\ step[c] = "persist"
  /\ Goto(c, "ack")
  /\ \/ /\ CopyFrom(msg[c])
        /\ UNCHANGED failures
     \/ Fail /\ UNCHANGED <<transferStatus, arrival>>
     \/ Duplicate(msg[c]) /\ UNCHANGED <<transferStatus, arrival, failures>>
  /\ UNCHANGED <<queueVars, connVars, batch, stmtVars, msg, unbatched, picked,
                 batches, crashes>>

\* handleMessage up to the acknowledgement. A message that holds no transfer,
\* or a failing COPY, with or without effect, makes the worker reopen its
\* channel. A duplicate counts as stored.
Persist(c) ==
  LET m == msg[c] IN
  /\ step[c] = "persist"
  /\ \/ /\ CopyFrom(m)
        /\ Goto(c, "ack")
        /\ unbatched' = [unbatched EXCEPT ![c] = @ + Cardinality(transfersOf[m])]
        /\ UNCHANGED failures
     \/ /\ Duplicate(m)
        /\ Goto(c, "ack")
        /\ UNCHANGED <<transferStatus, arrival, unbatched, failures>>
     \/ /\ transfersOf[m] = {}
        /\ Goto(c, "open")
        /\ UNCHANGED <<transferStatus, arrival, unbatched, failures>>
     \/ /\ Fail
        /\ CopyFrom(m) \/ UNCHANGED <<transferStatus, arrival>>
        /\ Goto(c, "open")
        /\ UNCHANGED unbatched
  /\ UNCHANGED <<queueVars, connVars, batch, stmtVars, msg, picked, batches, crashes>>

\* What follows a message that was acknowledged as far as the worker knows.
AfterMessage(c) ==
  /\ Goto(c, IF unbatched[c] >= BatchSize THEN "create" ELSE "consume")
  /\ msg' = [msg EXCEPT ![c] = NoMsg]

\* The acknowledgement arrives, or is lost with the connection, or is refused
\* because the channel has closed.
Ack(c) ==
  /\ step[c] = "ack"
  /\ \/ /\ Attached(c)
        /\ \E i \in DOMAIN queue : queue[i] = msg[c] /\ queue' = RemoveAt(queue, i)
        /\ delivered' = delivered \ {msg[c]}
        /\ acked' = acked \cup {msg[c]}
        /\ AfterMessage(c)
        /\ UNCHANGED <<live, open>>
     \/ /\ Attached(c) /\ Disconnect
        /\ AfterMessage(c)
        /\ UNCHANGED <<queue, acked>>
     \/ /\ ~Attached(c)
        /\ Goto(c, "open")
        /\ UNCHANGED <<queueVars, live, open, msg>>
  /\ UNCHANGED <<conns, tableVars, stmtVars, unbatched, picked, batches, boundVars>>

------------------------------------------------------------------------------
(***************************************************************************)
(* The batcher's worker: batches                                           *)
(***************************************************************************)

\* Faulty form: no batch is asked for while nothing was counted.
TimerIfCounted(c) ==
  /\ step[c] = "consume"
  /\ Attached(c)
  /\ unbatched[c] > 0
  /\ Goto(c, "create")
  /\ UNCHANGED <<queueVars, connVars, tableVars, stmtVars, msg, unbatched, picked,
                 batches, boundVars>>

\* BatchTimeout or BatchDelay is over and no message came.
Timer(c) ==
  /\ step[c] = "consume"
  /\ Attached(c)
  /\ Goto(c, "create")
  /\ UNCHANGED <<queueVars, connVars, tableVars, stmtVars, msg, unbatched, picked,
                 batches, boundVars>>

\* Up to BatchSize new transfers, the oldest first.
Oldest(S) ==
  /\ S \subseteq New
  /\ Cardinality(S) <= BatchSize
  /\ S = New \/ Cardinality(S) = BatchSize
  /\ \A t \in S, u \in New \ S : arrival[t] <= arrival[u]

\* NextBatch starts: the statement sees the rows that are committed by now.
NextBatchStart(c) ==
  /\ step[c] = "create"
  /\ \E S \in SUBSET New : Oldest(S) /\ picked' = [picked EXCEPT ![c] = S]
  /\ Goto(c, "commit")
  /\ overlapped' = (\/ overlapped
                    \/ abandoned # {}
                    \/ \E d \in Worker : step[d] = "commit")
  /\ UNCHANGED <<queueVars, connVars, tableVars, abandoned, msg, unbatched,
                 batches, boundVars>>

\* Faulty form: the picked transfers are not marked.
CommitWithoutMark(S) ==
  /\ batch' = Append(batch, S)
  /\ UNCHANGED <<transferStatus, arrival>>

\* It commits: the rows it picked are marked and make up a batch. A row that
\* another statement marked meanwhile is waited for and marked again, since
\* the join that selects it does not look at its status.
Commit(S) ==
  /\ transferStatus' = [t \in Transfer |-> IF t \in S THEN "batched" ELSE transferStatus[t]]
  /\ arrival' = [t \in Transfer |-> IF t \in S THEN 0 ELSE arrival[t]]
  /\ batch' = Append(batch, S)

\* A statement that lost its caller, told apart from others by when that was.
Statement(c) == [worker |-> c, since |-> failures + crashes, picked |-> picked[c]]

\* No transfers, no batch. An error leaves the statement to the server.
NextBatchEnd(c) ==
  /\ step[c] = "commit"
  /\ \/ /\ picked[c] # {}
        /\ Commit(picked[c])
        /\ Goto(c, "push")
        /\ UNCHANGED <<abandoned, unbatched, failures>>
     \/ /\ picked[c] = {}
        /\ Goto(c, "consume")
        /\ unbatched' = [unbatched EXCEPT ![c] = 0]
        /\ UNCHANGED <<tableVars, abandoned, failures>>
     \/ /\ Fail
        /\ abandoned' = abandoned \cup {Statement(c)}
        /\ Goto(c, "consume")
        /\ unbatched' = [unbatched EXCEPT ![c] = 0]
        /\ UNCHANGED tableVars
  /\ picked' = [picked EXCEPT ![c] = {}]
  /\ UNCHANGED <<queueVars, connVars, overlapped, msg, batches, crashes>>

\* A statement nobody waits for commits after all, or is cancelled.
AbandonedEnd(s) ==
  /\ s \in abandoned
  /\ abandoned' = abandoned \ {s}
  /\ \/ s.picked # {} /\ Commit(s.picked)
     \/ UNCHANGED tableVars
  /\ UNCHANGED <<queueVars, connVars, overlapped, workerVars, batches, boundVars>>

\* Faulty form: the push does not wait for room.
PushUnbounded(c) ==
  /\ step[c] = "push"
  /\ batches' = batches + 1
  /\ Goto(c, "consume")
  /\ unbatched' = [unbatched EXCEPT ![c] = 0]
  /\ UNCHANGED <<queueVars, connVars, tableVars, stmtVars, msg, picked, boundVars>>

Push(c) ==
  /\ step[c] = "push"
  /\ batches < ParallelBatches
  /\ batches' = batches + 1
  /\ Goto(c, "consume")
  /\ unbatched' = [unbatched EXCEPT ![c] = 0]
  /\ UNCHANGED <<queueVars, connVars, tableVars, stmtVars, msg, picked, boundVars>>

\* A sender worker takes a batch (Receive of module Sender).
Take ==
  /\ batches > 0
  /\ batches' = batches - 1
  /\ UNCHANGED <<queueVars, connVars, tableVars, stmtVars, workerVars, boundVars>>

\* The process stops and starts again. Its statements are left to the server;
\* module Sender follows the batches the channel loses.
Restart ==
  /\ crashes < MaxCrashes /\ conns < MaxConns
  /\ crashes' = crashes + 1
  /\ live' = 0 /\ ChannelLost
  /\ step' = [c \in Worker |-> IF c <= conns THEN "gone" ELSE "none"]
  /\ msg' = [c \in Worker |-> NoMsg]
  /\ unbatched' = [c \in Worker |-> 0]
  /\ abandoned' = abandoned \cup {Statement(c) : c \in {d \in Worker : step[d] = "commit"}}
  /\ picked' = [c \in Worker |-> {}]
  /\ batches' = 0
  /\ UNCHANGED <<queue, acked, conns, tableVars, overlapped, failures>>

------------------------------------------------------------------------------

Run(c) ==
  \/ OpenChannel(c) \/ End(c) \/ Deliver(c) \/ Persist(c) \/ Ack(c) \/ Timer(c)
  \/ NextBatchStart(c) \/ NextBatchEnd(c) \/ Push(c)

Next ==
  \/ \E m \in Msg : Publish(m)
  \/ Connect \/ ConnLost \/ CloseChannel
  \/ \E c \in Worker : Run(c)
  \/ \E s \in abandoned : AbandonedEnd(s)
  \/ Take \/ Restart

Spec == Init /\ [][Next]_vars

\* The queue manager connects again, goroutines run, the channel is read, and
\* a select among ready cases is random: a message that waits is taken.
Fairness ==
  /\ WF_vars(Connect)
  /\ \A c \in Worker : WF_vars(Run(c)) /\ SF_vars(Deliver(c))
  /\ WF_vars(Take)

LiveSpec == Spec /\ Fairness

------------------------------------------------------------------------------

\* Type invariant. The channel never holds more than its capacity.
TypeOK ==
  /\ queue \in Seq(Msg) /\ delivered \subseteq Msg /\ acked \subseteq Msg
  /\ conns \in 0 .. MaxConns /\ live \in 0 .. MaxConns /\ open \in BOOLEAN
  /\ transferStatus \in [Transfer -> {"none", "new", "batched"}]
  /\ arrival \in [Transfer -> Nat]
  /\ batch \in Seq(SUBSET Transfer)
  /\ abandoned \subseteq [worker : Worker, since : Nat, picked : SUBSET Transfer]
  /\ overlapped \in BOOLEAN
  /\ step \in [Worker -> Step]
  /\ msg \in [Worker -> Msg \cup {NoMsg}]
  /\ \A c \in Worker : step[c] \in {"persist", "ack"} => msg[c] \in Msg
  /\ unbatched \in [Worker -> Nat]
  /\ picked \in [Worker -> SUBSET Transfer]
  /\ batches \in 0 .. ParallelBatches
  /\ failures \in Nat /\ crashes \in Nat

\* A message whose transfers are not simply those of another one.
Mixed(m) ==
  \/ m \in Repeating
  \/ \E n \in Msg : transfersOf[m] \cap transfersOf[n] \notin {{}, transfersOf[m]}

\* An acknowledged message has all its transfers in the database, whatever
\* was lost, delivered again, refused as a duplicate or only half reported,
\* unless it mixes known transfers with new ones: those are lost, because one
\* duplicate makes PersistMessage refuse the whole message.
AckedAreStored ==
  \A m \in acked : Mixed(m) \/ (transfersOf[m] # {} /\ transfersOf[m] \subseteq Stored)

\* As long as no two NextBatch statements run at the same time, a transfer is
\* in one batch at most, across workers of old connections, crashes and
\* statements that commit after their caller gave up.
InOneBatch ==
  ~overlapped =>
    \A i, j \in DOMAIN batch : i # j => batch[i] \cap batch[j] = {}

\* Documented at NextBatch: it atomically gets new transactions and marks them
\* as batched. Two statements that overlap pick the same rows.
AtomicNextBatch ==
  [][\A i \in DOMAIN batch' \ DOMAIN batch :
       \A t \in batch'[i] : transferStatus[t] = "new"]_vars

\* Documented at RegisterWorker: a worker is invoked every time a channel is
\* (re)created, so a worker whose channel was closed is followed by one that
\* opens another. The code invokes workers once for a connection.
ChannelRecreated ==
  \A c \in Worker : live = c /\ step[c] = "consume" ~> open \/ live # c

\* Nobody consumes, although the connection is up: the channel was closed, or
\* its queue could not be declared, and the worker returned.
Deaf == live # 0 /\ step[live] = "gone"

\* A message without transfers comes again and again, before all others.
Poisoned == \E m \in Queued : transfersOf[m] = {}

\* A message is in the queue, or some of its transfers are in no batch yet.
Pending(m)   == m \in Queued \/ \E t \in transfersOf[m] : transferStatus[t] = "new"
Processed(m) == \A t \in transfersOf[m] : \E i \in DOMAIN batch : t \in batch[i]

\* Every message gets all its transfers into batches, through lost connections,
\* lost acknowledgements, closed channels, failing calls and a crash, unless
\* consumption has stopped: nobody listens, a message without transfers is in
\* the way, or the broker closes channels forever.
EventuallyBatched ==
  \/ []<><<CloseChannel>>_vars
  \/ \A m \in Msg : Pending(m) ~> (Processed(m) \/ Mixed(m) \/ Deaf \/ Poisoned)

==============================================================================

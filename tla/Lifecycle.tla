------------------------------ MODULE Lifecycle ------------------------------
(***************************************************************************)
(* The life of the process: main starts the parts in an errgroup, and the  *)
(* first error or a signal cancels the context they share.                 *)
(*                                                                         *)
(*   main --> waiter --stop--> server (listener, handlers)                 *)
(*        --> notifier                                                     *)
(*        --> queue manager --> batcher --batches--> worker                *)
(*        --> sender --> worker, rebatch, scanner (subscriber, processor)  *)
(*                  '--> backfill --batches--> worker                      *)
(*                                                                         *)
(* main waits for its five, the sender for its workers, the rebatch loop   *)
(* and the scanner; nobody waits for listener, handlers, batcher and       *)
(* backfill. A batch is one of a number in a channel here.                 *)
(***************************************************************************)
EXTENDS Naturals, FiniteSets

CONSTANTS
  Worker,           \* sender workers
  ParallelBatches,  \* capacity of the channel Batches
  Request,          \* HTTP requests that may be open at the same time
  PingAttempts,
  WriteTimeout,     \* of a connection and of its handler, in ticks of the clock
  ShutdownTimeout,  \* how long the server waits for open requests
  MaxList           \* bound: how many batches a query returns

ASSUME LifecycleAssumption ==
  /\ ParallelBatches \in Nat
  /\ PingAttempts \in Nat \ {0}
  /\ WriteTimeout \in Nat
  /\ ShutdownTimeout \in Nat
  /\ WriteTimeout < ShutdownTimeout
  /\ MaxList \in Nat

VARIABLES
  main,       \* "ping", "connect" or "wait"
  pings,      \* failed attempts
  signalled,  \* a signal has arrived; later ones are swallowed
  cancelled,  \* the contexts that are done
  stop,       \* how many signals the channel stop holds
  at,         \* where each goroutine is
  worker,     \* where each sender worker is
  batches,    \* how many batches the channel holds
  left,       \* how many batches backfill and rebatch have yet to push
  open,       \* requests that are being served
  age,        \* ticks since a request was accepted
  drained,    \* ticks since the server began to shut down
  exited      \* how the process ended, "no" before it has

startVars  == <<main, pings>>
ctxVars    == <<signalled, cancelled, stop>>
queueVars  == <<batches, left>>
serverVars == <<open, age, drained>>
vars == <<startVars, ctxVars, at, worker, queueVars, serverVars, exited>>

\* What the errgroup of main waits for.
Supervised == {"waiter", "server", "notifier", "manager", "sender"}

Part == Supervised \cup {"listener", "batcher", "scanner", "subscriber",
                         "processor", "rebatch", "backfill"}

\* What the goroutines of main, the sender and the scanner are at.
Place == {"off", "wait", "start", "serve", "drain", "bind", "accept", "closed", "loop",
          "select", "head", "up", "on", "init", "run", "write", "read", "push", "done"}

\* A context is cancelled with the one it was derived from.
Below == [main    |-> {"main", "sender", "scanner"},
          sender  |-> {"sender", "scanner"},
          scanner |-> {"scanner"}]

Cancel(c) == cancelled' = cancelled \cup Below[c]

Goto(p, s) == at' = [at EXCEPT ![p] = s]

\* How the process ends: its memory is gone, requests may be open.
End(how) ==
  /\ exited' = how
  /\ at' = [p \in Part |-> "off"] /\ worker' = [w \in Worker |-> "off"]
  /\ batches' = 0 /\ left' = [p \in {"backfill", "rebatch"} |-> 0]

Init ==
  /\ main = "ping" /\ pings = 0
  /\ signalled = FALSE /\ cancelled = {} /\ stop = 0
  /\ at = [p \in Part |-> "off"]
  /\ worker = [w \in Worker |-> "off"]
  /\ batches = 0 /\ left = [p \in {"backfill", "rebatch"} |-> 0]
  /\ open = {} /\ age = [r \in Request |-> 0] /\ drained = 0
  /\ exited = "no"

------------------------------------------------------------------------------
(***************************************************************************)
(* main                                                                    *)
(***************************************************************************)

Signal ==
  /\ ~signalled
  /\ signalled' = TRUE
  /\ Cancel("main")
  /\ UNCHANGED <<startVars, stop, at, worker, queueVars, serverVars, exited>>

\* Postgres.Ping: a few attempts, then main returns.
Ping ==
  /\ main = "ping"
  /\ \/ main' = "connect" /\ UNCHANGED <<pings, at, worker, queueVars, exited>>
     \/ /\ pings' = pings + 1
        /\ IF pings' = PingAttempts \/ "main" \in cancelled
             THEN End("return") ELSE UNCHANGED <<at, worker, queueVars, exited>>
        /\ UNCHANGED main
  /\ UNCHANGED <<ctxVars, serverVars>>

\* The light client is set up under a context of its own, so that a signal is
\* not noticed before all parts have been started.
StartParts ==
  /\ main = "connect"
  /\ \/ End("return") /\ UNCHANGED main
     \/ /\ main' = "wait"
        /\ at' = [at EXCEPT !["waiter"] = "wait", !["server"] = "start",
                            !["notifier"] = "loop", !["manager"] = "head",
                            !["sender"] = "init"]
        /\ UNCHANGED <<worker, queueVars, exited>>
  /\ UNCHANGED <<pings, ctxVars, serverVars>>

\* errGroup.Wait returns, and main with it.
Exit ==
  /\ main = "wait"
  /\ \A p \in Supervised : at[p] = "done"
  /\ End("wait")
  /\ UNCHANGED <<startVars, ctxVars, serverVars>>

------------------------------------------------------------------------------
(***************************************************************************)
(* The HTTP server                                                         *)
(***************************************************************************)

\* waitForShutdown: the channel stop has room for one signal.
AnnounceStop ==
  /\ at["waiter"] = "wait"
  /\ "main" \in cancelled
  /\ stop < 1
  /\ stop' = stop + 1
  /\ Goto("waiter", "done")
  /\ UNCHANGED <<startVars, signalled, cancelled, worker, queueVars, serverVars, exited>>

ServerStart ==
  /\ at["server"] = "start"
  /\ at' = [at EXCEPT !["server"] = "serve", !["listener"] = "bind"]
  /\ UNCHANGED <<startVars, ctxVars, worker, queueVars, serverVars, exited>>

\* Server.run: a listener that cannot be created is closed all the same, which
\* panics. A server that is shutting down does not serve.
Listen ==
  /\ at["listener"] = "bind"
  /\ \/ /\ Goto("listener", IF at["server"] = "serve" THEN "accept" ELSE "closed")
        /\ UNCHANGED <<worker, queueVars, exited>>
     \/ End("panic")
  /\ UNCHANGED <<startVars, ctxVars, serverVars>>

\* An error of Serve is only logged.
ServeFails ==
  /\ at["listener"] = "accept"
  /\ Goto("listener", "closed")
  /\ UNCHANGED <<startVars, ctxVars, worker, queueVars, serverVars, exited>>

Accept(r) ==
  /\ at["listener"] = "accept"
  /\ r \notin open
  /\ open' = open \cup {r}
  /\ age' = [age EXCEPT ![r] = 0]
  /\ UNCHANGED <<startVars, ctxVars, at, worker, queueVars, drained, exited>>

\* The request is over for the server.
Close(r) ==
  /\ open' = open \ {r}
  /\ age' = [age EXCEPT ![r] = 0]
  /\ UNCHANGED <<startVars, ctxVars, at, worker, queueVars, drained, exited>>

\* The handler answers in time.
Answer(r) == r \in open /\ age[r] < WriteTimeout /\ Close(r)

\* TimeoutHandler answers for it while the handler goes on, but the write
\* deadline of the connection, as long and started earlier, has passed too: the
\* connection is closed and the client gets no answer.
CutOff(r) == r \in open /\ age[r] = WriteTimeout /\ Close(r)

\* httpServer.Shutdown begins.
Drain ==
  /\ at["server"] = "serve"
  /\ stop > 0
  /\ stop' = stop - 1
  /\ drained' = 0
  /\ at' = [at EXCEPT !["server"] = "drain",
                      !["listener"] = IF @ = "accept" THEN "closed" ELSE @]
  /\ UNCHANGED <<startVars, signalled, cancelled, worker, queueVars, open, age, exited>>

\* It returns when no request is open or its time is over.
ServerDone ==
  /\ at["server"] = "drain"
  /\ open = {} \/ drained = ShutdownTimeout
  /\ Goto("server", "done")
  /\ UNCHANGED <<startVars, ctxVars, worker, queueVars, serverVars, exited>>

Draining == at["server"] = "drain"

Older == [r \in Request |-> IF r \in open THEN age[r] + 1 ELSE age[r]]

\* Faulty form: handlers without TimeoutHandler.
TickUntimed ==
  /\ open # {} \/ Draining
  /\ Draining => drained < ShutdownTimeout
  /\ age' = [r \in Request |-> IF age[r] < WriteTimeout THEN Older[r] ELSE age[r]]
  /\ drained' = IF Draining THEN drained + 1 ELSE drained
  /\ UNCHANGED <<startVars, ctxVars, at, worker, queueVars, open, exited>>

\* Time passes while something is timed, and no further than a timeout.
Tick ==
  /\ open # {} \/ Draining
  /\ \A r \in open : age[r] < WriteTimeout
  /\ Draining => drained < ShutdownTimeout
  /\ age' = Older
  /\ drained' = IF Draining THEN drained + 1 ELSE drained
  /\ UNCHANGED <<startVars, ctxVars, at, worker, queueVars, open, exited>>

------------------------------------------------------------------------------
(***************************************************************************)
(* The notifier, the queue manager and the batcher                         *)
(***************************************************************************)

\* The notifier notices its context between two rounds.
NotifierStop ==
  /\ at["notifier"] = "loop"
  /\ "main" \in cancelled
  /\ Goto("notifier", "done")
  /\ UNCHANGED <<startVars, ctxVars, worker, queueVars, serverVars, exited>>

\* The head of reconnectLoop looks at its context; connect starts the
\* batcher's worker. After a failed attempt the loop starts over.
ManagerConnect ==
  /\ at["manager"] = "head"
  /\ "main" \notin cancelled
  /\ at' = [at EXCEPT !["manager"] = "up", !["batcher"] = "on"]
  /\ UNCHANGED <<startVars, ctxVars, worker, queueVars, serverVars, exited>>

\* The connection closes; after a while the loop starts over.
ManagerConnLost ==
  /\ at["manager"] = "up"
  /\ Goto("manager", "head")
  /\ UNCHANGED <<startVars, ctxVars, worker, queueVars, serverVars, exited>>

\* reconnectLoop returns the error of its context.
ManagerStop ==
  /\ at["manager"] \in {"head", "up"}
  /\ "main" \in cancelled
  /\ Goto("manager", "done")
  /\ Cancel("main")
  /\ UNCHANGED <<startVars, signalled, stop, worker, queueVars, serverVars, exited>>

HasRoom == batches < ParallelBatches

\* createBatch, in any of the batcher's workers. It has no context, and a
\* select may choose it after the worker's own is done.
BatcherPush ==
  /\ at["batcher"] = "on"
  /\ HasRoom
  /\ batches' = batches + 1
  /\ UNCHANGED <<startVars, ctxVars, at, worker, left, serverVars, exited>>

------------------------------------------------------------------------------
(***************************************************************************)
(* The sender                                                              *)
(***************************************************************************)

\* A supervised goroutine returns an error: its group's context is cancelled.
Fails(p, group) == Goto(p, "done") /\ Cancel(group)

\* initWallet, then Run starts the goroutines of the sender.
SenderInit ==
  /\ at["sender"] = "init"
  /\ \/ /\ at' = [at EXCEPT !["sender"] = "wait", !["scanner"] = "start",
                            !["rebatch"] = "select", !["backfill"] = "read"]
        /\ worker' = [w \in Worker |-> "select"]
        /\ UNCHANGED cancelled
     \/ Fails("sender", "main") /\ UNCHANGED worker
  /\ UNCHANGED <<startVars, signalled, stop, queueVars, serverVars, exited>>

\* g.Wait of Run returns, always with the error of the scanner.
SenderDone ==
  /\ at["sender"] = "wait"
  /\ at["scanner"] = "done" /\ at["rebatch"] = "done"
  /\ \A w \in Worker : worker[w] = "done"
  /\ Fails("sender", "main")
  /\ UNCHANGED <<startVars, signalled, stop, worker, queueVars, serverVars, exited>>

\* GetLastWalletLt fails, or the subscriber and the processor are started.
ScannerStart ==
  /\ at["scanner"] = "start"
  /\ \/ /\ at' = [at EXCEPT !["scanner"] = "wait", !["subscriber"] = "run",
                            !["processor"] = "wait"]
        /\ UNCHANGED cancelled
     \/ Fails("scanner", "sender")
  /\ UNCHANGED <<startVars, signalled, stop, worker, queueVars, serverVars, exited>>

\* The subscription ends and closes its channel, with its context or before.
SubscriberExits ==
  /\ at["subscriber"] = "run"
  /\ Fails("subscriber", "scanner")
  /\ UNCHANGED <<startVars, signalled, stop, worker, queueVars, serverVars, exited>>

\* A transaction is handed over, and written. An error of the database, a
\* cancelled context among them, ends the process at once.
Process ==
  /\ \/ /\ at["processor"] = "wait" /\ at["subscriber"] = "run"
        /\ Goto("processor", "write")
        /\ UNCHANGED <<worker, queueVars, exited>>
     \/ /\ at["processor"] = "write"
        /\ Goto("processor", "wait")
        /\ UNCHANGED <<worker, queueVars, exited>>
     \/ at["processor"] = "write" /\ End("fatal")
  /\ UNCHANGED <<startVars, ctxVars, serverVars>>

\* The channel of transactions is closed.
ProcessorExits ==
  /\ at["processor"] = "wait" /\ at["subscriber"] = "done"
  /\ Fails("processor", "scanner")
  /\ UNCHANGED <<startVars, signalled, stop, worker, queueVars, serverVars, exited>>

\* Faulty form: the scanner's errors get lost in Start.
ScannerDoneQuietly ==
  /\ at["scanner"] = "wait"
  /\ at["subscriber"] = "done" /\ at["processor"] = "done"
  /\ Goto("scanner", "done")
  /\ UNCHANGED <<startVars, ctxVars, worker, queueVars, serverVars, exited>>

\* g.Wait of Start returns the first error.
ScannerDone ==
  /\ at["scanner"] = "wait"
  /\ at["subscriber"] = "done" /\ at["processor"] = "done"
  /\ Fails("scanner", "sender")
  /\ UNCHANGED <<startVars, signalled, stop, worker, queueVars, serverVars, exited>>

\* What follows the query of backfill or rebatch, or the push of a batch.
List(p, n, whenEmpty) ==
  /\ left' = [left EXCEPT ![p] = n]
  /\ Goto(p, IF n = 0 THEN whenEmpty ELSE "push")

\* The timer of rebatchExpired: an error starts over, too many end the loop.
RebatchPass ==
  /\ at["rebatch"] = "select"
  /\ \/ \E n \in 0 .. MaxList : List("rebatch", n, "select") /\ UNCHANGED cancelled
     \/ Fails("rebatch", "sender") /\ UNCHANGED left
  /\ UNCHANGED <<startVars, signalled, stop, worker, batches, serverVars, exited>>

\* Faulty form: the push does not wait for room.
RebatchPushUnbounded ==
  /\ at["rebatch"] = "push"
  /\ batches' = batches + 1
  /\ List("rebatch", left["rebatch"] - 1, "select")
  /\ UNCHANGED <<startVars, ctxVars, worker, serverVars, exited>>

\* The push looks at no context.
RebatchPush ==
  /\ at["rebatch"] = "push"
  /\ HasRoom
  /\ batches' = batches + 1
  /\ List("rebatch", left["rebatch"] - 1, "select")
  /\ UNCHANGED <<startVars, ctxVars, worker, serverVars, exited>>

RebatchStop ==
  /\ at["rebatch"] = "select"
  /\ "sender" \in cancelled
  /\ Goto("rebatch", "done")
  /\ UNCHANGED <<startVars, ctxVars, worker, queueVars, serverVars, exited>>

BackfillRead ==
  /\ at["backfill"] = "read"
  /\ \E n \in 0 .. MaxList : List("backfill", n, "done")
  /\ UNCHANGED <<startVars, ctxVars, worker, batches, serverVars, exited>>

BackfillPush ==
  /\ at["backfill"] = "push"
  /\ HasRoom
  /\ batches' = batches + 1
  /\ List("backfill", left["backfill"] - 1, "done")
  /\ UNCHANGED <<startVars, ctxVars, worker, serverVars, exited>>

WorkerGoto(w, s) == worker' = [worker EXCEPT ![w] = s]

\* A worker takes a batch, also after its context is done: select is random.
Receive(w) ==
  /\ worker[w] = "select"
  /\ batches > 0
  /\ batches' = batches - 1
  /\ WorkerGoto(w, "busy")
  /\ UNCHANGED <<startVars, ctxVars, at, left, serverVars, exited>>

\* It is done with the batch, or has dropped it after an error.
Finish(w) ==
  /\ worker[w] = "busy"
  /\ WorkerGoto(w, "select")
  /\ UNCHANGED <<startVars, ctxVars, at, queueVars, serverVars, exited>>

WorkerStop(w) ==
  /\ worker[w] = "select"
  /\ "sender" \in cancelled
  /\ WorkerGoto(w, "done")
  /\ UNCHANGED <<startVars, ctxVars, at, queueVars, serverVars, exited>>

------------------------------------------------------------------------------

\* What a goroutine does once in its life.
Once ==
  \/ Ping \/ StartParts \/ Exit
  \/ AnnounceStop \/ ServerStart \/ Listen \/ Drain \/ ServerDone
  \/ NotifierStop \/ SenderInit \/ SenderDone
  \/ ScannerStart \/ ScannerDone \/ ProcessorExits
  \/ "scanner" \in cancelled /\ SubscriberExits

Clients == Tick \/ \E r \in Request : Answer(r) \/ CutOff(r)
Manager == ManagerConnect \/ ManagerConnLost \/ ManagerStop
Rebatch == RebatchPass \/ RebatchPush \/ RebatchStop
Work(w) == Receive(w) \/ Finish(w) \/ WorkerStop(w)

Next ==
  /\ exited = "no"
  /\ \/ Once \/ Signal \/ ServeFails \/ SubscriberExits
     \/ Clients \/ \E r \in Request : Accept(r)
     \/ Manager \/ BatcherPush \/ Process
     \/ Rebatch \/ BackfillRead \/ BackfillPush
     \/ \E w \in Worker : Work(w)

Spec == Init /\ [][Next]_vars

\* A step of the process, which owes none once it has ended.
Owed(A) == exited = "no" /\ A

\* Goroutines run and time passes. A select among ready cases is random, so a
\* loop that comes back to its select notices its context in the end. Nobody
\* owes a signal, an error, a lost connection, a transaction, a request or a batch.
Fairness ==
  /\ WF_vars(Owed(Once)) /\ WF_vars(Owed(Clients))
  /\ WF_vars(Owed(ManagerConnect \/ ManagerStop))
  /\ WF_vars(Owed(at["processor"] = "write" /\ Process))
  /\ WF_vars(Owed(Rebatch)) /\ SF_vars(Owed(RebatchStop))
  /\ \A w \in Worker : WF_vars(Owed(Work(w))) /\ SF_vars(Owed(WorkerStop(w)))

LiveSpec == Spec /\ Fairness

------------------------------------------------------------------------------

\* Type invariant. The channel never holds more than its capacity, and no
\* request is open for longer than WriteTimeout.
TypeOK ==
  /\ main \in {"ping", "connect", "wait"}
  /\ pings \in 0 .. PingAttempts
  /\ signalled \in BOOLEAN
  /\ cancelled \subseteq {"main", "sender", "scanner"}
  /\ stop \in 0 .. 1
  /\ at \in [Part -> Place]
  /\ worker \in [Worker -> {"off", "select", "busy", "done"}]
  /\ batches \in 0 .. ParallelBatches
  /\ left \in [{"backfill", "rebatch"} -> 0 .. MaxList]
  /\ open \subseteq Request
  /\ age \in [Request -> 0 .. WriteTimeout]
  /\ drained \in 0 .. ShutdownTimeout
  /\ exited \in {"no", "return", "panic", "fatal", "wait"}

\* When main returns from Wait no request is open: the server is waited for, and
\* waits longer than any request may last. So the end of the process cuts none
\* off; a client goes without an answer only by a handler that takes all of
\* WriteTimeout, or by an end of another kind.
Drained == exited = "wait" => open = {}

\* rebatchExpired waits for room in a channel that nobody reads any more.
Stuck ==
  /\ at["rebatch"] = "push" /\ ~HasRoom
  /\ \A w \in Worker : worker[w] = "done"

\* Nothing frees it again: no goroutine that is left, signal, reconnection or
\* request lets the process recover before it ends some other way. What
\* EndsTogether exempts is therefore a hang and never a state passed through.
StuckForGood == [][Stuck => Stuck' \/ exited' # "no"]_vars

\* A signal has arrived, or a goroutine that somebody waits for has returned.
Ending ==
  \/ signalled
  \/ \E p \in Part \ {"listener", "batcher", "backfill"} : at[p] = "done"
  \/ \E w \in Worker : worker[w] = "done"

\* No part of the process stays down while the rest goes on: once it has to
\* end it does, unless rebatchExpired is stuck.
EndsTogether == Ending ~> (exited # "no" \/ Stuck)

\* Documented in main: the signals cause a graceful shutdown. The process may
\* hang instead.
GracefulShutdown == signalled ~> exited # "no"

==============================================================================

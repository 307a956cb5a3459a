-------------------------- MODULE LifecycleProofs --------------------------
(***************************************************************************)
(* Proofs about module Lifecycle, for any workers, requests, capacity,     *)
(* timeouts and numbers of attempts.                                       *)
(***************************************************************************)
EXTENDS Lifecycle, TLAPS

\* A loop that pushes has something left, and main pings only as long as it may.
CountInv ==
  /\ \A p \in {"backfill", "rebatch"} : at[p] = "push" => left[p] > 0
  /\ main = "ping" /\ exited = "no" => pings < PingAttempts

TypeInv == TypeOK /\ CountInv

LEMMA Parts ==
  /\ Supervised \subseteq Part
  /\ {"listener", "batcher", "scanner", "subscriber", "processor", "rebatch", "backfill"} \subseteq Part
BY DEF Part

LEMMA GotoAt ==
  ASSUME TypeOK, NEW p \in Part, NEW s \in Place, Goto(p, s)
  PROVE  /\ at' \in [Part -> Place]
         /\ at'[p] = s
         /\ \A q \in Part : q # p => at'[q] = at[q]
BY DEF Goto, TypeOK

LEMMA CancelType ==
  ASSUME TypeOK, NEW c \in {"main", "sender", "scanner"}, Cancel(c)
  PROVE  cancelled' \subseteq {"main", "sender", "scanner"}
<1>1. Below["main"] \subseteq {"main", "sender", "scanner"}
  BY DEF Below
<1>2. Below["sender"] \subseteq {"main", "sender", "scanner"}
  BY DEF Below
<1>3. Below["scanner"] \subseteq {"main", "sender", "scanner"}
  BY DEF Below
<1> QED BY <1>1, <1>2, <1>3 DEF Cancel, TypeOK

\* Once the process has ended no goroutine is anywhere and nothing is queued.
LEMMA EndsType ==
  ASSUME TypeOK, NEW how \in {"return", "panic", "fatal", "wait"}, End(how)
  PROVE  /\ at' \in [Part -> Place] /\ worker' \in [Worker -> {"off", "select", "busy", "done"}]
         /\ batches' \in 0 .. ParallelBatches
         /\ left' \in [{"backfill", "rebatch"} -> 0 .. MaxList]
         /\ exited' = how
         /\ \A p \in Part : at'[p] = "off"
BY LifecycleAssumption DEF End, Place

LEMMA ListType ==
  ASSUME TypeOK, NEW p \in {"backfill", "rebatch"}, NEW n \in 0 .. MaxList,
         NEW s \in Place \ {"push"}, List(p, n, s)
  PROVE  /\ at' \in [Part -> Place]
         /\ \A q \in Part : q # p => at'[q] = at[q]
         /\ left' \in [{"backfill", "rebatch"} -> 0 .. MaxList]
         /\ \A q \in {"backfill", "rebatch"} : q # p => left'[q] = left[q]
         /\ at'[p] = "push" => left'[p] > 0
<1>1. p \in Part /\ "push" \in Place
  BY Parts DEF Place
<1>2. Goto(p, IF n = 0 THEN s ELSE "push")
  BY DEF List
<1>3. left' = [left EXCEPT ![p] = n] /\ left'[p] = n
  BY DEF List, TypeOK
<1>4. at'[p] = (IF n = 0 THEN s ELSE "push") /\ at' \in [Part -> Place]
      /\ \A q \in Part : q # p => at'[q] = at[q]
  BY <1>1, <1>2, GotoAt
<1>5. at'[p] = "push" => n > 0
  BY <1>4, LifecycleAssumption
<1> QED BY <1>3, <1>4, <1>5 DEF TypeOK

\* What is left to prove of a step that moves one goroutine, or two.
LEMMA Moves ==
  ASSUME TypeInv,
         UNCHANGED <<startVars, queueVars, exited>>,
         at' \in [Part -> Place],
         \A p \in {"backfill", "rebatch"} : at'[p] = "push" => at[p] = "push",
         worker' \in [Worker -> {"off", "select", "busy", "done"}],
         signalled' \in BOOLEAN, stop' \in 0 .. 1,
         cancelled' \subseteq {"main", "sender", "scanner"},
         open' \subseteq Request, age' \in [Request -> 0 .. WriteTimeout],
         drained' \in 0 .. ShutdownTimeout
  PROVE  TypeInv'
BY DEF TypeInv, TypeOK, CountInv, startVars, queueVars

LEMMA Ends ==
  ASSUME TypeInv, NEW how \in {"return", "panic", "fatal", "wait"}, End(how),
         main' \in {"ping", "connect", "wait"}, pings' \in 0 .. PingAttempts,
         UNCHANGED <<ctxVars, serverVars>>
  PROVE  TypeInv'
<1>1. TypeOK'
  BY EndsType DEF TypeInv, TypeOK, ctxVars, serverVars
<1>2. CountInv'
  <2>1. {"backfill", "rebatch"} \subseteq Part
    BY Parts
  <2> QED BY <2>1, EndsType DEF TypeInv, CountInv
<1> QED BY <1>1, <1>2 DEF TypeInv

LEMMA MainStep ==
  ASSUME TypeInv, exited = "no", Signal \/ Ping \/ StartParts \/ Exit
  PROVE  TypeInv'
<1> USE Parts
<1>1. CASE Signal
  BY <1>1, Moves, CancelType DEF Signal, TypeInv, TypeOK, queueVars, serverVars
<1>2. CASE Ping
  <2>1. CASE main' = "connect"
    BY <1>2, <2>1 DEF Ping, TypeInv, TypeOK, CountInv, ctxVars, serverVars, queueVars
  <2>2. CASE main' # "connect"
    <3>1. /\ main = "ping" /\ main' = main /\ pings' = pings + 1
          /\ UNCHANGED <<ctxVars, serverVars>>
          /\ IF pings' = PingAttempts \/ "main" \in cancelled
               THEN End("return") ELSE UNCHANGED <<at, worker, queueVars, exited>>
      BY <1>2, <2>2 DEF Ping
    <3>2. pings' \in 0 .. PingAttempts
      BY <3>1, LifecycleAssumption DEF TypeInv, TypeOK, CountInv
    <3>3. CASE End("return")
      BY <3>1, <3>2, <3>3, Ends DEF TypeInv, TypeOK
    <3>4. CASE ~End("return")
      BY <3>1, <3>2, <3>4, LifecycleAssumption
      DEF TypeInv, TypeOK, CountInv, ctxVars, serverVars, queueVars
    <3> QED BY <3>3, <3>4
  <2> QED BY <2>1, <2>2
<1>3. CASE StartParts
  <2>1. CASE End("return") /\ UNCHANGED main
    BY <1>3, <2>1, Ends DEF StartParts, TypeInv, TypeOK
  <2>2. CASE ~(End("return") /\ UNCHANGED main)
    <3>1. /\ main' = "wait" /\ UNCHANGED <<pings, ctxVars, serverVars, worker, queueVars, exited>>
          /\ at' = [at EXCEPT !["waiter"] = "wait", !["server"] = "start",
                              !["notifier"] = "loop", !["manager"] = "head",
                              !["sender"] = "init"]
      BY <1>3, <2>2 DEF StartParts
    <3>2. at' \in [Part -> Place]
      BY <3>1 DEF TypeInv, TypeOK, Place
    <3>3. \A p \in {"backfill", "rebatch"} : at'[p] = at[p]
      BY <3>1 DEF TypeInv, TypeOK
    <3> QED BY <3>1, <3>2, <3>3
            DEF TypeInv, TypeOK, CountInv, ctxVars, serverVars, queueVars
  <2> QED BY <2>1, <2>2
<1>4. CASE Exit
  BY <1>4, Ends DEF Exit, TypeInv, TypeOK, startVars
<1> QED BY <1>1, <1>2, <1>3, <1>4

LEMMA ServerStep ==
  ASSUME TypeInv, exited = "no",
         \/ AnnounceStop \/ ServerStart \/ Listen \/ ServeFails \/ Drain \/ ServerDone \/ Tick
         \/ \E r \in Request : Accept(r) \/ Answer(r) \/ CutOff(r)
  PROVE  TypeInv'
<1> USE Parts
<1>p. {"wait", "done", "serve", "bind", "accept", "closed", "drain"} \subseteq Place
  BY DEF Place
<1>s. {"waiter", "server"} \subseteq Part
  BY DEF Supervised
<1>t. TypeOK
  BY DEF TypeInv
<1>1. CASE AnnounceStop
  BY <1>1, <1>p, <1>s, <1>t, Moves, GotoAt DEF AnnounceStop, TypeOK, queueVars, serverVars
<1>2. CASE ServerStart
  BY <1>2, <1>p, <1>s, <1>t, Moves DEF ServerStart, TypeOK, ctxVars, queueVars, serverVars
<1>3. CASE Listen
  <2>1. CASE End("panic")
    BY <1>3, <2>1, Ends DEF Listen, TypeInv, TypeOK, startVars
  <2>2. CASE ~End("panic")
    <3>1. Goto("listener", IF at["server"] = "serve" THEN "accept" ELSE "closed")
          /\ UNCHANGED <<startVars, ctxVars, worker, queueVars, serverVars, exited>>
      BY <1>3, <2>2 DEF Listen
    <3>2. at' \in [Part -> Place] /\ \A q \in Part : q # "listener" => at'[q] = at[q]
      BY <1>p, <1>t, <3>1, GotoAt
    <3> QED BY <3>1, <3>2, <1>t, Moves DEF TypeOK, ctxVars, serverVars
  <2> QED BY <2>1, <2>2
<1>4. CASE ServeFails
  BY <1>4, <1>p, <1>t, Moves, GotoAt DEF ServeFails, TypeOK, ctxVars, queueVars, serverVars
<1>5. CASE Drain
  <2>1. at' \in [Part -> Place] /\ \A q \in {"backfill", "rebatch"} : at'[q] = at[q]
    BY <1>5, <1>p, <1>s, <1>t DEF Drain, TypeOK
  <2> QED BY <1>5, <1>t, <2>1, Moves, LifecycleAssumption DEF Drain, TypeOK, queueVars
<1>6. CASE ServerDone
  BY <1>6, <1>p, <1>s, <1>t, Moves, GotoAt DEF ServerDone, TypeOK, ctxVars, queueVars, serverVars
<1>7. CASE Tick
  <2>1. age' \in [Request -> 0 .. WriteTimeout]
    BY <1>7, <1>t, LifecycleAssumption DEF Tick, Older, TypeOK
  <2>2. drained' \in 0 .. ShutdownTimeout
    BY <1>7, <1>t, LifecycleAssumption DEF Tick, TypeOK
  <2> QED BY <1>7, <1>t, <2>1, <2>2, Moves DEF Tick, TypeOK, ctxVars, queueVars
<1>8. ASSUME NEW r \in Request, Accept(r) \/ Answer(r) \/ CutOff(r) PROVE TypeInv'
  <2>1. open' \subseteq Request /\ age' \in [Request -> 0 .. WriteTimeout]
    BY <1>8, <1>t, LifecycleAssumption DEF Accept, Answer, CutOff, Close, TypeOK
  <2>2. UNCHANGED <<startVars, ctxVars, at, worker, queueVars, drained, exited>>
    BY <1>8 DEF Accept, Answer, CutOff, Close
  <2> QED BY <1>t, <2>1, <2>2, Moves DEF TypeOK, ctxVars, queueVars
<1> QED BY <1>1, <1>2, <1>3, <1>4, <1>5, <1>6, <1>7, <1>8

LEMMA QueueStep ==
  ASSUME TypeInv, exited = "no", NotifierStop \/ Manager \/ BatcherPush
  PROVE  TypeInv'
<1> USE Parts
<1>p. {"done", "up", "on", "head"} \subseteq Place /\ {"notifier", "manager"} \subseteq Part
  BY DEF Place, Supervised
<1>t. TypeOK
  BY DEF TypeInv
<1>1. CASE NotifierStop
  BY <1>1, <1>p, <1>t, Moves, GotoAt DEF NotifierStop, TypeOK, ctxVars, queueVars, serverVars
<1>2. CASE ManagerConnect
  BY <1>2, <1>p, <1>t, Moves DEF ManagerConnect, TypeOK, ctxVars, queueVars, serverVars
<1>3. CASE ManagerConnLost
  BY <1>3, <1>p, <1>t, Moves, GotoAt DEF ManagerConnLost, TypeOK, ctxVars, queueVars, serverVars
<1>4. CASE ManagerStop
  BY <1>4, <1>p, <1>t, Moves, GotoAt, CancelType DEF ManagerStop, TypeOK, queueVars, serverVars
<1>5. CASE BatcherPush
  BY <1>5, LifecycleAssumption
  DEF BatcherPush, HasRoom, TypeInv, TypeOK, CountInv, startVars, ctxVars, serverVars
<1> QED BY <1>1, <1>2, <1>3, <1>4, <1>5 DEF Manager

LEMMA PushType ==
  ASSUME TypeInv, NEW p \in {"backfill", "rebatch"}, at[p] = "push",
         NEW s \in Place \ {"push"}, HasRoom, batches' = batches + 1,
         List(p, left[p] - 1, s),
         UNCHANGED <<startVars, ctxVars, worker, serverVars, exited>>
  PROVE  TypeInv'
<1> USE Parts
<1>1. left[p] - 1 \in 0 .. MaxList
  BY LifecycleAssumption DEF TypeInv, TypeOK, CountInv
<1>2. TypeOK
  BY DEF TypeInv
<1>3. /\ at' \in [Part -> Place]
      /\ \A q \in Part : q # p => at'[q] = at[q]
      /\ left' \in [{"backfill", "rebatch"} -> 0 .. MaxList]
      /\ \A q \in {"backfill", "rebatch"} : q # p => left'[q] = left[q]
      /\ at'[p] = "push" => left'[p] > 0
  BY <1>1, <1>2, ListType
<1>4. batches' \in 0 .. ParallelBatches
  BY <1>2, LifecycleAssumption DEF HasRoom, TypeOK
<1>5. TypeOK'
  BY <1>2, <1>3, <1>4 DEF TypeOK, startVars, ctxVars, serverVars
<1>6. CountInv'
  BY <1>3 DEF TypeInv, CountInv, startVars
<1> QED BY <1>5, <1>6 DEF TypeInv

\* The query of a loop, with anything it may return.
LEMMA ReadType ==
  ASSUME TypeInv, NEW p \in {"backfill", "rebatch"}, NEW s \in Place \ {"push"},
         NEW n \in 0 .. MaxList, List(p, n, s),
         UNCHANGED <<startVars, ctxVars, worker, batches, serverVars, exited>>
  PROVE  TypeInv'
<1> USE Parts
<1>1. TypeOK
  BY DEF TypeInv
<1>2. /\ at' \in [Part -> Place]
      /\ \A q \in Part : q # p => at'[q] = at[q]
      /\ left' \in [{"backfill", "rebatch"} -> 0 .. MaxList]
      /\ \A q \in {"backfill", "rebatch"} : q # p => left'[q] = left[q]
      /\ at'[p] = "push" => left'[p] > 0
  BY <1>1, ListType
<1>3. TypeOK'
  BY <1>1, <1>2 DEF TypeOK, startVars, ctxVars, serverVars
<1>4. CountInv'
  BY <1>2 DEF TypeInv, CountInv, startVars
<1> QED BY <1>3, <1>4 DEF TypeInv

LEMMA LoopStep ==
  ASSUME TypeInv, exited = "no", Rebatch \/ BackfillRead \/ BackfillPush
  PROVE  TypeInv'
<1> USE Parts
<1>p. {"done", "select"} \subseteq Place \ {"push"}
  BY DEF Place
<1>t. TypeOK
  BY DEF TypeInv
<1>1. CASE RebatchPass
  <2>1. CASE \E n \in 0 .. MaxList : List("rebatch", n, "select") /\ UNCHANGED cancelled
    BY <1>1, <1>p, <2>1, ReadType DEF RebatchPass, ctxVars
  <2>2. CASE Fails("rebatch", "sender") /\ UNCHANGED left
    <3>1. Goto("rebatch", "done") /\ Cancel("sender")
      BY <2>2 DEF Fails
    <3> QED BY <1>1, <1>p, <1>t, <2>2, <3>1, Moves, GotoAt, CancelType
            DEF RebatchPass, TypeOK, queueVars, serverVars
  <2> QED BY <1>1, <2>1, <2>2 DEF RebatchPass
<1>2. CASE RebatchPush
  BY <1>2, <1>p, PushType DEF RebatchPush
<1>3. CASE RebatchStop
  BY <1>3, <1>p, <1>t, Moves, GotoAt DEF RebatchStop, TypeOK, ctxVars, queueVars, serverVars
<1>4. CASE BackfillRead
  BY <1>4, <1>p, ReadType DEF BackfillRead
<1>5. CASE BackfillPush
  BY <1>5, <1>p, PushType DEF BackfillPush
<1> QED BY <1>1, <1>2, <1>3, <1>4, <1>5 DEF Rebatch

LEMMA WorkStep ==
  ASSUME TypeInv, exited = "no", NEW w \in Worker, Work(w)
  PROVE  TypeInv'
<1>1. worker' \in [Worker -> {"off", "select", "busy", "done"}]
  BY DEF Work, Receive, Finish, WorkerStop, WorkerGoto, TypeInv, TypeOK
<1>2. batches' \in 0 .. ParallelBatches
  BY LifecycleAssumption DEF Work, Receive, Finish, WorkerStop, TypeInv, TypeOK, queueVars
<1>3. UNCHANGED <<startVars, ctxVars, at, left, serverVars, exited>>
  BY DEF Work, Receive, Finish, WorkerStop, queueVars
<1> QED BY <1>1, <1>2, <1>3 DEF TypeInv, TypeOK, CountInv, startVars, ctxVars, serverVars

LEMMA SenderStep ==
  ASSUME TypeInv, exited = "no",
         \/ SenderInit \/ SenderDone \/ ScannerStart \/ ScannerDone
         \/ SubscriberExits \/ ProcessorExits \/ Process
  PROVE  TypeInv'
<1> USE Parts
<1>p. {"done", "wait", "start", "select", "read", "run", "write"} \subseteq Place
      /\ "sender" \in Part
  BY DEF Place, Supervised
<1>t. TypeOK
  BY DEF TypeInv
<1>f. ASSUME NEW p \in Part \ {"backfill", "rebatch"}, NEW c \in {"main", "sender", "scanner"},
             Fails(p, c),
             UNCHANGED <<startVars, signalled, stop, worker, queueVars, serverVars, exited>>
      PROVE  TypeInv'
  <2>1. Goto(p, "done") /\ Cancel(c)
    BY <1>f DEF Fails
  <2>2. at' \in [Part -> Place] /\ at'[p] = "done" /\ \A q \in Part : q # p => at'[q] = at[q]
    BY <1>p, <1>t, <2>1, GotoAt
  <2>3. cancelled' \subseteq {"main", "sender", "scanner"}
    BY <1>t, <2>1, CancelType
  <2> QED BY <1>f, <1>t, <2>2, <2>3, Moves DEF TypeOK, serverVars
<1>1. CASE SenderInit
  <2>1. CASE Fails("sender", "main") /\ UNCHANGED worker
    BY <1>1, <1>p, <1>f, <2>1 DEF SenderInit
  <2>2. CASE ~(Fails("sender", "main") /\ UNCHANGED worker)
    <3>1. /\ at' = [at EXCEPT !["sender"] = "wait", !["scanner"] = "start",
                              !["rebatch"] = "select", !["backfill"] = "read"]
          /\ worker' = [w \in Worker |-> "select"]
          /\ UNCHANGED <<cancelled, startVars, signalled, stop, queueVars, serverVars, exited>>
      BY <1>1, <2>2 DEF SenderInit
    <3>2. at' \in [Part -> Place]
          /\ \A p \in {"backfill", "rebatch"} : at'[p] = "push" => at[p] = "push"
      BY <1>p, <1>t, <3>1 DEF TypeOK
    <3> QED BY <1>t, <3>1, <3>2, Moves DEF TypeOK, serverVars
  <2> QED BY <2>1, <2>2
<1>2. CASE SenderDone
  BY <1>2, <1>p, <1>f DEF SenderDone
<1>3. CASE ScannerStart
  <2>1. CASE Fails("scanner", "sender")
    BY <1>3, <1>p, <1>f, <2>1 DEF ScannerStart
  <2>2. CASE ~Fails("scanner", "sender")
    <3>1. /\ at' = [at EXCEPT !["scanner"] = "wait", !["subscriber"] = "run",
                              !["processor"] = "wait"]
          /\ UNCHANGED <<cancelled, startVars, signalled, stop, worker, queueVars, serverVars, exited>>
      BY <1>3, <2>2 DEF ScannerStart
    <3>2. at' \in [Part -> Place]
          /\ \A p \in {"backfill", "rebatch"} : at'[p] = "push" => at[p] = "push"
      BY <1>p, <1>t, <3>1 DEF TypeOK
    <3> QED BY <1>t, <3>1, <3>2, Moves DEF TypeOK, serverVars
  <2> QED BY <2>1, <2>2
<1>4. CASE ScannerDone
  BY <1>4, <1>p, <1>f DEF ScannerDone
<1>5. CASE SubscriberExits
  BY <1>5, <1>p, <1>f DEF SubscriberExits
<1>6. CASE ProcessorExits
  BY <1>6, <1>p, <1>f DEF ProcessorExits
<1>7. CASE Process
  <2>1. CASE End("fatal")
    BY <1>7, <2>1, Ends DEF Process, TypeInv, TypeOK, startVars
  <2>2. CASE ~End("fatal")
    <3>1. PICK s \in {"write", "wait"} :
            Goto("processor", s)
            /\ UNCHANGED <<startVars, ctxVars, worker, queueVars, serverVars, exited>>
      BY <1>7, <2>2 DEF Process
    <3>2. at' \in [Part -> Place] /\ \A q \in Part : q # "processor" => at'[q] = at[q]
      BY <1>p, <1>t, <3>1, GotoAt
    <3>3. /\ worker' \in [Worker -> {"off", "select", "busy", "done"}]
          /\ signalled' \in BOOLEAN /\ stop' \in 0 .. 1
          /\ cancelled' \subseteq {"main", "sender", "scanner"}
          /\ open' \subseteq Request /\ age' \in [Request -> 0 .. WriteTimeout]
          /\ drained' \in 0 .. ShutdownTimeout
      BY <1>t, <3>1 DEF TypeOK, ctxVars, serverVars
    <3> QED BY <3>1, <3>2, <3>3, Moves
  <2> QED BY <2>1, <2>2
<1> QED BY <1>1, <1>2, <1>3, <1>4, <1>5, <1>6, <1>7

LEMMA TypeStep == TypeInv /\ [Next]_vars => TypeInv'
<1> SUFFICES ASSUME TypeInv, [Next]_vars PROVE TypeInv'
  OBVIOUS
<1>1. CASE UNCHANGED vars
  BY <1>1 DEF vars, startVars, ctxVars, queueVars, serverVars, TypeInv, TypeOK, CountInv
<1>2. CASE Next
  <2>1. exited = "no"
    BY <1>2 DEF Next
  <2> QED BY <1>2, <2>1, MainStep, ServerStep, QueueStep, LoopStep, WorkStep, SenderStep
          DEF Next, Once, Clients
<1> QED BY <1>1, <1>2

LEMMA TypeInit == Init => TypeInv
<1> SUFFICES ASSUME Init PROVE TypeInv
  OBVIOUS
<1>1. \A p \in Part : at[p] = "off"
  BY DEF Init
<1>2. at \in [Part -> Place]
  BY DEF Init, Place
<1>3. TypeOK
  <2>1. left \in [{"backfill", "rebatch"} -> 0 .. MaxList]
    BY LifecycleAssumption DEF Init
  <2>2. worker \in [Worker -> {"off", "select", "busy", "done"}]
        /\ age \in [Request -> 0 .. WriteTimeout]
    BY LifecycleAssumption DEF Init
  <2>3. /\ pings \in 0 .. PingAttempts /\ stop \in 0 .. 1
        /\ batches \in 0 .. ParallelBatches /\ drained \in 0 .. ShutdownTimeout
    BY LifecycleAssumption DEF Init
  <2>4. /\ main = "ping" /\ exited = "no" /\ signalled \in BOOLEAN
        /\ cancelled = {} /\ open = {}
    BY DEF Init
  <2> QED BY <1>2, <2>1, <2>2, <2>3, <2>4 DEF TypeOK
<1>4. CountInv
  <2>1. \A p \in {"backfill", "rebatch"} : at[p] # "push"
    BY <1>1, Parts
  <2>2. pings < PingAttempts
    BY LifecycleAssumption DEF Init
  <2> QED BY <2>1, <2>2 DEF CountInv
<1> QED BY <1>3, <1>4 DEF TypeInv

\* The channel keeps its capacity, main its attempts, and no request is open
\* for longer than a handler may take.
THEOREM TypeCorrect == Spec => []TypeOK
<1>1. TypeInv => TypeOK
  BY DEF TypeInv
<1> QED BY <1>1, TypeInit, TypeStep, PTL DEF Spec

-----------------------------------------------------------------------------
(***************************************************************************)
(* Drained                                                                 *)
(***************************************************************************)

\* A draining server accepts nothing, so that every request that is open has
\* been open for as long as the server drains. It cannot give up on one: the
\* handler's timeout is over before the server's.
DrainInv ==
  /\ at["server"] \in {"drain", "done"} => at["listener"] # "accept"
  /\ at["server"] = "drain" => \A r \in open : drained <= age[r]
  /\ at["server"] = "done" => open = {}
  /\ Drained

LEMMA DrainStep == TypeOK /\ DrainInv /\ [Next]_vars => DrainInv'
<1> SUFFICES ASSUME TypeOK, DrainInv, [Next]_vars PROVE DrainInv'
  OBVIOUS
<1> USE Parts
<1>s. {"server", "listener", "waiter", "notifier", "manager", "sender"} \subseteq Part
  BY DEF Supervised
<1>p. {"done", "wait", "start", "serve", "drain", "bind", "accept", "closed", "select", "head",
       "up", "on", "run", "write", "read", "push"} \subseteq Place
  BY DEF Place
\* Steps of the other goroutines.
<1>a. ASSUME at'["server"] = at["server"], at'["listener"] = at["listener"],
             UNCHANGED <<serverVars, exited>>
      PROVE  DrainInv'
  BY <1>a DEF DrainInv, Drained, serverVars
<1>g. ASSUME NEW p \in Part \ {"server", "listener"}, NEW s \in Place, Goto(p, s),
             UNCHANGED <<serverVars, exited>>
      PROVE  DrainInv'
  BY <1>a, <1>g, <1>s, GotoAt
<1>e. ASSUME NEW how \in {"return", "panic", "fatal"}, End(how) PROVE DrainInv'
  <2>1. exited' = how /\ \A p \in Part : at'[p] = "off"
    BY <1>e, EndsType
  <2> QED BY <1>s, <2>1 DEF DrainInv, Drained
<1>1. CASE UNCHANGED vars
  BY <1>1, <1>a DEF vars
<1>2. CASE Ping
  <2>1. CASE End("return")
    BY <1>e, <2>1
  <2>2. CASE ~End("return")
    BY <1>2, <1>a, <2>2 DEF Ping
  <2> QED BY <2>1, <2>2
<1>3. CASE StartParts
  <2>1. CASE End("return")
    BY <1>e, <2>1
  <2>2. CASE ~End("return")
    <3>1. at'["server"] = "start" /\ UNCHANGED <<serverVars, exited>>
      BY <1>3, <1>s, <2>2 DEF StartParts, TypeOK
    <3> QED BY <3>1 DEF DrainInv, Drained, serverVars
  <2> QED BY <2>1, <2>2
<1>4. CASE Exit
  <2>1. at["server"] = "done" /\ UNCHANGED serverVars /\ End("wait")
    BY <1>4 DEF Exit, Supervised
  <2>2. open' = {}
    BY <2>1 DEF DrainInv, serverVars
  <2>3. \A p \in Part : at'[p] = "off"
    BY <2>1, EndsType
  <2> QED BY <1>s, <2>2, <2>3 DEF DrainInv, Drained
<1>5. CASE ServerStart
  <2>1. at'["server"] = "serve" /\ UNCHANGED <<serverVars, exited>>
    BY <1>5, <1>s DEF ServerStart, TypeOK
  <2> QED BY <2>1 DEF DrainInv, Drained, serverVars
<1>6. CASE Listen
  <2>1. CASE End("panic")
    BY <1>e, <2>1
  <2>2. CASE ~End("panic")
    <3>1. Goto("listener", IF at["server"] = "serve" THEN "accept" ELSE "closed")
          /\ UNCHANGED <<serverVars, exited>>
      BY <1>6, <2>2 DEF Listen
    <3>2. at'["server"] = at["server"]
          /\ at'["listener"] = (IF at["server"] = "serve" THEN "accept" ELSE "closed")
      BY <1>p, <1>s, <3>1, GotoAt
    <3> QED BY <3>1, <3>2 DEF DrainInv, Drained, serverVars
  <2> QED BY <2>1, <2>2
<1>7. CASE ServeFails
  <2>1. at'["server"] = at["server"] /\ at'["listener"] = "closed"
    BY <1>7, <1>p, <1>s, GotoAt DEF ServeFails
  <2> QED BY <1>7, <2>1 DEF ServeFails, DrainInv, Drained, serverVars
<1>8. ASSUME NEW r \in Request, exited = "no", Accept(r) PROVE DrainInv'
  BY <1>8 DEF Accept, DrainInv, Drained
<1>9. ASSUME NEW r \in Request, Answer(r) \/ CutOff(r) PROVE DrainInv'
  BY <1>9 DEF Answer, CutOff, Close, DrainInv, Drained, TypeOK
<1>10. CASE Drain
  <2>1. at'["server"] = "drain" /\ at'["listener"] # "accept"
        /\ drained' = 0 /\ UNCHANGED <<open, age, exited>>
    BY <1>10, <1>s DEF Drain, TypeOK
  <2>2. \A r \in open : 0 <= age[r]
    BY LifecycleAssumption DEF TypeOK
  <2> QED BY <2>1, <2>2 DEF DrainInv, Drained
<1>11. CASE ServerDone
  <2>1. at["server"] = "drain" /\ UNCHANGED <<serverVars, exited>>
        /\ at'["server"] = "done" /\ at'["listener"] = at["listener"]
    BY <1>11, <1>p, <1>s, GotoAt DEF ServerDone
  <2>2. ASSUME NEW r \in open PROVE FALSE
    <3>1. drained <= age[r] /\ age[r] \in 0 .. WriteTimeout
      BY <2>1 DEF DrainInv, TypeOK
    <3>2. drained = ShutdownTimeout
      BY <1>11 DEF ServerDone
    <3> QED BY <3>1, <3>2, LifecycleAssumption
  <2> QED BY <2>1, <2>2 DEF DrainInv, Drained, serverVars
<1>12. CASE Tick
  <2>1. ASSUME NEW r \in open, at["server"] = "drain" PROVE drained' <= age'[r]
    <3>1. drained' = drained + 1 /\ age'[r] = age[r] + 1
      BY <1>12, <2>1 DEF Tick, Draining, Older, TypeOK
    <3>2. drained <= age[r] /\ drained \in Nat /\ age[r] \in Nat
      BY <2>1, LifecycleAssumption DEF DrainInv, TypeOK
    <3> QED BY <3>1, <3>2
  <2> QED BY <1>12, <2>1 DEF Tick, DrainInv, Drained
<1>13. CASE Signal \/ BatcherPush \/ \E w \in Worker : Work(w)
  BY <1>13, <1>a DEF Signal, BatcherPush, Work, Receive, Finish, WorkerStop
<1>14. CASE AnnounceStop \/ NotifierStop \/ Manager
  <2>1. CASE ManagerConnect
    <3>1. at'["server"] = at["server"] /\ at'["listener"] = at["listener"]
      BY <1>s, <2>1 DEF ManagerConnect, TypeOK
    <3> QED BY <1>a, <2>1, <3>1 DEF ManagerConnect
  <2>2. CASE AnnounceStop \/ NotifierStop \/ ManagerConnLost \/ ManagerStop
    <3>1. PICK p \in {"waiter", "notifier", "manager"}, s \in {"done", "head"} : Goto(p, s)
      BY <2>2 DEF AnnounceStop, NotifierStop, ManagerConnLost, ManagerStop
    <3>2. UNCHANGED <<serverVars, exited>>
      BY <2>2 DEF AnnounceStop, NotifierStop, ManagerConnLost, ManagerStop
    <3> QED BY <1>g, <1>p, <1>s, <3>1, <3>2
  <2> QED BY <1>14, <2>1, <2>2 DEF Manager
<1>15. CASE \/ RebatchPass \/ RebatchPush \/ RebatchStop \/ BackfillRead \/ BackfillPush
            \/ SenderDone \/ ScannerDone \/ SubscriberExits \/ ProcessorExits
  <2>1. PICK p \in Part \ {"server", "listener"}, s \in Place : Goto(p, s)
    BY <1>15, <1>p, <1>s
    DEF RebatchPass, RebatchPush, RebatchStop, BackfillRead, BackfillPush, List,
        SenderDone, ScannerDone, SubscriberExits, ProcessorExits, Fails
  <2>2. UNCHANGED <<serverVars, exited>>
    BY <1>15 DEF RebatchPass, RebatchPush, RebatchStop, BackfillRead, BackfillPush,
                 SenderDone, ScannerDone, SubscriberExits, ProcessorExits
  <2> QED BY <1>g, <2>1, <2>2
<1>16. CASE SenderInit \/ ScannerStart
  <2>1. at'["server"] = at["server"] /\ at'["listener"] = at["listener"]
    BY <1>16, <1>s DEF SenderInit, ScannerStart, Fails, Goto, TypeOK
  <2> QED BY <1>16, <1>a, <2>1 DEF SenderInit, ScannerStart
<1>17. CASE Process
  <2>1. CASE End("fatal")
    BY <1>e, <2>1
  <2>2. CASE ~End("fatal")
    BY <1>17, <1>g, <1>p, <2>2 DEF Process
  <2> QED BY <2>1, <2>2
<1> QED BY <1>1, <1>2, <1>3, <1>4, <1>5, <1>6, <1>7, <1>8, <1>9, <1>10, <1>11, <1>12,
           <1>13, <1>14, <1>15, <1>16, <1>17
        DEF Next, Once, Clients, Rebatch

\* When main returns from Wait no request is still open, for any number of
\* requests: WriteTimeout < ShutdownTimeout is all it takes. It does not say
\* that each was answered: CutOff closes a request without an answer.
THEOREM DrainedAlways == Spec => []Drained
<1>1. Init => DrainInv
  BY Parts DEF Init, DrainInv, Drained, Supervised
<1>2. DrainInv => Drained
  BY DEF DrainInv
<1> QED BY <1>1, <1>2, DrainStep, TypeCorrect, PTL DEF Spec

-----------------------------------------------------------------------------
(***************************************************************************)
(* StuckForGood                                                            *)
(***************************************************************************)

\* Inductive: the sender starts its loops once, after main has started it.
StartInv ==
  /\ main # "wait" => at["sender"] = "off"
  /\ at["sender"] \in {"off", "init"} => at["rebatch"] = "off"

\* Neither invariant nor property is about any other goroutine.
SameSender == at'["sender"] = at["sender"] /\ at'["rebatch"] = at["rebatch"]

LEMMA GotoSameSender ==
  ASSUME TypeOK, NEW p \in Part \ {"sender", "rebatch"}, NEW s, Goto(p, s)
  PROVE  SameSender
<1>1. {"sender", "rebatch"} \subseteq Part
  BY Parts DEF Supervised
<1> QED BY <1>1 DEF Goto, TypeOK, SameSender

\* The steps that move neither of the two goroutines, or end the process.
LEMMA OtherSteps ==
  ASSUME TypeOK, exited = "no",
         \/ Signal \/ Ping \/ Exit \/ Clients \/ \E r \in Request : Accept(r)
         \/ AnnounceStop \/ ServerStart \/ Listen \/ ServeFails \/ Drain \/ ServerDone
         \/ NotifierStop \/ Manager \/ BatcherPush \/ Process
         \/ ScannerStart \/ ScannerDone \/ SubscriberExits \/ ProcessorExits
         \/ BackfillRead \/ BackfillPush \/ \E w \in Worker : Work(w)
  PROVE  \/ SameSender /\ exited' = "no" /\ (main' # "wait" => main # "wait")
         \/ exited' # "no" /\ \A p \in Part : at'[p] = "off"
<1>p. {"sender", "rebatch"} \subseteq Part
  BY Parts DEF Supervised
<1>q. {"waiter", "server", "notifier", "manager", "listener", "batcher", "scanner",
       "subscriber", "processor", "backfill"} \subseteq Part \ {"sender", "rebatch"}
  BY Parts DEF Supervised
<1>a. ASSUME UNCHANGED <<main, exited, at>>
      PROVE  SameSender /\ exited' = "no" /\ (main' # "wait" => main # "wait")
  BY <1>a DEF SameSender
<1>e. ASSUME NEW how \in {"return", "panic", "fatal", "wait"}, End(how)
      PROVE  exited' # "no" /\ \A p \in Part : at'[p] = "off"
  BY <1>e, EndsType
<1>g. ASSUME NEW p \in Part \ {"sender", "rebatch"}, NEW s, Goto(p, s), UNCHANGED <<main, exited>>
      PROVE  SameSender /\ exited' = "no" /\ (main' # "wait" => main # "wait")
  BY <1>g, GotoSameSender
<1>1. CASE Signal \/ Clients \/ BatcherPush
           \/ (\E r \in Request : Accept(r)) \/ \E w \in Worker : Work(w)
  BY <1>1, <1>a DEF Signal, Clients, Tick, Answer, CutOff, Close, Accept,
                    BatcherPush, Work, Receive, Finish, WorkerStop, startVars
<1>2. CASE Ping
  <2>1. CASE End("return")
    BY <1>e, <2>1
  <2>2. CASE ~End("return")
    BY <1>2, <2>2 DEF Ping, SameSender
  <2> QED BY <2>1, <2>2
<1>3. CASE Exit
  BY <1>3, <1>e DEF Exit
<1>4. CASE Listen
  <2>1. CASE End("panic")
    BY <1>e, <2>1
  <2>2. CASE ~End("panic")
    <3>1. Goto("listener", IF at["server"] = "serve" THEN "accept" ELSE "closed")
          /\ UNCHANGED <<main, exited>>
      BY <1>4, <2>2 DEF Listen, startVars
    <3> QED BY <1>g, <1>q, <3>1
  <2> QED BY <2>1, <2>2
<1>5. CASE Process
  <2>1. CASE End("fatal")
    BY <1>e, <2>1
  <2>2. CASE ~End("fatal")
    <3>1. PICK s : Goto("processor", s)
      BY <1>5, <2>2 DEF Process
    <3>2. UNCHANGED <<main, exited>>
      BY <1>5, <2>2 DEF Process, startVars
    <3> QED BY <1>g, <1>q, <3>1, <3>2
  <2> QED BY <2>1, <2>2
<1>6. CASE \/ AnnounceStop \/ ServeFails \/ ServerDone \/ NotifierStop
           \/ ManagerConnLost \/ ManagerStop
           \/ ScannerDone \/ SubscriberExits \/ ProcessorExits
           \/ BackfillRead \/ BackfillPush
  <2>1. PICK p \in Part \ {"sender", "rebatch"} : \E s : Goto(p, s)
    BY <1>6, <1>q
    DEF AnnounceStop, ServeFails, ServerDone, NotifierStop, ManagerConnLost, ManagerStop,
        ScannerDone, SubscriberExits, ProcessorExits, BackfillRead, BackfillPush, List, Fails
  <2>2. UNCHANGED <<main, exited>>
    BY <1>6
    DEF AnnounceStop, ServeFails, ServerDone, NotifierStop, ManagerConnLost, ManagerStop,
        ScannerDone, SubscriberExits, ProcessorExits, BackfillRead, BackfillPush, startVars
  <2>3. PICK s : Goto(p, s)
    BY <2>1
  <2> QED BY <1>g, <2>2, <2>3
<1>7. CASE ServerStart \/ Drain \/ ManagerConnect \/ ScannerStart
  <2>1. SameSender
    BY <1>7, <1>p DEF ServerStart, Drain, ManagerConnect, ScannerStart, Fails, Goto,
                      TypeOK, SameSender
  <2> QED BY <1>7, <2>1 DEF ServerStart, Drain, ManagerConnect, ScannerStart, startVars
<1> QED BY <1>1, <1>2, <1>3, <1>4, <1>5, <1>6, <1>7 DEF Manager

LEMMA StartStep == TypeOK /\ StartInv /\ [Next]_vars => StartInv'
<1> SUFFICES ASSUME TypeOK, StartInv, [Next]_vars PROVE StartInv'
  OBVIOUS
<1>p. {"sender", "rebatch"} \subseteq Part
  BY Parts DEF Supervised
<1>1. CASE UNCHANGED vars
  BY <1>1 DEF vars, startVars, StartInv
<1>2. ASSUME SameSender, main' # "wait" => main # "wait" PROVE StartInv'
  BY <1>2 DEF StartInv, SameSender
<1>3. ASSUME \A p \in Part : at'[p] = "off" PROVE StartInv'
  BY <1>3, <1>p DEF StartInv
<1>4. CASE StartParts
  <2>1. CASE End("return")
    BY <1>3, <2>1, EndsType
  <2>2. CASE ~End("return")
    BY <1>4, <1>p, <2>2 DEF StartParts, StartInv, TypeOK
  <2> QED BY <2>1, <2>2
<1>5. CASE SenderInit \/ SenderDone
  <2>1. main' = main /\ main = "wait"
    BY <1>5 DEF SenderInit, SenderDone, StartInv, startVars
  <2>2. at'["sender"] \in {"wait", "done"}
    BY <1>5, <1>p DEF SenderInit, SenderDone, Fails, Goto, TypeOK
  <2> QED BY <2>1, <2>2 DEF StartInv
<1>6. CASE Rebatch
  <2>1. at["rebatch"] # "off" /\ main' = main
    BY <1>6 DEF Rebatch, RebatchPass, RebatchPush, RebatchStop, startVars
  <2>2. at'["sender"] = at["sender"]
    BY <1>6, <1>p DEF Rebatch, RebatchPass, RebatchPush, RebatchStop, List, Fails, Goto, TypeOK
  <2> QED BY <2>1, <2>2 DEF StartInv
<1> QED BY <1>1, <1>2, <1>3, <1>4, <1>5, <1>6, OtherSteps DEF Next, Once

\* A step from a stuck state.
LEMMA StuckStep ==
  ASSUME TypeOK, StartInv, [Next]_vars, Stuck
  PROVE  Stuck' \/ exited' # "no"
<1>p. {"sender", "rebatch"} \subseteq Part
  BY Parts DEF Supervised
<1>0. at["rebatch"] = "push" /\ ~HasRoom /\ \A w \in Worker : worker[w] = "done"
  BY DEF Stuck
<1>1. ASSUME at'["rebatch"] = at["rebatch"], UNCHANGED <<batches, worker>>
      PROVE  Stuck'
  BY <1>0, <1>1 DEF Stuck, HasRoom
<1>2. CASE UNCHANGED vars
  BY <1>1, <1>2 DEF vars, queueVars
<1>3. CASE StartParts
  <2>1. main # "wait"
    BY <1>3 DEF StartParts
  <2> QED BY <1>0, <2>1 DEF StartInv
<1>4. CASE SenderInit
  BY <1>0, <1>4 DEF SenderInit, StartInv
<1>5. CASE SenderDone
  BY <1>0, <1>5 DEF SenderDone
<1>6. CASE Rebatch
  BY <1>0, <1>6 DEF Rebatch, RebatchPass, RebatchPush, RebatchStop
<1>7. CASE BatcherPush \/ BackfillPush \/ \E w \in Worker : Work(w)
  BY <1>0, <1>7 DEF BatcherPush, BackfillPush, Work, Receive, Finish, WorkerStop
<1>8. ASSUME exited = "no", SameSender, exited' = "no",
             \/ Signal \/ Ping \/ Exit \/ Clients \/ \E r \in Request : Accept(r)
             \/ AnnounceStop \/ ServerStart \/ Listen \/ ServeFails \/ Drain \/ ServerDone
             \/ NotifierStop \/ Manager \/ Process
             \/ ScannerStart \/ ScannerDone \/ SubscriberExits \/ ProcessorExits \/ BackfillRead
      PROVE  Stuck'
  <2>1. UNCHANGED <<batches, worker>>
    BY <1>8
    DEF Signal, Ping, Exit, End, Clients, Tick, Answer, CutOff, Close, Accept,
        AnnounceStop, ServerStart, Listen, ServeFails, Drain, ServerDone, NotifierStop, Manager, ManagerConnect,
        ManagerConnLost, ManagerStop, Process, ScannerStart, ScannerDone, SubscriberExits,
        ProcessorExits, BackfillRead, queueVars
  <2> QED BY <1>1, <1>8, <2>1 DEF SameSender
<1> QED BY <1>2, <1>3, <1>4, <1>5, <1>6, <1>7, <1>8, OtherSteps DEF Next, Once

\* A process whose rebatchExpired waits for room when all workers have returned
\* never recovers, for any number of workers and any capacity: all it can do is
\* end in another way.
THEOREM StuckForGoodAlways == Spec => StuckForGood
<1>1. Init => StartInv
  BY Parts DEF Init, StartInv, Supervised
<1>2. TypeOK /\ StartInv /\ [Next]_vars => (Stuck => Stuck' \/ exited' # "no")
  BY StuckStep
<1> QED BY <1>1, <1>2, StartStep, TypeCorrect, PTL DEF Spec, StuckForGood

=============================================================================

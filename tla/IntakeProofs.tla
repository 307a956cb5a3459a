---------------------------- MODULE IntakeProofs ----------------------------
(***************************************************************************)
(* Theorems about the intake, for any messages, any number of connections, *)
(* failures and crashes, and any batch size.                               *)
(***************************************************************************)
EXTENDS Intake, SequenceTheorems, FiniteSetTheorems, TLAPS

LEMMA RemoveAtType ==
  ASSUME NEW S, NEW s \in Seq(S), NEW i \in DOMAIN s
  PROVE  RemoveAt(s, i) \in Seq(S)
<1>1. /\ Len(s) \in Nat /\ i \in 1 .. Len(s)
      /\ \A j \in 1 .. Len(s) : s[j] \in S
  OBVIOUS
<1>2. SubSeq(s, 1, i - 1) \in Seq(S)
  BY <1>1, SubSeqProperties
<1>3. SubSeq(s, i + 1, Len(s)) \in Seq(S)
  BY <1>1, SubSeqProperties
<1> QED BY <1>2, <1>3, ConcatProperties DEF RemoveAt

LEMMA StoredSize == TypeOK => Cardinality(Stored) \in Nat
BY FS_Subset, FS_CardinalityType, IntakeAssumption DEF Stored

LEMMA CopyType ==
  ASSUME TypeOK, NEW m \in Msg, CopyFrom(m)
  PROVE  /\ transferStatus' \in [Transfer -> {"none", "new", "batched"}]
         /\ arrival' \in [Transfer -> Nat]
BY StoredSize DEF CopyFrom, TypeOK

LEMMA CommitType ==
  ASSUME TypeOK, NEW S \in SUBSET Transfer, Commit(S)
  PROVE  /\ transferStatus' \in [Transfer -> {"none", "new", "batched"}]
         /\ arrival' \in [Transfer -> Nat]
         /\ batch' \in Seq(SUBSET Transfer)
BY DEF Commit, TypeOK

\* What becomes of the workers' variables when one of them moves on without
\* taking up a message.
LEMMA GotoType ==
  ASSUME TypeOK, NEW c \in Worker, NEW s \in Step \ {"persist", "ack"},
         Goto(c, s),
         msg' = msg \/ msg' = [msg EXCEPT ![c] = NoMsg]
  PROVE  /\ step' \in [Worker -> Step]
         /\ msg' \in [Worker -> Msg \cup {NoMsg}]
         /\ \A d \in Worker : step'[d] \in {"persist", "ack"} => msg'[d] \in Msg
<1>1. step' \in [Worker -> Step] /\ msg' \in [Worker -> Msg \cup {NoMsg}]
  BY DEF Goto, TypeOK
<1>2. \A d \in Worker : d # c => step'[d] = step[d] /\ msg'[d] = msg[d]
  BY DEF Goto, TypeOK
<1>3. step'[c] = s
  BY DEF Goto, TypeOK
<1> QED BY <1>1, <1>2, <1>3 DEF TypeOK

LEMMA ResetType ==
  ASSUME TypeOK, NEW c \in Worker
  PROVE  /\ [unbatched EXCEPT ![c] = 0] \in [Worker -> Nat]
         /\ [picked EXCEPT ![c] = {}] \in [Worker -> SUBSET Transfer]
BY DEF TypeOK

\* No connection is a legal value, and so are an open and a closed channel.
LEMMA LostType ==
  /\ 0 \in 0 .. MaxConns
  /\ ChannelLost => open' \in BOOLEAN /\ delivered' = {}
<1>1. 0 \in 0 .. MaxConns
  BY IntakeAssumption
<1>2. ChannelLost => open' \in BOOLEAN /\ delivered' = {}
  BY Zenon DEF ChannelLost
<1> QED BY <1>1, <1>2

LEMMA StatementType ==
  ASSUME TypeOK, NEW c \in Worker
  PROVE  /\ Statement(c) \in [worker : Worker, since : Nat, picked : SUBSET Transfer]
         /\ Statement(c).picked = picked[c]
BY DEF TypeOK, Statement

LEMMA TypeInit == Init => TypeOK
<1> SUFFICES ASSUME Init PROVE TypeOK
  OBVIOUS
<1>1. /\ queue \in Seq(Msg) /\ delivered \subseteq Msg /\ acked \subseteq Msg
      /\ conns \in 0 .. MaxConns /\ live \in 0 .. MaxConns
      /\ batches \in 0 .. ParallelBatches /\ failures \in Nat /\ crashes \in Nat
  BY IntakeAssumption DEF Init
<1>2. open \in BOOLEAN /\ overlapped \in BOOLEAN
  BY Zenon DEF Init
<1>3. /\ transferStatus \in [Transfer -> {"none", "new", "batched"}]
      /\ arrival \in [Transfer -> Nat]
      /\ batch \in Seq(SUBSET Transfer)
      /\ abandoned \subseteq [worker : Worker, since : Nat, picked : SUBSET Transfer]
  BY DEF Init
<1>4. /\ step \in [Worker -> Step]
      /\ msg \in [Worker -> Msg \cup {NoMsg}]
      /\ \A c \in Worker : step[c] \in {"persist", "ack"} => msg[c] \in Msg
      /\ unbatched \in [Worker -> Nat]
      /\ picked \in [Worker -> SUBSET Transfer]
  BY DEF Init, Step
<1> QED BY <1>1, <1>2, <1>3, <1>4 DEF TypeOK

LEMMA TypeConnections ==
  ASSUME TypeOK,
         (\E m \in Msg : Publish(m)) \/ Connect \/ ConnLost \/ CloseChannel
  PROVE  TypeOK'
<1>1. ASSUME NEW m \in Msg, Publish(m) PROVE TypeOK'
  BY <1>1 DEF Publish, TypeOK, connVars, tableVars, stmtVars, workerVars, boundVars
<1>2. CASE Connect
  <2>1. conns + 1 \in Worker /\ Goto(conns + 1, "open") /\ "open" \in Step \ {"persist", "ack"}
    BY <1>2, IntakeAssumption DEF Connect, TypeOK, Worker, Goto, Step
  <2>2. /\ step' \in [Worker -> Step]
        /\ msg' \in [Worker -> Msg \cup {NoMsg}]
        /\ \A d \in Worker : step'[d] \in {"persist", "ack"} => msg'[d] \in Msg
    BY <1>2, <2>1, GotoType DEF Connect
  <2>3. conns' \in 0 .. MaxConns /\ live' \in 0 .. MaxConns
    BY <1>2, IntakeAssumption DEF Connect, TypeOK
  <2> QED BY <1>2, <2>2, <2>3 DEF Connect, TypeOK, queueVars, tableVars, stmtVars, boundVars
<1>3. CASE ConnLost \/ CloseChannel
  <2>1. live' \in 0 .. MaxConns
    BY <1>3, LostType DEF ConnLost, CloseChannel, Disconnect, TypeOK
  <2> QED BY <1>3, <2>1, LostType DEF ConnLost, CloseChannel, Disconnect, TypeOK,
          tableVars, stmtVars, workerVars, boundVars
<1> QED BY <1>1, <1>2, <1>3

LEMMA TypeChannel ==
  ASSUME TypeOK, NEW c \in Worker, OpenChannel(c) \/ End(c) \/ Timer(c) \/ Push(c)
  PROVE  TypeOK'
<1>0. {"consume", "gone", "create"} \subseteq Step \ {"persist", "ack"}
  BY DEF Step
<1>1. CASE OpenChannel(c)
  <2>1. /\ step' \in [Worker -> Step]
        /\ msg' \in [Worker -> Msg \cup {NoMsg}]
        /\ \A d \in Worker : step'[d] \in {"persist", "ack"} => msg'[d] \in Msg
    BY <1>0, <1>1, GotoType DEF OpenChannel
  <2> QED BY <1>1, <2>1, ResetType DEF OpenChannel, TypeOK, tableVars, stmtVars, boundVars
<1>2. CASE End(c)
  <2>1. /\ step' \in [Worker -> Step]
        /\ msg' \in [Worker -> Msg \cup {NoMsg}]
        /\ \A d \in Worker : step'[d] \in {"persist", "ack"} => msg'[d] \in Msg
    BY <1>0, <1>2, GotoType DEF End
  <2>2. open' \in BOOLEAN /\ delivered' \subseteq Msg
    BY <1>2 DEF End, ChannelLost, TypeOK
  <2> QED BY <1>2, <2>1, <2>2, ResetType DEF End, TypeOK, tableVars, stmtVars, boundVars
<1>3. CASE Timer(c)
  <2>1. /\ step' \in [Worker -> Step]
        /\ msg' \in [Worker -> Msg \cup {NoMsg}]
        /\ \A d \in Worker : step'[d] \in {"persist", "ack"} => msg'[d] \in Msg
    BY <1>0, <1>3, GotoType DEF Timer
  <2> QED BY <1>3, <2>1 DEF Timer, TypeOK, queueVars, connVars, tableVars, stmtVars, boundVars
<1>4. CASE Push(c)
  <2>1. /\ step' \in [Worker -> Step]
        /\ msg' \in [Worker -> Msg \cup {NoMsg}]
        /\ \A d \in Worker : step'[d] \in {"persist", "ack"} => msg'[d] \in Msg
    BY <1>0, <1>4, GotoType DEF Push
  <2>2. batches' \in 0 .. ParallelBatches
    BY <1>4, IntakeAssumption DEF Push, TypeOK
  <2> QED BY <1>4, <2>1, <2>2, ResetType
          DEF Push, TypeOK, queueVars, connVars, tableVars, stmtVars, boundVars
<1> QED BY <1>1, <1>2, <1>3, <1>4

LEMMA TypeMessage ==
  ASSUME TypeOK, NEW c \in Worker, Deliver(c) \/ Persist(c) \/ Ack(c)
  PROVE  TypeOK'
<1>0. {"open", "consume", "create"} \subseteq Step \ {"persist", "ack"}
      /\ {"persist", "ack"} \subseteq Step
  BY DEF Step
<1>1. CASE Deliver(c)
  <2>1. PICK i \in Ready : /\ msg' = [msg EXCEPT ![c] = queue[i]]
                           /\ delivered' = delivered \cup {queue[i]}
    BY <1>1 DEF Deliver
  <2>2. queue[i] \in Msg
    BY <2>1 DEF Ready, TypeOK
  <2>3. step' = [step EXCEPT ![c] = "persist"]
    BY <1>1 DEF Deliver, Goto
  <2>4. /\ step' \in [Worker -> Step] /\ msg' \in [Worker -> Msg \cup {NoMsg}]
        /\ \A d \in Worker : step'[d] \in {"persist", "ack"} => msg'[d] \in Msg
    BY <1>0, <2>1, <2>2, <2>3 DEF TypeOK
  <2> QED BY <1>1, <2>1, <2>2, <2>4 DEF Deliver, TypeOK, connVars, tableVars, stmtVars, boundVars
<1>2. CASE Persist(c)
  <2>0. msg[c] \in Msg
    BY <1>2 DEF Persist, TypeOK
  <2>1. \E s \in {"ack", "open"} : step' = [step EXCEPT ![c] = s]
    BY <1>2 DEF Persist, Goto
  <2>2. /\ step' \in [Worker -> Step] /\ msg' = msg
        /\ \A d \in Worker : step'[d] \in {"persist", "ack"} => msg'[d] \in Msg
    BY <1>0, <1>2, <2>0, <2>1 DEF Persist, TypeOK
  <2>3. /\ transferStatus' \in [Transfer -> {"none", "new", "batched"}]
        /\ arrival' \in [Transfer -> Nat]
    BY <1>2, <2>0, CopyType DEF Persist, TypeOK
  <2>4. Cardinality(transfersOf[msg[c]]) \in Nat
    BY <2>0, FS_Subset, FS_CardinalityType, IntakeAssumption
  <2>5. unbatched' \in [Worker -> Nat]
    <3>1. unbatched \in [Worker -> Nat] /\ unbatched[c] \in Nat
      BY DEF TypeOK
    <3>2. \/ unbatched' = unbatched
          \/ unbatched' = [unbatched EXCEPT ![c] = @ + Cardinality(transfersOf[msg[c]])]
      BY <1>2 DEF Persist
    <3> QED BY <2>4, <3>1, <3>2
  <2>6. failures' \in Nat
    BY <1>2 DEF Persist, Fail, TypeOK
  <2> QED BY <1>2, <2>2, <2>3, <2>5, <2>6 DEF Persist, TypeOK, queueVars, connVars, stmtVars
<1>3. CASE Ack(c)
  <2>0. msg[c] \in Msg
    BY <1>3 DEF Ack, TypeOK
  <2>1. queue' \in Seq(Msg) /\ delivered' \subseteq Msg /\ acked' \subseteq Msg
    BY <1>3, <2>0, RemoveAtType DEF Ack, Disconnect, ChannelLost, TypeOK, queueVars
  <2>2. live' \in 0 .. MaxConns /\ open' \in BOOLEAN
    BY <1>3, LostType DEF Ack, Disconnect, TypeOK
  <2>3. \E s \in {"open", "consume", "create"} :
          Goto(c, s) /\ (msg' = msg \/ msg' = [msg EXCEPT ![c] = NoMsg])
    BY <1>3 DEF Ack, AfterMessage
  <2>4. /\ step' \in [Worker -> Step] /\ msg' \in [Worker -> Msg \cup {NoMsg}]
        /\ \A d \in Worker : step'[d] \in {"persist", "ack"} => msg'[d] \in Msg
    BY <1>0, <2>3, GotoType
  <2> QED BY <1>3, <2>1, <2>2, <2>4 DEF Ack, TypeOK, tableVars, stmtVars, boundVars
<1> QED BY <1>1, <1>2, <1>3

LEMMA TypeBatch ==
  ASSUME TypeOK, NEW c \in Worker, NextBatchStart(c) \/ NextBatchEnd(c)
  PROVE  TypeOK'
<1>0. {"consume", "commit", "push"} \subseteq Step \ {"persist", "ack"}
  BY DEF Step
<1>1. CASE NextBatchStart(c)
  <2>1. PICK S \in SUBSET New : picked' = [picked EXCEPT ![c] = S]
    BY <1>1 DEF NextBatchStart
  <2>2. picked' \in [Worker -> SUBSET Transfer]
    BY <2>1 DEF New, TypeOK
  <2>3. /\ step' \in [Worker -> Step] /\ msg' \in [Worker -> Msg \cup {NoMsg}]
        /\ \A d \in Worker : step'[d] \in {"persist", "ack"} => msg'[d] \in Msg
    BY <1>0, <1>1, GotoType DEF NextBatchStart
  <2>4. overlapped' \in BOOLEAN
    BY <1>1 DEF NextBatchStart, TypeOK
  <2> QED BY <1>1, <2>2, <2>3, <2>4
          DEF NextBatchStart, TypeOK, queueVars, connVars, tableVars, boundVars
<1>2. CASE NextBatchEnd(c)
  <2>0. picked[c] \in SUBSET Transfer
    BY DEF TypeOK
  <2>1. /\ transferStatus' \in [Transfer -> {"none", "new", "batched"}]
        /\ arrival' \in [Transfer -> Nat]
        /\ batch' \in Seq(SUBSET Transfer)
    BY <1>2, <2>0, CommitType DEF NextBatchEnd, TypeOK, tableVars
  <2>2. \E s \in {"consume", "push"} : Goto(c, s) /\ msg' = msg
    BY <1>2 DEF NextBatchEnd
  <2>3. /\ step' \in [Worker -> Step] /\ msg' \in [Worker -> Msg \cup {NoMsg}]
        /\ \A d \in Worker : step'[d] \in {"persist", "ack"} => msg'[d] \in Msg
    BY <1>0, <2>2, GotoType
  <2>4. failures' \in Nat /\ abandoned' \subseteq [worker : Worker, since : Nat, picked : SUBSET Transfer]
    BY <1>2, <2>0, StatementType DEF NextBatchEnd, Fail, TypeOK
  <2>5. unbatched' \in [Worker -> Nat] /\ picked' \in [Worker -> SUBSET Transfer]
    BY <1>2, ResetType DEF NextBatchEnd, TypeOK
  <2> QED BY <1>2, <2>1, <2>3, <2>4, <2>5 DEF NextBatchEnd, TypeOK, queueVars, connVars
<1> QED BY <1>1, <1>2

LEMMA TypeRest ==
  ASSUME TypeOK, (\E s \in abandoned : AbandonedEnd(s)) \/ Take \/ Restart
  PROVE  TypeOK'
<1>1. ASSUME NEW s \in abandoned, AbandonedEnd(s) PROVE TypeOK'
  <2>1. s.picked \in SUBSET Transfer
    BY DEF TypeOK
  <2>2. /\ transferStatus' \in [Transfer -> {"none", "new", "batched"}]
        /\ arrival' \in [Transfer -> Nat]
        /\ batch' \in Seq(SUBSET Transfer)
    BY <1>1, <2>1, CommitType DEF AbandonedEnd, TypeOK, tableVars
  <2> QED BY <1>1, <2>2 DEF AbandonedEnd, TypeOK, queueVars, connVars, workerVars, boundVars
<1>2. CASE Take
  BY <1>2, IntakeAssumption
     DEF Take, TypeOK, queueVars, connVars, tableVars, stmtVars, workerVars, boundVars
<1>3. CASE Restart
  <2>1. /\ step' \in [Worker -> Step]
        /\ \A d \in Worker : step'[d] \notin {"persist", "ack"}
    BY <1>3 DEF Restart, Step
  <2>2. /\ live' \in 0 .. MaxConns /\ open' \in BOOLEAN /\ delivered' \subseteq Msg
        /\ batches' \in 0 .. ParallelBatches /\ crashes' \in Nat
    BY <1>3, LostType, IntakeAssumption DEF Restart, TypeOK
  <2>3. /\ msg' \in [Worker -> Msg \cup {NoMsg}]
        /\ unbatched' \in [Worker -> Nat]
        /\ picked' \in [Worker -> SUBSET Transfer]
    BY <1>3 DEF Restart
  <2>4. abandoned' \subseteq [worker : Worker, since : Nat, picked : SUBSET Transfer]
    BY <1>3, StatementType DEF Restart, TypeOK
  <2> QED BY <1>3, <2>1, <2>2, <2>3, <2>4 DEF Restart, TypeOK, tableVars
<1> QED BY <1>1, <1>2, <1>3

\* Every variable keeps its type, and the channel its capacity.
THEOREM TypeCorrect == Spec => []TypeOK
<1>1. TypeOK /\ UNCHANGED vars => TypeOK'
  BY DEF TypeOK, vars, queueVars, connVars, tableVars, stmtVars, workerVars, boundVars
<1>2. TypeOK /\ [Next]_vars => TypeOK'
  BY <1>1, TypeConnections, TypeChannel, TypeMessage, TypeBatch, TypeRest DEF Next, Run
<1> QED BY TypeInit, <1>2, PTL DEF Spec

-----------------------------------------------------------------------------
(***************************************************************************)
(* AckedAreStored                                                          *)
(***************************************************************************)

\* The transfers of a message are accounted for.
Settled(m) == Mixed(m) \/ (transfersOf[m] # {} /\ transfersOf[m] \subseteq Stored)

\* Inductive: rows come from messages that were stored as a whole, and a worker
\* acknowledges only what is accounted for.
AckInv ==
  /\ \A t \in Stored : \E n \in Msg : t \in transfersOf[n] /\ transfersOf[n] \subseteq Stored
  /\ \A c \in Worker : step[c] = "ack" => Settled(msg[c])
  /\ AckedAreStored

\* A message that is refused as a duplicate is accounted for: its transfers are
\* those of the message that brought the row it collides with.
LEMMA DuplicateSettled ==
  ASSUME AckInv, NEW m \in Msg, Duplicate(m)
  PROVE  Settled(m)
<1>1. CASE m \in Repeating
  BY <1>1 DEF Settled, Mixed
<1>2. CASE transfersOf[m] \cap Stored # {}
  <2>1. PICK t \in transfersOf[m] : t \in Stored
    BY <1>2
  <2>2. PICK n \in Msg : t \in transfersOf[n] /\ transfersOf[n] \subseteq Stored
    BY <2>1 DEF AckInv
  <2>3. CASE transfersOf[m] \cap transfersOf[n] = transfersOf[m]
    BY <2>1, <2>2, <2>3 DEF Settled
  <2>4. CASE transfersOf[m] \cap transfersOf[n] # transfersOf[m]
    BY <2>1, <2>2, <2>4 DEF Settled, Mixed
  <2> QED BY <2>3, <2>4
<1> QED BY <1>1, <1>2 DEF Duplicate

LEMMA CopyStores ==
  ASSUME TypeOK, NEW m \in Msg, CopyFrom(m)
  PROVE  Stored' = Stored \cup transfersOf[m] /\ transfersOf[m] # {}
BY IntakeAssumption DEF CopyFrom, Stored, TypeOK

LEMMA CommitStores ==
  ASSUME TypeOK, NEW S \in SUBSET Stored, Commit(S)
  PROVE  Stored' = Stored
BY DEF Commit, Stored, TypeOK

\* Rows are never deleted; what is accounted for stays so.
LEMMA StoredOnly ==
  ASSUME AckInv, Stored' = Stored, acked' = acked,
         \A c \in Worker : step'[c] = "ack" => step[c] = "ack" /\ msg'[c] = msg[c]
  PROVE  AckInv'
BY DEF AckInv, Settled, AckedAreStored, Mixed

\* Statements pick rows that exist.
PickedInv ==
  /\ \A c \in Worker : picked[c] \subseteq Stored
  /\ \A s \in abandoned : s.picked \subseteq Stored

LEMMA AckPersist ==
  ASSUME TypeOK, AckInv, PickedInv, NEW c \in Worker, Persist(c)
  PROVE  AckInv' /\ PickedInv'
<1>0. /\ step \in [Worker -> Step] /\ msg[c] \in Msg
      /\ UNCHANGED <<msg, acked, picked, abandoned>>
  BY DEF Persist, TypeOK, queueVars, stmtVars
<1>1. CASE CopyFrom(msg[c])
  <2>1. Stored' = Stored \cup transfersOf[msg[c]] /\ transfersOf[msg[c]] # {}
    BY <1>0, <1>1, CopyStores
  <2>2. \A d \in Worker : d # c => step'[d] = step[d]
    BY <1>0 DEF Persist, Goto
  <2>3. Settled(msg[c])'
    BY <1>0, <2>1 DEF Settled, Mixed
  <2>4. \A m \in Msg : Settled(m) => Settled(m)'
    BY <2>1 DEF Settled, Mixed
  <2>5. \A d \in Worker : step'[d] = "ack" => Settled(msg[d])'
    <3> SUFFICES ASSUME NEW d \in Worker, step'[d] = "ack" PROVE Settled(msg[d])'
      OBVIOUS
    <3>1. CASE d = c
      BY <3>1, <2>3
    <3>2. CASE d # c
      BY <3>2, <1>0, <2>1, <2>2 DEF AckInv, Settled, Mixed
    <3> QED BY <3>1, <3>2
  <2>6. AckedAreStored'
    BY <1>0, <2>1 DEF AckInv, AckedAreStored, Mixed
  <2>7. \A t \in Stored' : \E n \in Msg : t \in transfersOf[n] /\ transfersOf[n] \subseteq Stored'
    BY <1>0, <2>1 DEF AckInv
  <2> QED BY <1>0, <2>1, <2>5, <2>6, <2>7 DEF AckInv, PickedInv
<1>2. CASE transferStatus' = transferStatus
  <2>1. Stored' = Stored
    BY <1>2 DEF Stored
  <2>2. \A d \in Worker : d # c => step'[d] = step[d]
    BY <1>0 DEF Persist, Goto
  <2>3. step'[c] = "ack" => Settled(msg[c])
    <3>1. step'[c] = "ack" => Duplicate(msg[c]) \/ CopyFrom(msg[c])
      BY <1>0 DEF Persist, Goto
    <3>2. CopyFrom(msg[c]) => Stored' = Stored \cup transfersOf[msg[c]] /\ transfersOf[msg[c]] # {}
      BY <1>0, CopyStores
    <3> QED BY <1>0, <2>1, <3>1, <3>2, DuplicateSettled DEF Settled
  <2> QED BY <1>0, <2>1, <2>2, <2>3 DEF AckInv, PickedInv, AckedAreStored, Settled, Mixed
<1> QED BY <1>1, <1>2 DEF Persist

LEMMA AckAck ==
  ASSUME TypeOK, AckInv, PickedInv, NEW c \in Worker, Ack(c)
  PROVE  AckInv' /\ PickedInv'
<1>1. /\ step \in [Worker -> Step]
      /\ UNCHANGED <<transferStatus, picked, abandoned>>
      /\ acked' \subseteq acked \cup {msg[c]}
      /\ \A d \in Worker : d # c => step'[d] = step[d] /\ msg'[d] = msg[d]
      /\ step'[c] # "ack"
  BY DEF Ack, AfterMessage, Goto, TypeOK, tableVars, stmtVars, queueVars
<1>2. Stored' = Stored
  BY <1>1 DEF Stored
<1>3. Settled(msg[c])
  BY DEF Ack, AckInv
<1> QED BY <1>1, <1>2, <1>3 DEF AckInv, PickedInv, AckedAreStored, Settled, Mixed

LEMMA AckCommit ==
  ASSUME TypeOK, AckInv, PickedInv,
         (\E c \in Worker : NextBatchEnd(c)) \/ (\E s \in abandoned : AbandonedEnd(s))
  PROVE  AckInv' /\ PickedInv'
<1>1. ASSUME NEW c \in Worker, NextBatchEnd(c) PROVE AckInv' /\ PickedInv'
  <2>1. Stored' = Stored
    BY <1>1, CommitStores DEF NextBatchEnd, PickedInv, tableVars, Stored
  <2>2. /\ \A d \in Worker : step'[d] = "ack" => step[d] = "ack" /\ msg'[d] = msg[d]
        /\ acked' = acked
    BY <1>1 DEF NextBatchEnd, Goto, TypeOK, queueVars
  <2>3. PickedInv'
    BY <1>1, <2>1, StatementType DEF NextBatchEnd, PickedInv, TypeOK
  <2> QED BY <2>1, <2>2, <2>3, StoredOnly
<1>2. ASSUME NEW s \in abandoned, AbandonedEnd(s) PROVE AckInv' /\ PickedInv'
  <2>1. Stored' = Stored
    BY <1>2, CommitStores DEF AbandonedEnd, PickedInv, tableVars, Stored
  <2>2. acked' = acked /\ UNCHANGED <<step, msg, picked>> /\ abandoned' \subseteq abandoned
    BY <1>2 DEF AbandonedEnd, queueVars, workerVars
  <2> QED BY <2>1, <2>2, StoredOnly DEF PickedInv
<1> QED BY <1>1, <1>2

LEMMA AckStep == TypeOK /\ AckInv /\ PickedInv /\ [Next]_vars => AckInv' /\ PickedInv'
<1> SUFFICES ASSUME TypeOK, AckInv, PickedInv, [Next]_vars PROVE AckInv' /\ PickedInv'
  OBVIOUS
<1>0. step \in [Worker -> Step]
  BY DEF TypeOK
<1>1. ASSUME UNCHANGED <<transferStatus, acked, picked, abandoned>>,
             \A c \in Worker : step'[c] = "ack" => step[c] = "ack" /\ msg'[c] = msg[c]
      PROVE  AckInv' /\ PickedInv'
  <2>1. Stored' = Stored
    BY <1>1 DEF Stored
  <2> QED BY <1>1, <2>1, StoredOnly DEF PickedInv
<1>2. CASE UNCHANGED vars
  BY <1>1, <1>2 DEF vars, queueVars, tableVars, stmtVars, workerVars
<1>3. CASE (\E m \in Msg : Publish(m)) \/ ConnLost \/ CloseChannel \/ Take
  BY <1>1, <1>3 DEF Publish, ConnLost, CloseChannel, Take, queueVars, tableVars,
                    stmtVars, workerVars
<1>4. CASE Connect
  BY <1>0, <1>1, <1>4 DEF Connect, queueVars, tableVars, stmtVars
<1>5. ASSUME NEW c \in Worker,
             OpenChannel(c) \/ End(c) \/ Deliver(c) \/ Timer(c) \/ Push(c)
      PROVE  AckInv' /\ PickedInv'
  <2>1. UNCHANGED <<transferStatus, acked, picked, abandoned>>
    BY <1>5 DEF OpenChannel, End, Deliver, Timer, Push, queueVars, tableVars, stmtVars
  <2>2. /\ \A d \in Worker : d # c => step'[d] = step[d] /\ msg'[d] = msg[d]
        /\ step'[c] # "ack"
    BY <1>0, <1>5 DEF OpenChannel, End, Deliver, Timer, Push, Goto, TypeOK
  <2> QED BY <1>1, <2>1, <2>2
<1>6. ASSUME NEW c \in Worker, NextBatchStart(c) PROVE AckInv' /\ PickedInv'
  <2>1. UNCHANGED <<transferStatus, acked, abandoned, msg>>
    BY <1>6 DEF NextBatchStart, queueVars, tableVars
  <2>2. \A d \in Worker : step'[d] = "ack" => step[d] = "ack"
    BY <1>0, <1>6 DEF NextBatchStart, Goto
  <2>3. Stored' = Stored /\ New \subseteq Stored
    BY <2>1 DEF Stored, New
  <2>4. PickedInv'
    BY <1>6, <2>1, <2>3 DEF NextBatchStart, PickedInv, TypeOK
  <2> QED BY <2>1, <2>2, <2>3, <2>4, StoredOnly
<1>7. CASE Restart
  <2>1. UNCHANGED <<transferStatus, acked>>
    BY <1>7 DEF Restart, tableVars
  <2>2. \A c \in Worker : step'[c] # "ack" /\ picked'[c] = {}
    BY <1>7 DEF Restart
  <2>3. Stored' = Stored
    BY <2>1 DEF Stored
  <2>4. \A s \in abandoned' : s \in abandoned \/ \E c \in Worker : s = Statement(c)
    BY <1>7 DEF Restart
  <2>5. PickedInv'
    BY <2>2, <2>3, <2>4, StatementType DEF PickedInv
  <2> QED BY <2>1, <2>2, <2>3, <2>5, StoredOnly
<1> QED BY <1>2, <1>3, <1>4, <1>5, <1>6, <1>7, AckPersist, AckAck, AckCommit DEF Next, Run

\* An acknowledged message has all its transfers in the database, through lost
\* connections and acknowledgements, redeliveries, republications, errors of
\* calls that went through, and crashes. The exception is stated: one that
\* mixes transfers that are known with new ones.
THEOREM AckedAreStoredAlways == Spec => []AckedAreStored
<1>1. Init => AckInv /\ PickedInv
  BY DEF Init, AckInv, PickedInv, AckedAreStored, Stored
<1>2. AckInv => AckedAreStored
  BY DEF AckInv
<1> QED BY <1>1, <1>2, AckStep, TypeCorrect, PTL DEF Spec

-----------------------------------------------------------------------------
(***************************************************************************)
(* InOneBatch                                                              *)
(***************************************************************************)

Batched == {t \in Transfer : transferStatus[t] = "batched"}

\* At most one statement is running, and what it picked is still new.
OneStatement ==
  /\ \A c, d \in Worker : step[c] = "commit" /\ step[d] = "commit" => c = d
  /\ \A c \in Worker : step[c] = "commit" => abandoned = {} /\ picked[c] \subseteq New
  /\ \A r, s \in abandoned : r = s /\ s.picked \subseteq New

BatchesMarked == \A i \in DOMAIN batch : batch[i] \subseteq Batched

Disjoint == \A i, j \in DOMAIN batch : i # j => batch[i] \cap batch[j] = {}

\* Inductive: batches are marked, and statements pick what is not.
BatchInv == BatchesMarked /\ (~overlapped => OneStatement /\ Disjoint)

\* A batch of new transfers shares none with the batches before it.
LEMMA CommitDisjoint ==
  ASSUME TypeOK, BatchesMarked, NEW S \in SUBSET Transfer, Commit(S)
  PROVE  /\ BatchesMarked'
         /\ S \subseteq New /\ Disjoint => Disjoint'
<1>1. /\ batch \in Seq(SUBSET Transfer) /\ Len(batch) \in Nat
      /\ DOMAIN batch = 1 .. Len(batch)
  BY DEF TypeOK
<1>2. /\ DOMAIN batch' = 1 .. Len(batch) + 1
      /\ \A i \in 1 .. Len(batch) : batch'[i] = batch[i]
      /\ batch'[Len(batch) + 1] = S
  BY <1>1 DEF Commit
<1>3. Batched' = Batched \cup S
  BY DEF Commit, Batched, TypeOK
<1>4. BatchesMarked'
  BY <1>1, <1>2, <1>3 DEF BatchesMarked
<1>5. ASSUME S \subseteq New, Disjoint PROVE Disjoint'
  <2>1. \A i \in DOMAIN batch : batch[i] \cap S = {}
    BY <1>5 DEF BatchesMarked, Batched, New
  <2> SUFFICES ASSUME NEW i \in DOMAIN batch', NEW j \in DOMAIN batch', i # j
               PROVE  batch'[i] \cap batch'[j] = {}
    BY DEF Disjoint
  <2>2. CASE i \in DOMAIN batch /\ j \in DOMAIN batch
    BY <1>1, <1>2, <1>5, <2>2 DEF Disjoint
  <2>3. CASE i \in DOMAIN batch /\ j \notin DOMAIN batch
    BY <1>1, <1>2, <2>1, <2>3
  <2>4. CASE i \notin DOMAIN batch /\ j \in DOMAIN batch
    BY <1>1, <1>2, <2>1, <2>4
  <2>5. CASE i \notin DOMAIN batch /\ j \notin DOMAIN batch
    BY <1>1, <1>2, <2>5
  <2> QED BY <2>2, <2>3, <2>4, <2>5
<1> QED BY <1>4, <1>5

\* Steps that run no statement and mark nothing.
LEMMA BatchQuiet ==
  ASSUME BatchInv, Batched' = Batched, New \subseteq New',
         UNCHANGED <<batch, abandoned, overlapped>>,
         \A c \in Worker : step'[c] = "commit" => step[c] = "commit" /\ picked'[c] = picked[c]
  PROVE  BatchInv'
BY DEF BatchInv, BatchesMarked, OneStatement, Disjoint

LEMMA BatchPersist ==
  ASSUME TypeOK, BatchInv, NEW c \in Worker, Persist(c)
  PROVE  BatchInv'
<1>1. /\ msg[c] \in Msg /\ step \in [Worker -> Step]
      /\ UNCHANGED <<batch, abandoned, overlapped, picked>>
  BY DEF Persist, TypeOK, stmtVars
<1>2. \A d \in Worker : step'[d] = "commit" => step[d] = "commit"
  BY <1>1 DEF Persist, Goto
<1>3. CASE CopyFrom(msg[c])
  <2>1. transfersOf[msg[c]] \cap Stored = {}
    BY <1>3 DEF CopyFrom, Duplicate
  <2>2. Batched' = Batched /\ New \subseteq New'
    BY <1>3, <2>1 DEF CopyFrom, Batched, New, Stored, TypeOK
  <2> QED BY <1>1, <1>2, <2>2, BatchQuiet
<1>4. CASE transferStatus' = transferStatus
  <2>1. Batched' = Batched /\ New' = New
    BY <1>4 DEF Batched, New
  <2> QED BY <1>1, <1>2, <2>1, BatchQuiet
<1> QED BY <1>3, <1>4 DEF Persist

LEMMA BatchStart ==
  ASSUME TypeOK, BatchInv, NEW c \in Worker, NextBatchStart(c)
  PROVE  BatchInv'
<1>1. /\ step \in [Worker -> Step]
      /\ UNCHANGED <<transferStatus, batch, abandoned>>
      /\ step' = [step EXCEPT ![c] = "commit"]
  BY DEF NextBatchStart, Goto, TypeOK, tableVars
<1>2. PICK S \in SUBSET New : picked' = [picked EXCEPT ![c] = S]
  BY DEF NextBatchStart
<1>3. Batched' = Batched /\ New' = New
  BY <1>1 DEF Batched, New
<1>4. ~overlapped' => ~overlapped /\ abandoned = {} /\ \A d \in Worker : step[d] # "commit"
  BY DEF NextBatchStart
<1>5. ~overlapped' => \A d \in Worker : step'[d] = "commit" => d = c
  BY <1>1, <1>4
<1>6. picked'[c] \subseteq New'
  BY <1>2, <1>3 DEF TypeOK
<1>7. ~overlapped' => OneStatement'
  BY <1>1, <1>4, <1>5, <1>6 DEF OneStatement
<1>8. BatchesMarked'
  BY <1>1, <1>3 DEF BatchInv, BatchesMarked
<1>9. ~overlapped' => Disjoint'
  BY <1>1, <1>4 DEF BatchInv, Disjoint
<1> QED BY <1>7, <1>8, <1>9 DEF BatchInv

LEMMA BatchEnd ==
  ASSUME TypeOK, BatchInv, NEW c \in Worker, NextBatchEnd(c)
  PROVE  BatchInv'
<1>0. /\ step \in [Worker -> Step] /\ step[c] = "commit" /\ picked[c] \in SUBSET Transfer
      /\ overlapped' = overlapped
      /\ \A d \in Worker : d # c => step'[d] = step[d]
      /\ step'[c] # "commit"
  BY DEF NextBatchEnd, Goto, TypeOK
<1>1. ~overlapped => \A d \in Worker : step'[d] # "commit"
  BY <1>0 DEF BatchInv, OneStatement
<1>2. ~overlapped => abandoned = {} /\ picked[c] \subseteq New
  BY <1>0 DEF BatchInv, OneStatement
<1>3. CASE Commit(picked[c]) /\ abandoned' = abandoned
  <2>1. BatchesMarked' /\ (~overlapped => Disjoint')
    BY <1>0, <1>2, <1>3, CommitDisjoint DEF BatchInv
  <2>2. ~overlapped => OneStatement'
    BY <1>1, <1>2, <1>3 DEF OneStatement
  <2> QED BY <1>0, <2>1, <2>2 DEF BatchInv
<1>4. CASE /\ UNCHANGED tableVars
           /\ \/ abandoned' = abandoned
              \/ abandoned' = abandoned \cup {Statement(c)}
  <2>1. Batched' = Batched /\ New' = New /\ batch' = batch
    BY <1>4 DEF Batched, New, tableVars
  <2>2. BatchesMarked' /\ (~overlapped => Disjoint')
    BY <2>1 DEF BatchInv, BatchesMarked, Disjoint
  <2>3. ~overlapped => OneStatement'
    BY <1>1, <1>2, <1>4, <2>1, StatementType DEF OneStatement
  <2> QED BY <1>0, <2>2, <2>3 DEF BatchInv
<1> QED BY <1>3, <1>4 DEF NextBatchEnd

LEMMA BatchAbandoned ==
  ASSUME TypeOK, BatchInv, NEW s \in abandoned, AbandonedEnd(s)
  PROVE  BatchInv'
<1>0. /\ s.picked \in SUBSET Transfer
      /\ abandoned' = abandoned \ {s}
      /\ UNCHANGED <<step, picked, overlapped>>
  BY DEF AbandonedEnd, TypeOK, workerVars
<1>1. ~overlapped => /\ abandoned' = {} /\ s.picked \subseteq New
                     /\ \A c \in Worker : step[c] # "commit"
  BY <1>0 DEF BatchInv, OneStatement
<1>2. ~overlapped => OneStatement'
  BY <1>0, <1>1 DEF OneStatement
<1>3. CASE Commit(s.picked)
  BY <1>0, <1>1, <1>2, <1>3, CommitDisjoint DEF BatchInv
<1>4. CASE UNCHANGED tableVars
  <2>1. Batched' = Batched /\ batch' = batch
    BY <1>4 DEF Batched, tableVars
  <2> QED BY <1>0, <1>2, <2>1 DEF BatchInv, BatchesMarked, Disjoint
<1> QED BY <1>3, <1>4 DEF AbandonedEnd

\* The statements of a process that stops run on without a caller.
LEMMA BatchRestart ==
  ASSUME TypeOK, BatchInv, Restart
  PROVE  BatchInv'
<1>1. /\ UNCHANGED <<transferStatus, batch, overlapped>>
      /\ \A c \in Worker : step'[c] # "commit"
  BY DEF Restart, tableVars
<1>2. Batched' = Batched /\ New' = New
  BY <1>1 DEF Batched, New
<1>3. BatchesMarked' /\ (~overlapped => Disjoint')
  BY <1>1, <1>2 DEF BatchInv, BatchesMarked, Disjoint
<1>4. ASSUME ~overlapped PROVE OneStatement'
  <2>1. OneStatement
    BY <1>4 DEF BatchInv
  <2>2. \A s \in abandoned' :
          s \in abandoned \/ \E c \in Worker : step[c] = "commit" /\ s = Statement(c)
    BY DEF Restart
  <2>3. \A s \in abandoned' : s.picked \subseteq New
    BY <2>1, <2>2, StatementType DEF OneStatement
  <2>4. \A r, s \in abandoned' : r = s
    BY <2>1, <2>2 DEF OneStatement
  <2> QED BY <1>1, <1>2, <2>3, <2>4 DEF OneStatement
<1> QED BY <1>1, <1>3, <1>4 DEF BatchInv

LEMMA BatchStep == TypeOK /\ BatchInv /\ [Next]_vars => BatchInv'
<1> SUFFICES ASSUME TypeOK, BatchInv, [Next]_vars PROVE BatchInv'
  OBVIOUS
<1>0. step \in [Worker -> Step]
  BY DEF TypeOK
<1>1. ASSUME UNCHANGED <<transferStatus, batch, abandoned, overlapped>>,
             \A c \in Worker : step'[c] = "commit" => step[c] = "commit" /\ picked'[c] = picked[c]
      PROVE  BatchInv'
  <2>1. Batched' = Batched /\ New' = New
    BY <1>1 DEF Batched, New
  <2> QED BY <1>1, <2>1, BatchQuiet
<1>2. CASE UNCHANGED vars
  BY <1>1, <1>2 DEF vars, tableVars, stmtVars, workerVars
<1>3. CASE (\E m \in Msg : Publish(m)) \/ ConnLost \/ CloseChannel \/ Take
  BY <1>1, <1>3 DEF Publish, ConnLost, CloseChannel, Take, tableVars, stmtVars, workerVars
<1>4. CASE Connect
  BY <1>0, <1>1, <1>4 DEF Connect, tableVars, stmtVars
<1>5. ASSUME NEW c \in Worker,
             OpenChannel(c) \/ End(c) \/ Deliver(c) \/ Ack(c) \/ Timer(c) \/ Push(c)
      PROVE  BatchInv'
  <2>1. UNCHANGED <<transferStatus, batch, abandoned, overlapped, picked>>
    BY <1>5 DEF OpenChannel, End, Deliver, Ack, Timer, Push, tableVars, stmtVars
  <2>2. \A d \in Worker : step'[d] = "commit" => step[d] = "commit"
    BY <1>0, <1>5 DEF OpenChannel, End, Deliver, Ack, AfterMessage, Timer, Push, Goto
  <2> QED BY <1>1, <2>1, <2>2
<1>6. CASE Restart
  BY <1>6, BatchRestart
<1> QED BY <1>2, <1>3, <1>4, <1>5, <1>6, BatchPersist, BatchStart, BatchEnd, BatchAbandoned
        DEF Next, Run

\* No transfer gets into two batches as long as NextBatch statements do not
\* overlap, whoever issues them: the worker of a new connection, one of an old
\* connection, or one whose caller was told that it failed.
THEOREM InOneBatchAlways == Spec => []InOneBatch
<1>1. Init => BatchInv
  BY DEF Init, BatchInv, BatchesMarked, OneStatement, Disjoint
<1>2. BatchInv => InOneBatch
  BY DEF BatchInv, Disjoint, InOneBatch
<1> QED BY <1>1, <1>2, BatchStep, TypeCorrect, PTL DEF Spec

=============================================================================

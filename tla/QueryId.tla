------------------------------- MODULE QueryId -------------------------------
(***************************************************************************)
(* The query id of the high-load wallet: a pair (shift, bitnumber) that    *)
(* GetNext walks in order, that is packed into one number when a message   *)
(* is recorded and unpacked from the last record when the process starts.  *)
(* The state machine hands out ids, records some of them and restarts; it  *)
(* implements module Numbering, by which module Sender counts.             *)
(***************************************************************************)
EXTENDS Naturals, FiniteSets

CONSTANTS
  RADIX,            \* 2^BIT_NUMBER_SIZE, 1024 in the code
  MAX_BIT_NUMBER,   \* 1022 in the code: bit number 1023 is never used
  MAX_SHIFT,        \* 8191 in the code
  NumWorkers        \* so many messages are under construction at most

ASSUME QueryIdAssumption ==
  /\ RADIX \in Nat
  /\ MAX_BIT_NUMBER \in Nat \ {0}
  /\ MAX_SHIFT \in Nat
  /\ MAX_BIT_NUMBER < RADIX
  /\ NumWorkers \in Nat

VARIABLES
  queryID,   \* Wallet.queryID, the last id handed out
  inHand,    \* ids of messages that are built and not recorded yet
  recorded   \* the column query_id of sender.external_message

vars == <<queryID, inHand, recorded>>

HighloadQueryID == [shift : 0 .. MAX_SHIFT, bitnumber : 0 .. MAX_BIT_NUMBER]

NewHighloadQueryID == [shift |-> 0, bitnumber |-> 0]

\* FromShiftAndBitNumber panics outside these ranges.
InRange(shift, bitnumber) == shift <= MAX_SHIFT /\ bitnumber <= MAX_BIT_NUMBER

HasNext(h) == ~(h.bitnumber >= MAX_BIT_NUMBER - 1 /\ h.shift = MAX_SHIFT)

\* GetNext returns an error instead of an id.
Overload(h) ==
  \/ h.shift = MAX_SHIFT /\ h.bitnumber + 1 > MAX_BIT_NUMBER - 1
  \/ h.bitnumber + 1 > MAX_BIT_NUMBER /\ h.shift + 1 > MAX_SHIFT

\* Faulty form: the bit number runs one past the last one the contract has.
GetNextPastLastBit(h) ==
  IF h.bitnumber > MAX_BIT_NUMBER
    THEN [shift |-> h.shift + 1, bitnumber |-> 0]
    ELSE [shift |-> h.shift, bitnumber |-> h.bitnumber + 1]

\* Faulty form: the carry into the shift is forgotten.
GetNextWithoutCarry(h) ==
  IF h.bitnumber + 1 > MAX_BIT_NUMBER
    THEN [shift |-> h.shift, bitnumber |-> 0]
    ELSE [shift |-> h.shift, bitnumber |-> h.bitnumber + 1]

\* The id GetNext returns when it returns no error.
GetNext(h) ==
  IF h.bitnumber + 1 > MAX_BIT_NUMBER
    THEN [shift |-> h.shift + 1, bitnumber |-> 0]
    ELSE [shift |-> h.shift, bitnumber |-> h.bitnumber + 1]

\* (shift << BIT_NUMBER_SIZE) + bitnumber
GetQueryID(h) == h.shift * RADIX + h.bitnumber

\* Faulty form: unpacks with the number of usable bits instead of the radix.
FromQueryIDWrongRadix(q) ==
  [shift |-> q \div (MAX_BIT_NUMBER + 1), bitnumber |-> q % (MAX_BIT_NUMBER + 1)]

\* FromQueryID: the halves of q; the caller panics when they are out of range.
FromQueryID(q) == [shift |-> q \div RADIX, bitnumber |-> q % RADIX]

ToSeqno(h) == h.bitnumber + h.shift * (MAX_BIT_NUMBER + 1)

FromSeqno(n) ==
  [shift |-> n \div (MAX_BIT_NUMBER + 1), bitnumber |-> n % (MAX_BIT_NUMBER + 1)]

------------------------------------------------------------------------------

\* GetLastQueryID: the id of the newest row, which may be any of them since
\* messages are recorded in any order; 0 without a row.
LastQueryIDs == IF recorded = {} THEN {0} ELSE recorded

Init ==
  /\ queryID = NewHighloadQueryID
  /\ inHand = {}
  /\ recorded = {}

\* Faulty form: the emergency id is handed out as well.
TakeWithoutReserve ==
  /\ Cardinality(inHand) < NumWorkers
  /\ ~(queryID.bitnumber >= MAX_BIT_NUMBER /\ queryID.shift = MAX_SHIFT)
  /\ queryID' = GetNext(queryID)
  /\ inHand' = inHand \cup {queryID'}
  /\ UNCHANGED recorded

\* The MessageBuilder callback: checked and advanced under the wallet's mutex.
Take ==
  /\ Cardinality(inHand) < NumWorkers
  /\ HasNext(queryID)
  /\ ~Overload(queryID)
  /\ queryID' = GetNext(queryID)
  /\ inHand' = inHand \cup {queryID'}
  /\ UNCHANGED recorded

\* The row of a message holds the packed id.
Persist(h) ==
  /\ h \in inHand
  /\ recorded' = recorded \cup {GetQueryID(h)}
  /\ inHand' = inHand \ {h}
  /\ UNCHANGED queryID

\* A message that could not be marked or recorded.
Drop(h) ==
  /\ h \in inHand
  /\ inHand' = inHand \ {h}
  /\ UNCHANGED <<queryID, recorded>>

\* initWallet: the process starts again from a recorded id.
Restore ==
  /\ \E q \in LastQueryIDs : queryID' = FromQueryID(q)
  /\ inHand' = {}
  /\ UNCHANGED recorded

Next == Take \/ (\E h \in inHand : Persist(h) \/ Drop(h)) \/ Restore

Spec == Init /\ [][Next]_vars

------------------------------------------------------------------------------

\* Type invariant. Its first conjunct is what FromShiftAndBitNumber panics
\* on, so no restart of the wallet panics on an id this program recorded.
TypeOK ==
  /\ queryID \in HighloadQueryID
  /\ inHand \subseteq HighloadQueryID
  /\ recorded \subseteq Nat

\* Every recorded id unpacks to a legal pair that packs to the same id again: a
\* restart continues exactly where the selected row was. (Whether that row
\* holds the largest id is a question to module Sender.)
RestoreIsExact ==
  \A q \in recorded :
    /\ InRange(FromQueryID(q).shift, FromQueryID(q).bitnumber)
    /\ GetQueryID(FromQueryID(q)) = q

\* One emergency id is kept: the largest pair is never handed out
\* (queryid_test.go expects the id before it to be the last).
EmergencyIdKept == ToSeqno(queryID) # MAX_SHIFT * (MAX_BIT_NUMBER + 1) + MAX_BIT_NUMBER

N == INSTANCE Numbering WITH
       LastSeqno <- MAX_SHIFT * (MAX_BIT_NUMBER + 1) + MAX_BIT_NUMBER - 1,
       last      <- ToSeqno(queryID),
       inHand    <- {ToSeqno(h) : h \in inHand},
       recorded  <- {ToSeqno(FromQueryID(q)) : q \in recorded}

\* By their sequence numbers the ids are handed out one after the other, none
\* left out or repeated at a carry, up to the one before the emergency id, and
\* a restart continues after a number that was recorded: packing, unpacking
\* and the rules of HasNext and GetNext may be forgotten, as module Sender does.
NumbersInOrder == N!Spec

==============================================================================

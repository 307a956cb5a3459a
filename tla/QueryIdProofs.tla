--------------------------- MODULE QueryIdProofs ---------------------------
(***************************************************************************)
(* Theorems about query ids, for every radix and every range.              *)
(***************************************************************************)
EXTENDS QueryId, Integers, TLAPS

LEMMA DivMod ==
  ASSUME NEW r \in Nat, NEW s \in Nat, NEW b \in Nat, b < r
  PROVE  (s * r + b) \div r = s /\ (s * r + b) % r = b
OBVIOUS

LEMMA ProductGrows ==
  ASSUME NEW r \in Nat, NEW s \in Nat, NEW t \in Nat, s < t
  PROVE  s * r + r <= t * r
<1>1. (s + 1) * r = s * r + r
  OBVIOUS
<1>2. s + 1 <= t
  OBVIOUS
<1>3. PICK d \in Nat : t = s + 1 + d
  BY <1>2
<1>4. t * r = (s + 1) * r + d * r /\ d * r \in Nat /\ (s + 1) * r \in Nat
  BY <1>3
<1> QED BY <1>1, <1>4

LEMMA Fields ==
  ASSUME NEW h \in HighloadQueryID
  PROVE  /\ h.shift \in Nat /\ h.shift <= MAX_SHIFT
         /\ h.bitnumber \in Nat /\ h.bitnumber <= MAX_BIT_NUMBER
         /\ h = [shift |-> h.shift, bitnumber |-> h.bitnumber]
BY QueryIdAssumption DEF HighloadQueryID

\* Packing and unpacking an id is exact.
LEMMA RoundTrip ==
  ASSUME NEW h \in HighloadQueryID
  PROVE  GetQueryID(h) \in Nat /\ FromQueryID(GetQueryID(h)) = h
<1>1. /\ h.shift \in Nat /\ h.bitnumber \in Nat /\ h.bitnumber < RADIX
      /\ h = [shift |-> h.shift, bitnumber |-> h.bitnumber]
  BY Fields, QueryIdAssumption
<1>2. (h.shift * RADIX + h.bitnumber) \div RADIX = h.shift
      /\ (h.shift * RADIX + h.bitnumber) % RADIX = h.bitnumber
  BY <1>1, DivMod, QueryIdAssumption
<1>3. h.shift * RADIX + h.bitnumber \in Nat
  BY <1>1, QueryIdAssumption
<1> QED BY <1>1, <1>2, <1>3 DEF GetQueryID, FromQueryID

\* So is the sequence numbering.
LEMMA SeqnoRoundTrip ==
  ASSUME NEW h \in HighloadQueryID
  PROVE  FromSeqno(ToSeqno(h)) = h
<1>1. /\ h.shift \in Nat /\ h.bitnumber \in Nat /\ h.bitnumber < MAX_BIT_NUMBER + 1
      /\ MAX_BIT_NUMBER + 1 \in Nat
      /\ h = [shift |-> h.shift, bitnumber |-> h.bitnumber]
  BY Fields, QueryIdAssumption
<1>2. (h.shift * (MAX_BIT_NUMBER + 1) + h.bitnumber) \div (MAX_BIT_NUMBER + 1) = h.shift
      /\ (h.shift * (MAX_BIT_NUMBER + 1) + h.bitnumber) % (MAX_BIT_NUMBER + 1) = h.bitnumber
  BY <1>1, DivMod
<1>3. ToSeqno(h) = h.shift * (MAX_BIT_NUMBER + 1) + h.bitnumber
  BY <1>1 DEF ToSeqno
<1> QED BY <1>1, <1>2, <1>3 DEF FromSeqno

\* An id that must never be handed out.
Emergency(h) == h.shift = MAX_SHIFT /\ h.bitnumber = MAX_BIT_NUMBER

\* What GetNext returns when neither HasNext nor GetNext refuses.
LEMMA Successor ==
  ASSUME NEW h \in HighloadQueryID, HasNext(h), ~Overload(h)
  PROVE  /\ GetNext(h) \in HighloadQueryID
         /\ ~Emergency(GetNext(h))
         /\ GetQueryID(GetNext(h)) > GetQueryID(h)
         /\ ToSeqno(GetNext(h)) = ToSeqno(h) + 1
<1> DEFINE s == h.shift
           b == h.bitnumber
<1>1. /\ s \in Nat /\ s <= MAX_SHIFT /\ b \in Nat /\ b <= MAX_BIT_NUMBER
      /\ MAX_SHIFT \in Nat /\ MAX_BIT_NUMBER \in Nat \ {0} /\ RADIX \in Nat
      /\ MAX_BIT_NUMBER < RADIX
  BY Fields, QueryIdAssumption
<1>2. CASE b + 1 > MAX_BIT_NUMBER
  <2>1. GetNext(h) = [shift |-> s + 1, bitnumber |-> 0] /\ b = MAX_BIT_NUMBER
    BY <1>1, <1>2 DEF GetNext
  <2>2. s + 1 <= MAX_SHIFT
    BY <1>1, <1>2 DEF Overload
  <2>3. (s + 1) * RADIX = s * RADIX + RADIX /\ s * RADIX \in Nat
    BY <1>1
  <2>4. (s + 1) * (MAX_BIT_NUMBER + 1) = s * (MAX_BIT_NUMBER + 1) + (MAX_BIT_NUMBER + 1)
        /\ s * (MAX_BIT_NUMBER + 1) \in Nat
    BY <1>1
  <2>5. GetNext(h) \in HighloadQueryID /\ ~Emergency(GetNext(h))
    BY <1>1, <2>1, <2>2 DEF HighloadQueryID, Emergency
  <2>6. GetQueryID(GetNext(h)) = (s + 1) * RADIX /\ GetQueryID(h) = s * RADIX + b
    BY <1>1, <2>1 DEF GetQueryID
  <2>7. ToSeqno(GetNext(h)) = (s + 1) * (MAX_BIT_NUMBER + 1)
        /\ ToSeqno(h) = s * (MAX_BIT_NUMBER + 1) + MAX_BIT_NUMBER
    BY <1>1, <2>1 DEF ToSeqno
  <2> QED BY <1>1, <2>1, <2>3, <2>4, <2>5, <2>6, <2>7
<1>3. CASE ~(b + 1 > MAX_BIT_NUMBER)
  <2>1. GetNext(h) = [shift |-> s, bitnumber |-> b + 1] /\ b + 1 <= MAX_BIT_NUMBER
    BY <1>1, <1>3 DEF GetNext
  <2>2. s * RADIX \in Nat /\ s * (MAX_BIT_NUMBER + 1) \in Nat
    BY <1>1
  <2>3. GetNext(h) \in HighloadQueryID
    BY <1>1, <2>1 DEF HighloadQueryID
  <2>4. ~Emergency(GetNext(h))
    BY <1>1, <2>1 DEF Emergency, HasNext
  <2>5. GetQueryID(GetNext(h)) = s * RADIX + (b + 1) /\ GetQueryID(h) = s * RADIX + b
    BY <2>1 DEF GetQueryID
  <2>6. ToSeqno(GetNext(h)) = (b + 1) + s * (MAX_BIT_NUMBER + 1)
        /\ ToSeqno(h) = b + s * (MAX_BIT_NUMBER + 1)
    BY <2>1 DEF ToSeqno
  <2> QED BY <1>1, <2>2, <2>3, <2>4, <2>5, <2>6
<1> QED BY <1>2, <1>3

-----------------------------------------------------------------------------

\* The largest number that is handed out.
Last == MAX_SHIFT * (MAX_BIT_NUMBER + 1) + MAX_BIT_NUMBER - 1

\* The emergency id is the largest one.
LEMMA EmergencyIsLast ==
  ASSUME NEW h \in HighloadQueryID, ~Emergency(h)
  PROVE  ToSeqno(h) \in Nat /\ Last \in Int /\ ToSeqno(h) <= Last
<1> DEFINE s == h.shift
           b == h.bitnumber
           k == MAX_BIT_NUMBER + 1
<1>1. /\ s \in Nat /\ s <= MAX_SHIFT /\ b \in Nat /\ b <= MAX_BIT_NUMBER
      /\ MAX_SHIFT \in Nat /\ MAX_BIT_NUMBER \in Nat /\ k \in Nat
  BY Fields, QueryIdAssumption
<1>2. s * k \in Nat /\ MAX_SHIFT * k \in Nat
  BY <1>1
<1>3. b + s * k <= MAX_SHIFT * k + MAX_BIT_NUMBER - 1
  <2>1. CASE s = MAX_SHIFT
    <3>1. b # MAX_BIT_NUMBER
      BY <2>1 DEF Emergency
    <3> QED BY <1>1, <1>2, <2>1, <3>1
  <2>2. CASE s # MAX_SHIFT
    <3>1. s < MAX_SHIFT
      BY <1>1, <2>2
    <3>2. s * k + k <= MAX_SHIFT * k
      BY <1>1, <3>1, ProductGrows
    <3> QED BY <1>1, <1>2, <3>2
  <2> QED BY <2>1, <2>2
<1> QED BY <1>1, <1>2, <1>3 DEF ToSeqno, Last

\* A number stands for one id.
LEMMA SeqnoIsExact ==
  ASSUME NEW g \in HighloadQueryID, NEW h \in HighloadQueryID, ToSeqno(g) = ToSeqno(h)
  PROVE  g = h
BY SeqnoRoundTrip

-----------------------------------------------------------------------------

\* A recorded number that is a packed legal id other than the emergency id.
Legal(q) == \E h \in HighloadQueryID : q = GetQueryID(h) /\ ~Emergency(h)

\* Inductive: every id in the wallet, in a worker's hands or in a row is legal.
IdInv ==
  /\ queryID \in HighloadQueryID /\ ~Emergency(queryID)
  /\ \A h \in inHand : h \in HighloadQueryID /\ ~Emergency(h)
  /\ \A q \in recorded : Legal(q)

LEMMA FirstIsLegal ==
  /\ NewHighloadQueryID \in HighloadQueryID /\ ~Emergency(NewHighloadQueryID)
  /\ GetQueryID(NewHighloadQueryID) = 0 /\ ToSeqno(NewHighloadQueryID) = 0
<1>1. NewHighloadQueryID \in HighloadQueryID /\ ~Emergency(NewHighloadQueryID)
  BY QueryIdAssumption DEF NewHighloadQueryID, HighloadQueryID, Emergency
<1> QED BY <1>1, QueryIdAssumption DEF GetQueryID, ToSeqno, NewHighloadQueryID

\* What a restart can find.
LEMMA LastIsLegal ==
  ASSUME IdInv, NEW q \in LastQueryIDs
  PROVE  Legal(q)
BY FirstIsLegal DEF IdInv, LastQueryIDs, Legal

LEMMA IdInvStep == IdInv /\ [Next]_vars => IdInv'
<1> SUFFICES ASSUME IdInv, [Next]_vars PROVE IdInv'
  OBVIOUS
<1>1. CASE UNCHANGED vars
  BY <1>1 DEF IdInv, vars
<1>2. CASE Take
  <2>1. GetNext(queryID) \in HighloadQueryID /\ ~Emergency(GetNext(queryID))
    BY <1>2, Successor DEF Take, IdInv
  <2> QED BY <1>2, <2>1 DEF Take, IdInv
<1>3. ASSUME NEW h \in inHand, Persist(h) PROVE IdInv'
  <2>1. Legal(GetQueryID(h))
    BY DEF IdInv, Legal
  <2> QED BY <1>3, <2>1 DEF Persist, IdInv
<1>4. ASSUME NEW h \in inHand, Drop(h) PROVE IdInv'
  BY <1>4 DEF Drop, IdInv
<1>5. CASE Restore
  <2>1. PICK q \in LastQueryIDs : queryID' = FromQueryID(q)
    BY <1>5 DEF Restore
  <2>2. PICK h \in HighloadQueryID : q = GetQueryID(h) /\ ~Emergency(h)
    BY LastIsLegal DEF Legal
  <2>3. queryID' = h
    BY <2>1, <2>2, RoundTrip
  <2> QED BY <1>5, <2>2, <2>3 DEF Restore, IdInv
<1> QED BY <1>1, <1>2, <1>3, <1>4, <1>5 DEF Next

LEMMA IdInvAlways == Spec => []IdInv
<1>1. Init => IdInv
  BY FirstIsLegal DEF Init, IdInv
<1> QED BY <1>1, IdInvStep, PTL DEF Spec

\* The wallet always holds a legal pair.
THEOREM TypeCorrect == Spec => []TypeOK
<1>1. IdInv => TypeOK
  BY RoundTrip DEF IdInv, TypeOK, Legal
<1> QED BY <1>1, IdInvAlways, PTL

\* A restart never panics on a recorded id and restores exactly the pair that
\* was recorded, for every radix and every range.
THEOREM RestoreIsExactAlways == Spec => []RestoreIsExact
<1>1. IdInv => RestoreIsExact
  <2> SUFFICES ASSUME IdInv, NEW q \in recorded
               PROVE  /\ InRange(FromQueryID(q).shift, FromQueryID(q).bitnumber)
                      /\ GetQueryID(FromQueryID(q)) = q
    BY DEF RestoreIsExact
  <2>1. PICK h \in HighloadQueryID : q = GetQueryID(h)
    BY DEF IdInv, Legal
  <2>2. FromQueryID(q) = h
    BY <2>1, RoundTrip
  <2> QED BY <2>1, <2>2, Fields DEF InRange
<1> QED BY <1>1, IdInvAlways, PTL

\* The largest id is never handed out, whatever the radix and the ranges are.
THEOREM EmergencyIdKeptAlways == Spec => []EmergencyIdKept
<1>1. IdInv => EmergencyIdKept
  <2> SUFFICES ASSUME IdInv PROVE EmergencyIdKept
    OBVIOUS
  <2>1. ToSeqno(queryID) \in Nat /\ Last \in Int /\ ToSeqno(queryID) <= Last
    BY EmergencyIsLast DEF IdInv
  <2>2. MAX_SHIFT * (MAX_BIT_NUMBER + 1) \in Nat /\ MAX_BIT_NUMBER \in Nat
    BY QueryIdAssumption
  <2> QED BY <2>1, <2>2 DEF EmergencyIdKept, Last
<1> QED BY <1>1, IdInvAlways, PTL

-----------------------------------------------------------------------------
(***************************************************************************)
(* NumbersInOrder: ids implement Numbering                                 *)
(***************************************************************************)

LEMMA NumberingInit == Init => N!Init
BY FirstIsLegal DEF Init, N!Init

LEMMA NumberingTake ==
  ASSUME IdInv, Take
  PROVE  N!Take
<1>1. /\ GetNext(queryID) \in HighloadQueryID /\ ~Emergency(GetNext(queryID))
      /\ ToSeqno(GetNext(queryID)) = ToSeqno(queryID) + 1
  BY Successor DEF Take, IdInv
<1>2. ToSeqno(queryID) < Last
  <2>1. ToSeqno(queryID) \in Nat /\ Last \in Int
    BY EmergencyIsLast DEF IdInv
  <2>2. ToSeqno(queryID) + 1 <= Last
    BY <1>1, EmergencyIsLast
  <2> QED BY <2>1, <2>2
<1>3. ToSeqno(queryID') = ToSeqno(queryID) + 1
  BY <1>1 DEF Take
<1>4. {ToSeqno(h) : h \in inHand'} = {ToSeqno(h) : h \in inHand} \cup {ToSeqno(queryID')}
  BY DEF Take
<1> QED BY <1>2, <1>3, <1>4 DEF N!Take, Last, Take

LEMMA NumberingHand ==
  ASSUME IdInv, NEW h \in inHand, inHand' = inHand \ {h}
  PROVE  {ToSeqno(g) : g \in inHand'} = {ToSeqno(g) : g \in inHand} \ {ToSeqno(h)}
<1>1. \A g \in inHand : ToSeqno(g) = ToSeqno(h) => g = h
  BY SeqnoIsExact DEF IdInv
<1> QED BY <1>1

LEMMA NumberingStep ==
  ASSUME IdInv, [Next]_vars
  PROVE  [N!Next]_N!vars
<1>1. CASE Take
  BY <1>1, NumberingTake DEF N!Next
<1>2. ASSUME NEW h \in inHand, Persist(h) PROVE N!Next
  <2>1. {ToSeqno(g) : g \in inHand'} = {ToSeqno(g) : g \in inHand} \ {ToSeqno(h)}
    BY <1>2, NumberingHand DEF Persist
  <2>2. FromQueryID(GetQueryID(h)) = h
    BY RoundTrip DEF IdInv
  <2>3. {ToSeqno(FromQueryID(q)) : q \in recorded'} =
          {ToSeqno(FromQueryID(q)) : q \in recorded} \cup {ToSeqno(h)}
    BY <1>2, <2>2 DEF Persist
  <2>4. N!Record(ToSeqno(h))
    BY <1>2, <2>1, <2>3 DEF N!Record, Persist
  <2> QED BY <2>4 DEF N!Next
<1>3. ASSUME NEW h \in inHand, Drop(h) PROVE N!Next
  <2>1. {ToSeqno(g) : g \in inHand'} = {ToSeqno(g) : g \in inHand} \ {ToSeqno(h)}
    BY <1>3, NumberingHand DEF Drop
  <2>2. N!Drop(ToSeqno(h))
    BY <1>3, <2>1 DEF N!Drop, Drop
  <2> QED BY <2>2 DEF N!Next
<1>4. CASE Restore
  <2>1. PICK q \in LastQueryIDs : queryID' = FromQueryID(q)
    BY <1>4 DEF Restore
  <2>2. ToSeqno(queryID') = ToSeqno(FromQueryID(q))
    BY <2>1
  <2>3. ToSeqno(queryID') \in IF {ToSeqno(FromQueryID(p)) : p \in recorded} = {} THEN {0}
                              ELSE {ToSeqno(FromQueryID(p)) : p \in recorded}
    <3>1. CASE recorded = {}
      <4>1. q = 0 /\ FromQueryID(0) = NewHighloadQueryID
        BY <3>1, FirstIsLegal, RoundTrip DEF LastQueryIDs
      <4> QED BY <2>2, <3>1, <4>1, FirstIsLegal
    <3>2. CASE recorded # {}
      BY <2>2, <3>2 DEF LastQueryIDs
    <3> QED BY <3>1, <3>2
  <2>4. N!Restart
    BY <1>4, <2>3 DEF N!Restart, Restore
  <2> QED BY <2>4 DEF N!Next
<1>5. CASE UNCHANGED vars
  BY <1>5 DEF vars, N!vars
<1> QED BY <1>1, <1>2, <1>3, <1>4, <1>5 DEF Next

\* By their sequence numbers the ids are handed out one after the other up to
\* the one before the emergency id, and a restart continues after a recorded
\* one: for every radix, range and number of workers GetNext, HasNext,
\* GetQueryID and FromQueryID implement counting.
THEOREM NumbersInOrderAlways == Spec => NumbersInOrder
<1>1. IdInv /\ [Next]_vars => [N!Next]_N!vars
  BY NumberingStep
<1> QED BY <1>1, NumberingInit, IdInvAlways, PTL DEF Spec, NumbersInOrder, N!Spec

=============================================================================

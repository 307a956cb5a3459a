------------------------------ MODULE Numbering ------------------------------
(***************************************************************************)
(* How the messages of a wallet are numbered: one after the other, from    *)
(* the number of some recorded message on when the process starts, and     *)
(* never past the last one. Module QueryId implements it with the packed   *)
(* pairs of the code, module Sender with its workers.                      *)
(***************************************************************************)
EXTENDS Naturals

CONSTANT LastSeqno   \* the last number that is given to a message

VARIABLES
  last,      \* the number the next message is counted from
  inHand,    \* numbers of messages under construction
  recorded   \* numbers of recorded messages

vars == <<last, inHand, recorded>>

Init == last = 0 /\ inHand = {} /\ recorded = {}

Take ==
  /\ last < LastSeqno
  /\ last' = last + 1
  /\ inHand' = inHand \cup {last + 1}
  /\ UNCHANGED recorded

Record(n) ==
  /\ n \in inHand
  /\ recorded' = recorded \cup {n}
  /\ inHand' = inHand \ {n}
  /\ UNCHANGED last

\* A message that is not recorded takes its number with it.
Drop(n) ==
  /\ n \in inHand
  /\ inHand' = inHand \ {n}
  /\ UNCHANGED <<last, recorded>>

Restart ==
  /\ last' \in IF recorded = {} THEN {0} ELSE recorded
  /\ inHand' = {}
  /\ UNCHANGED recorded

Next == Take \/ (\E n \in inHand : Record(n) \/ Drop(n)) \/ Restart

Spec == Init /\ [][Next]_vars

==============================================================================

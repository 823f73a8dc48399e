-------------------------------- MODULE Deque --------------------------------
(***************************************************************************)
(* What the clients of LoopQueue.hh rely on: a bounded double-ended list   *)
(* of the entries that are live, oldest first.  The ROB, the load queue,   *)
(* the store queue and the decode queue append at the young end, retire    *)
(* from the old end and squash from the young end.                         *)
(***************************************************************************)
EXTENDS Integers, Sequences

CONSTANTS
  Capacity,  \* number of entries
  Data       \* values of an entry

VARIABLE live  \* the live entries, oldest first

Init == live = << >>

Append1(d) == Len(live) < Capacity /\ live' = Append(live, d)

DropOldest == live # << >> /\ live' = Tail(live)

DropYoungest == live # << >> /\ live' = SubSeq(live, 1, Len(live) - 1)

Update(i, d) == i \in 1..Len(live) /\ live' = [live EXCEPT ![i] = d]

Clear == live' = << >>

Next ==
  \/ \E d \in Data : Append1(d)
  \/ DropOldest
  \/ DropYoungest
  \/ \E i \in 1..Len(live), d \in Data : Update(i, d)
  \/ Clear

Spec == Init /\ [][Next]_live
=============================================================================

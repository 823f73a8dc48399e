------------------------------ MODULE LoopQueue ------------------------------
(***************************************************************************)
(* src/Processor/Component/LoopQueue.hh: the circular buffer behind the    *)
(* re-order buffer, the load and store queues and the decode queue.        *)
(*                                                                         *)
(* m_header and m_tail are the slots of the oldest entry and of the next   *)
(* entry, m_usage counts the live ones.  A slot number is also the tag by  *)
(* which the rest of the core names an entry, and IsOlder compares two     *)
(* tags; the tags it is given may belong to entries already squashed.      *)
(* The DASSERTs of Push, Allocate, Pop and RollBack are the guards.        *)
(***************************************************************************)
EXTENDS Integers, Sequences

CONSTANTS
  Size,   \* m_dataVec.size(): the depth given to the constructor
  Data,   \* the values an entry can hold
  Blank   \* T(): what resize leaves in a slot

ASSUME SizeAssumption == Size \in Nat \ {0}
ASSUME BlankAssumption == Blank \in Data

VARIABLES
  dataVec,  \* m_dataVec
  header,   \* m_header
  tail,     \* m_tail
  usage     \* m_usage

vars == <<dataVec, header, tail, usage>>

Slots == 0..(Size - 1)

(* Variants whose names begin with Bad are injected faults: each breaks    *)
(* one definition the way a slip in the code would, to see a property fail.*)
BadGetNextPtr(p) == p + 1
GetNextPtr(p) == IF p = Size - 1 THEN 0 ELSE p + 1
GetLastPtr(p) == IF p = 0 THEN Size - 1 ELSE p - 1
GetLastest == GetLastPtr(tail)

Full == usage = Size
Empty == usage = 0

BadIsOlder(tag1, tag2) == tag1 < tag2
IsOlder(tag1, tag2) ==
  IF (tag1 >= header) # (tag2 >= header) THEN tag1 > tag2 ELSE tag1 < tag2

-----------------------------------------------------------------------------
(* Age is the reference IsOlder is held against: how many entries were     *)
(* pushed before this one among those a walk from the header meets.        *)
Age(p) == IF p >= header THEN p - header ELSE p - header + Size
Live(p) == p \in Slots /\ Age(p) < usage
SlotAt(i) == IF header + i >= Size THEN header + i - Size ELSE header + i

-----------------------------------------------------------------------------
BadReset ==
  /\ dataVec' = [p \in Slots |-> Blank]
  /\ tail' = 0
  /\ usage' = 0
  /\ UNCHANGED header

Reset ==
  /\ dataVec' = [p \in Slots |-> Blank]
  /\ header' = 0
  /\ tail' = 0
  /\ usage' = 0

Init ==
  /\ dataVec = [p \in Slots |-> Blank]
  /\ header = 0
  /\ tail = 0
  /\ usage = 0

HeaderInc == header' = GetNextPtr(header) /\ usage' = usage - 1
TailInc == tail' = GetNextPtr(tail) /\ usage' = usage + 1

BadPush(d) ==
  /\ ~Full
  /\ TailInc
  /\ dataVec' = [dataVec EXCEPT ![tail'] = d]
  /\ UNCHANGED header

Push(d) ==
  /\ ~Full
  /\ dataVec' = [dataVec EXCEPT ![tail] = d]
  /\ TailInc
  /\ UNCHANGED header

(* Allocate hands out the slot and leaves in it what was there before.     *)
Allocate ==
  /\ ~Full
  /\ TailInc
  /\ UNCHANGED <<dataVec, header>>

Pop ==
  /\ ~Empty
  /\ HeaderInc
  /\ UNCHANGED <<dataVec, tail>>

RollBack ==
  /\ ~Empty
  /\ tail' = (IF tail = 0 THEN Size - 1 ELSE tail - 1)
  /\ usage' = usage - 1
  /\ UNCHANGED <<dataVec, header>>

(* operator[] gives a reference to any slot, live or not.                  *)
Write(pos, d) ==
  /\ dataVec' = [dataVec EXCEPT ![pos] = d]
  /\ UNCHANGED <<header, tail, usage>>

Next ==
  \/ Reset
  \/ \E d \in Data : Push(d)
  \/ Allocate
  \/ Pop
  \/ RollBack
  \/ \E pos \in Slots, d \in Data : Write(pos, d)

Spec == Init /\ [][Next]_vars

-----------------------------------------------------------------------------
TypeOK ==
  /\ dataVec \in [Slots -> Data]
  /\ header \in Slots
  /\ tail \in Slots
  /\ usage \in 0..Size

(* The three cursors agree: the tail is usage slots after the header, so   *)
(* full and empty (which the code tells apart by m_usage alone) never      *)
(* contradict the pointers after any mix of Push, Pop, RollBack and Reset. *)
CursorsAgree == tail = IF usage = Size THEN header ELSE SlotAt(usage)

(* isOlder is program order: for any two tags, live or squashed, it says   *)
(* which slot a walk from the header meets first.  This is what makes the  *)
(* test of Rcu::WriteBack, a tag not younger than the youngest live entry, *)
(* reject exactly the tags of squashed instructions.                       *)
IsOlderIsProgramOrder ==
  \A tag1, tag2 \in Slots :
    /\ IsOlder(tag1, tag2) <=> Age(tag1) < Age(tag2)
    /\ (~Empty /\ tag2 = GetLastest) =>
         (IsOlder(tag1, tag2) \/ tag1 = tag2 <=> Live(tag1))

(* The live entries, oldest first: the refinement mapping to Deque.        *)
LiveEntries == [i \in 1..usage |-> dataVec[SlotAt(i - 1)]]

D == INSTANCE Deque WITH Capacity <- Size, live <- LiveEntries

(* The circular buffer implements the double-ended list: no wrap-around    *)
(* loses, repeats or reorders an entry.                                    *)
ImplementsDeque == D!Spec
=============================================================================

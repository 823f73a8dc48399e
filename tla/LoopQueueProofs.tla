--------------------------- MODULE LoopQueueProofs ---------------------------
(***************************************************************************)
(* Proofs about LoopQueue for every depth and every type of entry.         *)
(***************************************************************************)
EXTENDS LoopQueue, TLAPS

-----------------------------------------------------------------------------
(* The cursors.                                                            *)

Inv == TypeOK /\ CursorsAgree

LEMMA InitInv == Init => Inv
  BY SizeAssumption, BlankAssumption
  DEF Init, Inv, TypeOK, CursorsAgree, SlotAt, Slots

LEMMA NextInv == Inv /\ [Next]_vars => Inv'
<1> SUFFICES ASSUME Inv, [Next]_vars
             PROVE  Inv'
  OBVIOUS
<1> USE SizeAssumption, BlankAssumption
    DEF Inv, TypeOK, CursorsAgree, SlotAt, Slots
<1>1. CASE Reset
  BY <1>1 DEF Reset
<1>2. ASSUME NEW d \in Data, Push(d)
      PROVE  Inv'
  <2>1. dataVec' \in [Slots -> Data]
    BY <1>2 DEF Push
  <2>2. QED
    BY <1>2, <2>1 DEF Push, Full, TailInc, GetNextPtr
<1>3. CASE Allocate
  BY <1>3 DEF Allocate, Full, TailInc, GetNextPtr
<1>4. CASE Pop
  BY <1>4 DEF Pop, Empty, HeaderInc, GetNextPtr
<1>5. CASE RollBack
  BY <1>5 DEF RollBack, Empty
<1>6. ASSUME NEW pos \in Slots, NEW d \in Data, Write(pos, d)
      PROVE  Inv'
  <2>1. dataVec' \in [Slots -> Data]
    BY <1>6 DEF Write
  <2>2. QED
    BY <1>6, <2>1 DEF Write
<1>7. CASE UNCHANGED vars
  BY <1>7 DEF vars
<1>8. QED
  BY <1>1, <1>2, <1>3, <1>4, <1>5, <1>6, <1>7 DEF Next

(* The cursors stay within the vector and agree with the count of live     *)
(* entries, whatever mix of operations the clients perform.                *)
THEOREM CursorsCorrect == Spec => [](TypeOK /\ CursorsAgree)
  BY InitInv, NextInv, PTL DEF Spec, Inv

(* No operation takes a cursor out of the vector or the count out of its   *)
(* range, though RollBack and Pop move them without looking at each other. *)
THEOREM QueueTypeCorrect == Spec => []TypeOK
  BY CursorsCorrect, PTL

-----------------------------------------------------------------------------
(* The order of tags.                                                      *)

(* isOlder compares distances from the header, for any two slots.          *)
LEMMA IsOlderByAge ==
  ASSUME header \in Slots, NEW t1 \in Slots, NEW t2 \in Slots
  PROVE  IsOlder(t1, t2) <=> Age(t1) < Age(t2)
  BY SizeAssumption DEF IsOlder, Age, Slots

(* Two slots at the same distance from the header are the same slot.       *)
LEMMA AgeInjective ==
  ASSUME header \in Slots, NEW t1 \in Slots, NEW t2 \in Slots,
         Age(t1) = Age(t2)
  PROVE  t1 = t2
  BY SizeAssumption DEF Age, Slots

(* The youngest live entry is at distance usage - 1.                       *)
LEMMA AgeOfLastest ==
  ASSUME Inv, ~Empty
  PROVE  GetLastest \in Slots /\ Age(GetLastest) = usage - 1
  BY SizeAssumption
  DEF Inv, TypeOK, CursorsAgree, SlotAt, Empty, GetLastest, GetLastPtr, Age,
      Slots

LEMMA OrderFromInv == Inv => IsOlderIsProgramOrder
<1> SUFFICES ASSUME Inv, NEW tag1 \in Slots, NEW tag2 \in Slots
             PROVE  /\ IsOlder(tag1, tag2) <=> Age(tag1) < Age(tag2)
                    /\ (~Empty /\ tag2 = GetLastest) =>
                         (IsOlder(tag1, tag2) \/ tag1 = tag2 <=> Live(tag1))
  BY DEF IsOlderIsProgramOrder
<1>1. IsOlder(tag1, tag2) <=> Age(tag1) < Age(tag2)
  BY IsOlderByAge DEF Inv, TypeOK
<1>2. ASSUME ~Empty, tag2 = GetLastest
      PROVE  IsOlder(tag1, tag2) \/ tag1 = tag2 <=> Live(tag1)
  <2>1. Age(tag2) = usage - 1
    BY <1>2, AgeOfLastest
  <2>2. Age(tag1) \in Int /\ usage \in Int
    BY SizeAssumption DEF Inv, TypeOK, Age, Slots
  <2>3. Age(tag1) = Age(tag2) <=> tag1 = tag2
    BY AgeInjective DEF Inv, TypeOK
  <2>4. QED
    BY <1>1, <2>1, <2>2, <2>3 DEF Live
<1>3. QED
  BY <1>1, <1>2

(* In every reachable state isOlder is program order, and "not younger     *)
(* than the youngest live entry" is exactly "live".                        *)
THEOREM IsOlderCorrect == Spec => []IsOlderIsProgramOrder
  BY InitInv, NextInv, OrderFromInv, PTL DEF Spec

-----------------------------------------------------------------------------
(* What each operation does to the age of a slot.  The clients of the      *)
(* queue reason with these three facts and never with the cursors.         *)

LEMMA AgeAfterTailInc ==
  ASSUME Inv, ~Full, header' = header, TailInc, NEW t \in Slots
  PROVE  /\ Age(t)' = Age(t)
         /\ Live(t)' <=> Live(t) \/ t = tail
         /\ ~Live(tail) /\ Age(tail) = usage
  BY SizeAssumption
  DEF Inv, TypeOK, CursorsAgree, SlotAt, Full, TailInc, Live, Age, Slots

LEMMA AgeAfterRollBack ==
  ASSUME Inv, RollBack, NEW t \in Slots
  PROVE  /\ Age(t)' = Age(t)
         /\ Live(t)' <=> Live(t) /\ t # GetLastest
         /\ Live(GetLastest) /\ (Live(t) => Age(t) <= Age(GetLastest))
  BY SizeAssumption
  DEF Inv, TypeOK, CursorsAgree, SlotAt, Empty, RollBack, GetLastest,
      GetLastPtr, Live, Age, Slots

LEMMA AgeAfterPop ==
  ASSUME Inv, Pop, NEW t \in Slots
  PROVE  /\ t # header => Age(t)' = Age(t) - 1
         /\ Live(t)' <=> Live(t) /\ t # header
         /\ Live(header) /\ Age(header) = 0
  BY SizeAssumption
  DEF Inv, TypeOK, CursorsAgree, SlotAt, Empty, Pop, HeaderInc, GetNextPtr,
      Live, Age, Slots

-----------------------------------------------------------------------------
(* LoopQueue implements Deque.                                             *)

LEMMA SlotAtInSlots ==
  ASSUME Inv, NEW i \in 0..(Size - 1)
  PROVE  SlotAt(i) \in Slots
  BY SizeAssumption DEF Inv, TypeOK, SlotAt, Slots

(* LiveEntries is a sequence of usage entries.                             *)
LiveSeq ==
  /\ LiveEntries \in Seq(Data)
  /\ Len(LiveEntries) = usage
  /\ \A i \in 1..usage : LiveEntries[i] = dataVec[SlotAt(i - 1)]

LEMMA LiveEntriesIsSeq == Inv => LiveSeq
<1> SUFFICES ASSUME Inv
             PROVE  LiveSeq
  OBVIOUS
<1>1. \A i \in 1..usage : dataVec[SlotAt(i - 1)] \in Data
  BY SlotAtInSlots, SizeAssumption DEF Inv, TypeOK
<1>2. usage \in Nat
  BY SizeAssumption DEF Inv, TypeOK
<1>3. LiveEntries \in [1..usage -> Data]
  BY <1>1 DEF LiveEntries
<1>4. LiveEntries \in Seq(Data) /\ Len(LiveEntries) = usage
  BY <1>2, <1>3
<1>5. QED
  BY <1>4 DEF LiveSeq, LiveEntries

(* Two sequences with the same length and the same elements are equal.     *)
LEMMA SeqEqual ==
  ASSUME NEW S, NEW s \in Seq(S), NEW t \in Seq(S), Len(s) = Len(t),
         \A i \in 1..Len(s) : s[i] = t[i]
  PROVE  s = t
  OBVIOUS

LEMMA StepSimulates ==
  ASSUME Inv, LiveSeq, LiveSeq', [Next]_vars
  PROVE  [D!Next]_LiveEntries
<1> DEFINE L == LiveEntries
<1>1. /\ L \in Seq(Data) /\ Len(L) = usage
      /\ \A i \in 1..usage : L[i] = dataVec[SlotAt(i - 1)]
  BY DEF LiveSeq
<1>2. /\ L' \in Seq(Data) /\ Len(L') = usage'
      /\ \A i \in 1..usage' : L'[i] = dataVec'[SlotAt(i - 1)']
  BY DEF LiveSeq
<1>3. /\ usage \in 0..Size /\ header \in Slots /\ tail \in Slots
      /\ Size \in Nat \ {0} /\ dataVec \in [Slots -> Data]
  BY SizeAssumption DEF Inv, TypeOK
<1> HIDE DEF L
<1>4. CASE Reset
  <2>1. L' = << >>
    BY <1>2, <1>4 DEF Reset
  <2>2. QED
    BY <2>1 DEF D!Next, D!Clear, L
<1>5. ASSUME NEW d \in Data, Push(d)
      PROVE  D!Append1(d)
  <2>1. usage < Size /\ usage' = usage + 1
    BY <1>3, <1>5 DEF Push, Full, TailInc
  <2>2. \A i \in 1..usage : L'[i] = L[i]
    <3> SUFFICES ASSUME NEW i \in 1..usage
                 PROVE  L'[i] = L[i]
      OBVIOUS
    <3>1. SlotAt(i - 1)' = SlotAt(i - 1)
      BY <1>5 DEF Push, SlotAt
    <3>2. SlotAt(i - 1) # tail
      BY <1>3, <2>1 DEF Inv, CursorsAgree, SlotAt, Slots
    <3>3. dataVec'[SlotAt(i - 1)] = dataVec[SlotAt(i - 1)]
      BY <1>3, <1>5, <2>1, <3>2, SlotAtInSlots DEF Push
    <3>4. QED
      BY <1>1, <1>2, <1>3, <2>1, <3>1, <3>3
  <2>3. L'[usage + 1] = d
    <3>1. SlotAt(usage) = tail
      BY <1>3, <2>1 DEF Inv, CursorsAgree
    <3>2. L'[usage + 1] = dataVec'[SlotAt(usage)]
      BY <1>2, <1>3, <1>5, <2>1 DEF Push, SlotAt
    <3>3. QED
      BY <1>3, <1>5, <3>1, <3>2 DEF Push
  <2>4. L' = Append(L, d)
    <3>1. Append(L, d) \in Seq(Data) /\ Len(Append(L, d)) = usage + 1
      BY <1>1
    <3>2. \A i \in 1..(usage + 1) : L'[i] = Append(L, d)[i]
      BY <1>1, <1>3, <2>2, <2>3
    <3>3. QED
      BY <1>2, <2>1, <3>1, <3>2, SeqEqual
  <2>5. QED
    BY <1>1, <2>1, <2>4 DEF D!Append1, L
<1>6. CASE Allocate
  <2>1. usage < Size /\ usage' = usage + 1
    BY <1>3, <1>6 DEF Allocate, Full, TailInc
  <2>2. PICK d \in Data : d = dataVec[tail]
    BY <1>3
  <2>3. \A i \in 1..usage : L'[i] = L[i]
    BY <1>1, <1>2, <1>3, <1>6, <2>1 DEF Allocate, SlotAt
  <2>4. L'[usage + 1] = d
    BY <1>2, <1>3, <1>6, <2>1, <2>2
    DEF Allocate, Inv, CursorsAgree, SlotAt, Slots
  <2>5. L' = Append(L, d)
    <3>1. Append(L, d) \in Seq(Data) /\ Len(Append(L, d)) = usage + 1
      BY <1>1
    <3>2. \A i \in 1..(usage + 1) : L'[i] = Append(L, d)[i]
      BY <1>1, <1>3, <2>3, <2>4
    <3>3. QED
      BY <1>2, <2>1, <3>1, <3>2, SeqEqual
  <2>6. QED
    BY <1>1, <2>1, <2>5 DEF D!Next, D!Append1, L
<1>7. CASE Pop
  <2>1. usage > 0 /\ usage' = usage - 1
    BY <1>3, <1>7 DEF Pop, Empty, HeaderInc
  <2>2. \A i \in 1..usage' : L'[i] = L[i + 1]
    BY <1>1, <1>2, <1>3, <1>7, <2>1
    DEF Pop, HeaderInc, GetNextPtr, SlotAt, Slots
  <2>3. L # << >>
    BY <1>1, <2>1
  <2>4. L' = Tail(L)
    <3>1. Tail(L) \in Seq(Data) /\ Len(Tail(L)) = usage - 1
      BY <1>1, <1>3, <2>1, <2>3
    <3>2. \A i \in 1..(usage - 1) : L'[i] = Tail(L)[i]
      BY <1>1, <1>3, <2>1, <2>2, <2>3
    <3>3. QED
      BY <1>2, <2>1, <3>1, <3>2, SeqEqual
  <2>5. QED
    BY <2>3, <2>4 DEF D!Next, D!DropOldest, L
<1>8. CASE RollBack
  <2>1. usage > 0 /\ usage' = usage - 1
    BY <1>3, <1>8 DEF RollBack, Empty
  <2>2. \A i \in 1..usage' : L'[i] = L[i]
    BY <1>1, <1>2, <1>3, <1>8, <2>1, SMTT(40) DEF RollBack, SlotAt
  <2>3. L # << >>
    BY <1>1, <2>1
  <2>4. L' = SubSeq(L, 1, Len(L) - 1)
    <3>1. /\ SubSeq(L, 1, Len(L) - 1) \in Seq(Data)
          /\ Len(SubSeq(L, 1, Len(L) - 1)) = usage - 1
      BY <1>1, <1>3, <2>1
    <3>2. \A i \in 1..(usage - 1) : L'[i] = SubSeq(L, 1, Len(L) - 1)[i]
      BY <1>1, <1>3, <2>1, <2>2
    <3>3. QED
      BY <1>2, <2>1, <3>1, <3>2, SeqEqual
  <2>5. QED
    BY <2>3, <2>4 DEF D!Next, D!DropYoungest, L
<1>9. ASSUME NEW pos \in Slots, NEW d \in Data, Write(pos, d)
      PROVE  D!Next \/ UNCHANGED L
  <2>1. \A i \in 1..usage :
          L'[i] = IF SlotAt(i - 1) = pos THEN d ELSE L[i]
    <3> SUFFICES ASSUME NEW i \in 1..usage
                 PROVE  L'[i] = IF SlotAt(i - 1) = pos THEN d ELSE L[i]
      OBVIOUS
    <3>1. SlotAt(i - 1)' = SlotAt(i - 1) /\ SlotAt(i - 1) \in Slots
      BY <1>3, <1>9, SlotAtInSlots DEF Write, SlotAt
    <3>2. QED
      BY <1>1, <1>2, <1>3, <1>9, <3>1 DEF Write
  <2>2. usage' = usage
    BY <1>9 DEF Write
  <2>3. CASE \E i \in 1..usage : SlotAt(i - 1) = pos
    <3>1. PICK i \in 1..usage : SlotAt(i - 1) = pos
      BY <2>3
    <3>2. \A j \in 1..usage : SlotAt(j - 1) = pos => j = i
      BY <1>3, <3>1 DEF SlotAt, Slots
    <3>3. \A j \in 1..usage : L'[j] = [L EXCEPT ![i] = d][j]
      BY <1>1, <2>1, <3>1, <3>2
    <3>4. [L EXCEPT ![i] = d] \in Seq(Data) /\ Len([L EXCEPT ![i] = d]) = usage
      BY <1>1
    <3>5. L' = [L EXCEPT ![i] = d]
      BY <1>2, <2>2, <3>3, <3>4, SeqEqual
    <3>6. QED
      BY <1>1, <3>5 DEF D!Next, D!Update, L
  <2>4. CASE ~ \E i \in 1..usage : SlotAt(i - 1) = pos
    <3>1. \A i \in 1..usage : L'[i] = L[i]
      BY <2>1, <2>4
    <3>2. QED
      BY <1>1, <1>2, <2>2, <3>1, SeqEqual
  <2>5. QED
    BY <2>3, <2>4
<1>10. CASE UNCHANGED vars
  <2>1. L' = L
    BY <1>10 DEF vars, L, LiveEntries, SlotAt
  <2>2. QED
    BY <2>1 DEF L
<1>11. QED
  BY <1>4, <1>5, <1>6, <1>7, <1>8, <1>9, <1>10 DEF Next, D!Next, L

(* Every behaviour of the circular buffer is, through its live entries, a  *)
(* behaviour of the double-ended list its clients have in mind.            *)
THEOREM Refinement == Spec => ImplementsDeque
<1>1. Init => D!Init
  BY DEF Init, D!Init, LiveEntries
<1>2. Inv /\ LiveSeq /\ LiveSeq' /\ [Next]_vars => [D!Next]_LiveEntries
  BY StepSimulates
<1>3. QED
  BY <1>1, <1>2, InitInv, NextInv, LiveEntriesIsSeq, PTL DEF Spec, ImplementsDeque, D!Spec
=============================================================================

------------------------------ MODULE RcuProofs ------------------------------
(***************************************************************************)
(* Proofs about Rcu for every size of the window, every width, every set   *)
(* of registers and kinds of instruction, with and without speculation.    *)
(*                                                                         *)
(* Control is the inductive invariant of the recovery: which tags are in   *)
(* flight, what the package for commit may hold and where the rollback     *)
(* target is.  It needs no assumption on faulting instructions.            *)
(***************************************************************************)
EXTENDS Rcu, TLAPS

-----------------------------------------------------------------------------
(* The inductive invariant.                                                *)

At(i) == rob[Rob!SlotAt(i)]

(* Dispatch only has instructions left to take while nothing recovers.     *)
DispatchOnlyIdle == phase = "Dispatch" /\ budget > 0 => robState = "Idle"

(* One instruction per tag in flight; a live one is the one of its entry.  *)
FlightMatches ==
  \A y \in iew :
    /\ \A z \in iew : z.tag = y.tag => z = y
    /\ Rob!Live(y.tag) =>
         /\ ~rob[y.tag].done
         /\ rob[y.tag].kind = y.kind /\ rob[y.tag].bad = y.bad
         /\ rob[y.tag].rd = y.rd /\ rob[y.tag].phyRd = y.phyRd

(* What writes a register in flight has one to write.                      *)
FlightHasRegister == \A y \in iew : y.rd # NoReg => y.phyRd \in PhyReg

(* Squashed instructions are in flight only during a recovery, and not one *)
(* that a branch could still end before it commits.                        *)
SquashedOnlyInRecovery ==
  \A y \in iew : ~Rob!Live(y.tag) =>
    /\ robState # "Idle"
    /\ robState \in {"Undo", "WaitForResume"} =>
         Speculation \/ rob[rollBackTag].done

(* The package holds the oldest entries, which are done.                   *)
PackageDone ==
  /\ toCommit <= usage
  /\ \A i \in 0..(toCommit - 1) : At(i).done

TargetIsYoungest == usage > 0 /\ rollBackTag = Rob!SlotAt(usage - 1)

(* Where the recovery stands.                                              *)
Target ==
  /\ robState = "Undo" =>
       Rob!Live(rollBackTag) /\ Rob!Age(rollBackTag) >= toCommit
  /\ robState = "WaitForResume" => TargetIsYoungest
  /\ robState = "FlushBackend" =>
       usage = 0 /\ phase \in {"Commit", "Evaluate"}
  /\ robState = "Undo" /\ ~Speculation /\ ~rob[rollBackTag].done =>
       TargetIsYoungest

Control ==
  /\ TypeOK
  /\ DispatchOnlyIdle
  /\ FlightMatches
  /\ FlightHasRegister
  /\ SquashedOnlyInRecovery
  /\ PackageDone
  /\ Target

-----------------------------------------------------------------------------
(* The geometry of the re-order buffer.                                    *)

Shape == Rob!TypeOK /\ Rob!CursorsAgree

(* A slot and its distance from the header determine each other; the       *)
(* youngest entry and the next slot are where the count says.              *)
LEMMA Geometry ==
  ASSUME Shape
  PROVE  /\ \A i \in Slots : Rob!SlotAt(i) \in Slots
                             /\ Rob!Age(Rob!SlotAt(i)) = i
         /\ \A t \in Slots : Rob!Age(t) \in Slots
                             /\ Rob!SlotAt(Rob!Age(t)) = t
         /\ \A s, t \in Slots : Rob!Age(s) = Rob!Age(t) => s = t
         /\ usage > 0 => Rob!GetLastest = Rob!SlotAt(usage - 1)
         /\ usage < RobSize => tail = Rob!SlotAt(usage)
         /\ Rob!SlotAt(0) = header /\ Rob!Age(header) = 0
  BY SizesAssumption
  DEF Shape, Rob!TypeOK, Rob!CursorsAgree, Rob!SlotAt, Rob!Age, Slots,
      Rob!Slots, Rob!GetLastest, Rob!GetLastPtr

LEMMA OlderByAge ==
  ASSUME Shape, NEW s \in Slots, NEW t \in Slots
  PROVE  Rob!IsOlder(s, t) <=> Rob!Age(s) < Rob!Age(t)
  BY SizesAssumption
  DEF Shape, Rob!TypeOK, Rob!Slots, Slots, Rob!IsOlder, Rob!Age

(* The tag test of WriteBack accepts the tags of live entries only.        *)
LEMMA AcceptedIsLive ==
  ASSUME Shape, NEW t \in Slots
  PROVE  Accepted(t) <=> Rob!Live(t)
<1>1. CASE usage = 0
  BY <1>1, Geometry, SizesAssumption DEF Accepted, Rob!Empty, Rob!Live, Slots
<1>2. CASE usage # 0
  <2>1. usage \in 1..RobSize
    BY <1>2 DEF Shape, Rob!TypeOK
  <2>2. /\ Rob!GetLastest \in Slots
        /\ Rob!Age(Rob!GetLastest) = usage - 1
    BY <2>1, Geometry, SizesAssumption DEF Slots
  <2>3. Accepted(t) <=> Rob!Age(t) <= usage - 1
    BY <2>1, <2>2, Geometry, OlderByAge, SizesAssumption
    DEF Accepted, Rob!Empty, Slots
  <2>4. QED
    BY <2>1, <2>3, Geometry, SizesAssumption DEF Rob!Live, Rob!Slots, Slots
<1>3. QED
  BY <1>1, <1>2

(* Push makes the slot of the tail the youngest live entry.                *)
LEMMA PushGeometry ==
  ASSUME Shape, NEW d \in Entry, Rob!Push(d)
  PROVE  /\ Shape'
         /\ usage' = usage + 1 /\ usage < RobSize
         /\ ~Rob!Live(tail) /\ tail = Rob!SlotAt(usage)
         /\ rob' = [rob EXCEPT ![tail] = d]
         /\ \A t \in Slots : /\ Rob!Age(t)' = Rob!Age(t)
                             /\ Rob!Live(t)' <=> Rob!Live(t) \/ t = tail
         /\ \A i \in Slots : Rob!SlotAt(i)' = Rob!SlotAt(i)
<1> USE SizesAssumption DEF Shape, Rob!TypeOK, Rob!Slots, Slots, Rob!Push
<1>1. rob' \in [Slots -> Entry]
  OBVIOUS
<1>2. QED
  BY <1>1 DEF Rob!CursorsAgree, Rob!SlotAt, Rob!Age, Rob!Live, Rob!Full,
              Rob!TailInc, Rob!GetNextPtr

(* Pop retires the slot of the header and brings the others one closer.    *)
LEMMA PopGeometry ==
  ASSUME Shape, Rob!Pop
  PROVE  /\ Shape'
         /\ usage' = usage - 1 /\ usage > 0
         /\ rob' = rob
         /\ \A t \in Slots :
              /\ Rob!Live(t)' <=> Rob!Live(t) /\ t # header
              /\ t # header => Rob!Age(t)' = Rob!Age(t) - 1
         /\ \A i \in Slots :
              i + 1 < RobSize => Rob!SlotAt(i)' = Rob!SlotAt(i + 1)
  BY SizesAssumption
  DEF Shape, Rob!TypeOK, Rob!Slots, Slots, Rob!Pop, Rob!CursorsAgree,
      Rob!SlotAt, Rob!Age, Rob!Live, Rob!Empty, Rob!HeaderInc, Rob!GetNextPtr

(* RollBack squashes the youngest live entry.                              *)
LEMMA RollBackGeometry ==
  ASSUME Shape, Rob!RollBack
  PROVE  /\ Shape'
         /\ usage' = usage - 1 /\ usage > 0
         /\ rob' = rob
         /\ \A t \in Slots :
              /\ Rob!Age(t)' = Rob!Age(t)
              /\ Rob!Live(t)' <=> Rob!Live(t) /\ t # Rob!GetLastest
         /\ \A i \in Slots : Rob!SlotAt(i)' = Rob!SlotAt(i)
  BY SizesAssumption
  DEF Shape, Rob!TypeOK, Rob!Slots, Slots, Rob!RollBack, Rob!CursorsAgree,
      Rob!SlotAt, Rob!Age, Rob!Live, Rob!Empty, Rob!GetLastest,
      Rob!GetLastPtr

(* A write to an entry moves nothing.                                      *)
LEMMA StillGeometry ==
  ASSUME Shape, UNCHANGED <<header, tail, usage>>, rob' \in [Slots -> Entry]
  PROVE  /\ Shape'
         /\ \A t \in Slots : /\ Rob!Age(t)' = Rob!Age(t)
                             /\ Rob!Live(t)' <=> Rob!Live(t)
         /\ \A i \in Slots : Rob!SlotAt(i)' = Rob!SlotAt(i)
  BY DEF Shape, Rob!TypeOK, Rob!Slots, Slots, Rob!CursorsAgree,
         Rob!SlotAt, Rob!Age, Rob!Live

-----------------------------------------------------------------------------
(* Control is inductive: one lemma per action.                             *)

LEMMA ControlInit == Init => Control
<1> SUFFICES ASSUME Init PROVE Control
  OBVIOUS
<1> USE SizesAssumption, RegsAssumption DEF Init
<1>1. BlankEntry \in Entry
  BY DEF BlankEntry, Entry, AllKinds, Rd, Phy
<1>2. Rob!TypeOK /\ Rob!CursorsAgree
  BY <1>1 DEF Rob!TypeOK, Rob!CursorsAgree, Rob!Slots, Slots, Rob!SlotAt
<1>3. TypeOK
  BY <1>2 DEF TypeOK, RobStates, Phases, Slots, Phy
<1>4. QED
  BY <1>3 DEF Control, DispatchOnlyIdle, FlightMatches, FlightHasRegister,
              SquashedOnlyInRecovery, PackageDone, Target

(* What is not done lies behind the package.                               *)
LEMMA UndoneBehindPackage ==
  ASSUME Control, NEW t \in Slots, ~rob[t].done
  PROVE  Rob!Age(t) >= toCommit
<1>1. Shape /\ toCommit \in Nat
  BY SizesAssumption DEF Control, TypeOK, Shape
<1>2. Rob!Age(t) \in Slots /\ Rob!SlotAt(Rob!Age(t)) = t
  BY <1>1, Geometry
<1>3. \A i \in 0..(toCommit - 1) : rob[Rob!SlotAt(i)].done
  BY DEF Control, PackageDone, At
<1>4. QED
  BY <1>1, <1>2, <1>3, SizesAssumption DEF Slots

LEMMA ControlAddrGen ==
  ASSUME Control, NEW y \in iew, AddrGen(y)
  PROVE  Control'
<1> USE DEF Control
<1>0. Shape /\ y \in InFlight /\ y.tag \in Slots
  BY DEF TypeOK, Shape, InFlight
<1>1. rob' \in [Slots -> Entry]
  <2>1. rob \in [Slots -> Entry]
    BY DEF TypeOK, Rob!TypeOK, Rob!Slots, Slots
  <2>2. rob[y.tag] \in Entry
    BY <1>0, <2>1
  <2>3. [rob[y.tag] EXCEPT !.isStable = TRUE,
           !.done = rob[y.tag].done \/ y.kind = "STU"] \in Entry
    BY <2>2 DEF Entry
  <2>4. QED
    BY <2>1, <2>3 DEF AddrGen
<1>2. UNCHANGED <<header, tail, usage>>
  BY DEF AddrGen
<1>3. /\ Shape'
      /\ \A t \in Slots : /\ Rob!Age(t)' = Rob!Age(t)
                          /\ Rob!Live(t)' <=> Rob!Live(t)
      /\ \A i \in Slots : Rob!SlotAt(i)' = Rob!SlotAt(i)
  BY <1>0, <1>1, <1>2, StillGeometry
<1>4. iew' \subseteq InFlight
  BY <1>0 DEF AddrGen, TypeOK, InFlight
<1>5. TypeOK'
  BY <1>3, <1>4 DEF AddrGen, TypeOK, Shape, regVars, tickVars, history
<1>6. \A t \in Slots :
        /\ rob[t].done => rob'[t].done
        /\ rob'[t].kind = rob[t].kind /\ rob'[t].bad = rob[t].bad
        /\ rob'[t].rd = rob[t].rd /\ rob'[t].phyRd = rob[t].phyRd
        /\ t # y.tag => rob'[t] = rob[t]
        /\ y.kind # "STU" => rob'[t].done = rob[t].done
  BY <1>0 DEF AddrGen, TypeOK, Rob!TypeOK, Rob!Slots, Slots, Entry
<1>7. FlightMatches' /\ FlightHasRegister'
  BY <1>0, <1>3, <1>4, <1>6
  DEF AddrGen, FlightMatches, FlightHasRegister, InFlight
<1>8. SquashedOnlyInRecovery'
  BY <1>0, <1>3, <1>6
  DEF AddrGen, SquashedOnlyInRecovery, InFlight, TypeOK
<1>9. DispatchOnlyIdle'
  BY DEF AddrGen, DispatchOnlyIdle, tickVars
<1>10. PackageDone'
  BY <1>0, <1>3, <1>6, SizesAssumption, Geometry
  DEF AddrGen, PackageDone, At, TypeOK, Slots, Rob!TypeOK
<1>11. Target'
  <2>0. usage \in 0..RobSize /\ rollBackTag \in Slots
    BY DEF TypeOK, Rob!TypeOK
  <2>1. UNCHANGED <<usage, robState, rollBackTag, toCommit, phase>>
    BY DEF AddrGen, tickVars
  <2>2. usage > 0 => Rob!SlotAt(usage - 1)' = Rob!SlotAt(usage - 1)
    BY <1>3, <2>0, <2>1, SizesAssumption DEF Slots
  <2>3. QED
    BY <1>3, <1>6, <2>0, <2>1, <2>2 DEF Target, TargetIsYoungest
<1>12. QED
  BY <1>5, <1>7, <1>8, <1>9, <1>10, <1>11

LEMMA ControlExecute ==
  ASSUME Control, NEW y \in iew, Execute(y)
  PROVE  Control'
<1> USE DEF Control
<1>0. Shape /\ y \in InFlight
  BY DEF TypeOK, Shape
<1>1. UNCHANGED <<rob, header, tail, usage, robState, rollBackTag, toCommit,
                  phase, budget>>
  BY DEF Execute, robVars, tickVars
<1>2. /\ Shape'
      /\ \A t \in Slots : Rob!Live(t)' <=> Rob!Live(t)
  BY <1>0, <1>1, StillGeometry DEF Shape, Rob!TypeOK, Rob!Slots, Slots
<1>3. iew' \subseteq InFlight
  BY <1>0 DEF Execute, TypeOK, InFlight
<1>4. TypeOK'
  BY <1>0, <1>2, <1>3 DEF Execute, TypeOK, Shape, tickVars, history,
                          FlightHasRegister, robVars
<1>5. FlightMatches' /\ FlightHasRegister'
  BY <1>0, <1>1, <1>2, <1>3
  DEF Execute, FlightMatches, FlightHasRegister, InFlight
<1>6. SquashedOnlyInRecovery'
  BY <1>0, <1>1, <1>2 DEF Execute, SquashedOnlyInRecovery, InFlight, TypeOK
<1>7. DispatchOnlyIdle' /\ PackageDone' /\ Target'
  BY <1>1 DEF DispatchOnlyIdle, PackageDone, Target, TargetIsYoungest, At,
              Rob!SlotAt, Rob!Live, Rob!Age
<1>8. QED
  BY <1>4, <1>5, <1>6, <1>7

LEMMA ControlWriteBack ==
  ASSUME Control, NEW y \in iew, WriteBack(y)
  PROVE  Control'
<1> USE DEF Control
<1>0. Shape /\ y \in InFlight /\ y.tag \in Slots
  BY DEF TypeOK, Shape, InFlight
<1>1. UNCHANGED <<header, tail, usage, toCommit, phase, budget>>
  BY DEF WriteBack, tickVars
<1>2. rob \in [Slots -> Entry] /\ rollBackTag \in Slots /\ usage \in 0..RobSize
  BY DEF TypeOK, Rob!TypeOK, Rob!Slots, Slots
<1>3. rob' \in [Slots -> Entry]
  <2>1. CASE ~Accepted(y.tag)
    BY <1>2, <2>1 DEF WriteBack
  <2>2. CASE Accepted(y.tag)
    <3>1. rob[y.tag] \in Entry
      BY <1>0, <1>2
    <3>2. [rob[y.tag] EXCEPT !.done = TRUE, !.isStable = TRUE,
             !.isExcp = rob[y.tag].isExcp \/ (y.bad /\ y.kind = "LDU")]
             \in Entry
      BY <3>1 DEF Entry
    <3>3. QED
      BY <1>2, <2>2, <3>2 DEF WriteBack
  <2>3. QED
    BY <2>1, <2>2
<1>4. /\ Shape'
      /\ \A t \in Slots : /\ Rob!Age(t)' = Rob!Age(t)
                          /\ Rob!Live(t)' <=> Rob!Live(t)
      /\ \A i \in Slots : Rob!SlotAt(i)' = Rob!SlotAt(i)
  BY <1>0, <1>1, <1>3, StillGeometry
<1>5. iew' = iew \ {y}
  BY DEF WriteBack
<1>6. TypeOK'
  BY <1>0, <1>4, <1>5
  DEF WriteBack, TypeOK, Shape, tickVars, RobStates, FlightHasRegister
<1>7. /\ \A t \in Slots :
           /\ rob[t].done => rob'[t].done
           /\ rob'[t].kind = rob[t].kind /\ rob'[t].bad = rob[t].bad
           /\ rob'[t].rd = rob[t].rd /\ rob'[t].phyRd = rob[t].phyRd
           /\ t # y.tag => rob'[t] = rob[t]
      /\ Rob!Live(y.tag) => rob'[y.tag].done /\ ~rob[y.tag].done
  <2>1. Rob!Live(y.tag) => ~rob[y.tag].done
    BY DEF FlightMatches
  <2>2. CASE ~Accepted(y.tag)
    BY <1>0, <2>2, AcceptedIsLive DEF WriteBack
  <2>3. CASE Accepted(y.tag)
    <3>1. rob' = [rob EXCEPT ![y.tag] =
                   [@ EXCEPT !.done = TRUE, !.isStable = TRUE,
                             !.isExcp = rob[y.tag].isExcp
                                          \/ (y.bad /\ y.kind = "LDU")]]
      BY <2>3 DEF WriteBack
    <3>2. QED
      BY <1>0, <1>2, <2>1, <3>1 DEF Entry
  <2>4. QED
    BY <2>2, <2>3
<1>8. FlightMatches' /\ FlightHasRegister'
  BY <1>0, <1>4, <1>5, <1>6, <1>7
  DEF FlightMatches, FlightHasRegister, InFlight, TypeOK
<1>9. SquashedOnlyInRecovery'
  <2> SUFFICES ASSUME NEW z \in iew', ~Rob!Live(z.tag)'
               PROVE  /\ robState' # "Idle"
                      /\ robState' \in {"Undo", "WaitForResume"} =>
                           Speculation \/ rob'[rollBackTag'].done
    BY DEF SquashedOnlyInRecovery
  <2>1. z \in iew /\ z.tag \in Slots /\ ~Rob!Live(z.tag)
    BY <1>4, <1>5 DEF TypeOK, InFlight
  <2>2. /\ robState # "Idle"
        /\ robState \in {"Undo", "WaitForResume"} =>
             Speculation \/ rob[rollBackTag].done
    BY <2>1 DEF SquashedOnlyInRecovery
  <2>3. CASE ~Rob!Live(y.tag)
    BY <1>0, <1>2, <1>7, <2>2, <2>3, AcceptedIsLive DEF WriteBack
  <2>4. CASE Rob!Live(y.tag) /\ TakesOver(y)
    BY <1>0, <1>7, <2>4, AcceptedIsLive DEF WriteBack
  <2>5. CASE Rob!Live(y.tag) /\ ~TakesOver(y)
    BY <1>0, <1>2, <1>7, <2>2, <2>5, AcceptedIsLive DEF WriteBack
  <2>6. QED
    BY <2>3, <2>4, <2>5
<1>10. DispatchOnlyIdle'
  BY <1>1 DEF WriteBack, DispatchOnlyIdle
<1>11. PackageDone'
  <2>1. \A i \in 0..(toCommit - 1) : i \in Slots /\ At(i).done
    BY <1>2, SizesAssumption DEF PackageDone, TypeOK, Slots
  <2>2. \A i \in 0..(toCommit - 1) : At(i)'.done
    BY <1>0, <1>4, <1>7, <2>1, Geometry DEF At
  <2>3. QED
    BY <1>1, <2>2 DEF PackageDone
<1>12. Target'
  <2>1. CASE ~Rob!Live(y.tag)
    BY <1>0, <1>1, <2>1, AcceptedIsLive
    DEF WriteBack, Target, TargetIsYoungest, Rob!SlotAt, Rob!Live, Rob!Age
  <2>2. CASE Rob!Live(y.tag) /\ TakesOver(y)
    <3>1. robState' = "Undo" /\ rollBackTag' = y.tag
      BY <1>0, <2>2, AcceptedIsLive DEF WriteBack
    <3>2. Rob!Age(y.tag) >= toCommit
      BY <1>0, <1>7, <2>2, UndoneBehindPackage
    <3>3. QED
      BY <1>0, <1>1, <1>4, <1>7, <2>2, <3>1, <3>2 DEF Target
  <2>3. CASE Rob!Live(y.tag) /\ ~TakesOver(y)
    <3>1. /\ robState' \in {robState, "Idle"}
          /\ rollBackTag' = rollBackTag
      BY <1>0, <2>3, AcceptedIsLive DEF WriteBack
    <3>2. usage > 0 => Rob!SlotAt(usage - 1)' = Rob!SlotAt(usage - 1)
      BY <1>1, <1>2, <1>4, SizesAssumption DEF Slots
    <3>3. QED
      BY <1>1, <1>2, <1>4, <1>7, <3>1, <3>2 DEF Target, TargetIsYoungest
  <2>4. QED
    BY <2>1, <2>2, <2>3
<1>13. QED
  BY <1>6, <1>8, <1>9, <1>10, <1>11, <1>12

(* The ends of the phases that only move the clock.                        *)
LEMMA ControlEndPhase ==
  ASSUME Control, EndIEW \/ EndDispatch
  PROVE  Control'
<1> USE DEF Control
<1>1. /\ UNCHANGED <<rob, header, tail, usage, robState, rollBackTag, free,
                     renameTable, allocated, ready, iew, toCommit, commitMap,
                     path>>
      /\ phase' \in {"Dispatch", "Commit"}
      /\ phase # "Commit" /\ phase # "Evaluate"
      /\ budget' = IF phase' = "Dispatch" /\ robState = "Idle"
                   THEN AllocWidth ELSE 0
  BY DEF EndIEW, EndDispatch, robVars, regVars, history
<1>2. TypeOK'
  BY <1>1, SizesAssumption
  DEF TypeOK, Phases, Rob!TypeOK, Rob!CursorsAgree, Rob!SlotAt
<1>3. Rob!Live(rollBackTag)' <=> Rob!Live(rollBackTag)
  BY <1>1 DEF Rob!Live, Rob!Age
<1>4. FlightMatches' /\ FlightHasRegister' /\ SquashedOnlyInRecovery'
  BY <1>1 DEF FlightMatches, FlightHasRegister, SquashedOnlyInRecovery,
              Rob!Live, Rob!Age
<1>5. DispatchOnlyIdle' /\ PackageDone' /\ Target'
  BY <1>1 DEF DispatchOnlyIdle, PackageDone, Target, TargetIsYoungest, At,
              Rob!SlotAt, Rob!Live, Rob!Age
<1>6. QED
  BY <1>2, <1>4, <1>5

(* The entry AllocateInsn writes and what it puts in flight.               *)
NewEntry(i, p) ==
  [kind |-> i.kind, rd |-> i.rd, phyRd |-> p,
   LphyRd |-> IF i.rd = NoReg THEN ZeroPhy ELSE renameTable[i.rd],
   done |-> DoneAtDispatch(i), isStable |-> DoneAtDispatch(i),
   isExcp |-> i.excp, bad |-> i.bad \/ i.excp, wrongPath |-> path = "wrong"]

NewInFlight(i, p) ==
  [tag |-> tail, kind |-> i.kind, rd |-> i.rd, phyRd |-> p, bad |-> i.bad,
   stage |-> "fu"]

LEMMA AllocatedTypes ==
  ASSUME TypeOK, NEW i \in Insn, NEW p \in Phy
  PROVE  NewEntry(i, p) \in Entry /\ NewInFlight(i, p) \in InFlight
<1>1. /\ i.kind \in AllKinds /\ i.rd \in Rd
      /\ i.excp \in BOOLEAN /\ i.bad \in BOOLEAN
  BY KindAssumption DEF Insn
<1>2. tail \in Slots
  BY DEF TypeOK, Rob!TypeOK, Rob!Slots, Slots
<1>3. DoneAtDispatch(i) \in BOOLEAN
  BY DEF DoneAtDispatch
<1>4. (IF i.rd = NoReg THEN ZeroPhy ELSE renameTable[i.rd]) \in Phy
  BY <1>1 DEF TypeOK, Rd, Phy
<1>5. (i.bad \/ i.excp) \in BOOLEAN /\ (path = "wrong") \in BOOLEAN
  OBVIOUS
<1>6. QED
  BY <1>1, <1>2, <1>3, <1>4, <1>5 DEF NewEntry, NewInFlight, Entry, InFlight

LEMMA ControlAllocateInsn ==
  ASSUME Control, NEW i \in Insn, NEW p \in Phy, AllocateInsn(i, p)
  PROVE  Control'
<1> USE DEF Control
<1>0. Shape
  BY DEF TypeOK, Shape
<1>1. /\ Rob!Push(NewEntry(i, p))
      /\ iew' = IF DoneAtDispatch(i) THEN iew
                ELSE iew \union {NewInFlight(i, p)}
  BY DEF AllocateInsn, NewEntry, NewInFlight
<1>2. /\ NewEntry(i, p) \in Entry /\ NewInFlight(i, p) \in InFlight
      /\ tail \in Slots
  BY AllocatedTypes DEF TypeOK, Rob!TypeOK, Rob!Slots, Slots
<1>3. /\ Shape'
      /\ usage' = usage + 1 /\ usage < RobSize
      /\ ~Rob!Live(tail) /\ tail = Rob!SlotAt(usage)
      /\ rob' = [rob EXCEPT ![tail] = NewEntry(i, p)]
      /\ \A t \in Slots : /\ Rob!Age(t)' = Rob!Age(t)
                          /\ Rob!Live(t)' <=> Rob!Live(t) \/ t = tail
      /\ \A j \in Slots : Rob!SlotAt(j)' = Rob!SlotAt(j)
  BY <1>0, <1>1, <1>2, PushGeometry
<1>4. /\ robState = "Idle" /\ phase = "Dispatch" /\ phase' = "Dispatch"
      /\ budget > 0 /\ toCommit' = toCommit /\ usage \in 0..RobSize
      /\ rob \in [Slots -> Entry]
  BY DEF AllocateInsn, DispatchOnlyIdle, TypeOK, Rob!TypeOK, Rob!Slots, Slots
<1>5. /\ robState' \in {"Idle", "Undo"}
      /\ robState' = "Undo" => rollBackTag' = tail /\ budget' = 0
      /\ robState' = "Idle" => budget' \in {0, budget - 1}
      /\ rollBackTag' \in Slots
      /\ robState' = "Undo" /\ ~i.excp => ControlFlow(i) /\ ~(i.kind = "MRET")
  BY <1>2, <1>4 DEF AllocateInsn, TypeOK
<1>6. TypeOK'
  <2>1. i.rd # NoReg => i.rd \in ArchReg /\ p \in PhyReg /\ free[p] > 0
    BY DEF AllocateInsn, Insn, Rd
  <2>2. /\ free' \in [PhyReg -> Nat]
        /\ renameTable' \in [ArchReg -> Phy]
        /\ allocated' \subseteq PhyReg /\ ready' \subseteq PhyReg
    BY <2>1 DEF AllocateInsn, TakeRegister, TypeOK, regVars
  <2>3. iew' \subseteq InFlight
    BY <1>1, <1>2 DEF TypeOK
  <2>4. budget' \in Nat /\ robState' \in RobStates
    BY <1>4, <1>5 DEF TypeOK, RobStates
  <2>5. QED
    BY <1>3, <1>4, <1>5, <2>2, <2>3, <2>4
    DEF AllocateInsn, TypeOK, Shape
<1>7. \A y \in iew : y.tag \in Slots /\ Rob!Live(y.tag) /\ y.tag # tail
  BY <1>3, <1>4 DEF SquashedOnlyInRecovery, TypeOK, InFlight
<1>8. FlightMatches'
  <2> SUFFICES ASSUME NEW y \in iew'
               PROVE  /\ \A z \in iew' : z.tag = y.tag => z = y
                      /\ ~rob'[y.tag].done
                      /\ rob'[y.tag].kind = y.kind /\ rob'[y.tag].bad = y.bad
                      /\ rob'[y.tag].rd = y.rd /\ rob'[y.tag].phyRd = y.phyRd
    BY DEF FlightMatches
  <2>1. CASE y \in iew
    BY <1>1, <1>3, <1>4, <1>7, <2>1 DEF FlightMatches, NewInFlight
  <2>2. CASE y = NewInFlight(i, p) /\ ~DoneAtDispatch(i)
    <3>1. rob'[tail] = NewEntry(i, p)
      BY <1>2, <1>3, <1>4
    <3>2. ~i.excp
      BY <2>2 DEF DoneAtDispatch
    <3>3. QED
      BY <1>1, <1>7, <2>2, <3>1, <3>2, KindAssumption
      DEF NewInFlight, NewEntry, Insn
  <2>3. QED
    BY <1>1, <2>1, <2>2
<1>9. FlightHasRegister'
  BY <1>1 DEF AllocateInsn, FlightHasRegister, NewInFlight
<1>10. SquashedOnlyInRecovery'
  BY <1>1, <1>2, <1>3, <1>7 DEF SquashedOnlyInRecovery, NewInFlight
<1>11. DispatchOnlyIdle'
  BY <1>5 DEF DispatchOnlyIdle
<1>12. PackageDone'
  <2>1. \A j \in 0..(toCommit - 1) : /\ j \in Slots /\ At(j).done
                                    /\ Rob!SlotAt(j) # tail
    <3>1. toCommit \in Nat /\ toCommit <= usage /\ usage \in Slots
      BY <1>3, <1>4, SizesAssumption DEF PackageDone, TypeOK, Slots
    <3>2. \A j \in 0..(toCommit - 1) : j \in Slots /\ At(j).done /\ j # usage
      BY <3>1, SizesAssumption DEF PackageDone, Slots
    <3>3. QED
      BY <1>0, <1>3, <3>1, <3>2, Geometry
  <2>2. \A j \in 0..(toCommit - 1) : At(j)'.done
    BY <1>0, <1>3, <1>4, <2>1, Geometry DEF At
  <2>3. QED
    BY <1>3, <1>4, <2>2, SizesAssumption DEF PackageDone, TypeOK
<1>13. Target'
  <2>1. CASE robState' = "Idle"
    BY <2>1 DEF Target
  <2>2. CASE robState' = "Undo"
    <3>1. usage \in Slots /\ usage >= toCommit /\ rollBackTag' = tail
      BY <1>3, <1>4, <1>5, <2>2, SizesAssumption
      DEF PackageDone, Slots, TypeOK
    <3>2. Rob!Age(tail) = usage
      BY <1>0, <1>3, <3>1, Geometry
    <3>3. Rob!Live(rollBackTag)' /\ Rob!Age(rollBackTag)' >= toCommit'
      BY <1>2, <1>3, <1>4, <3>1, <3>2 DEF Rob!Live, Rob!Age, Rob!Push
    <3>4. TargetIsYoungest'
      BY <1>1, <1>3, <1>4, <3>1
      DEF TargetIsYoungest, Rob!SlotAt, Rob!Push
    <3>5. QED
      BY <2>2, <3>3, <3>4 DEF Target
  <2>3. QED
    BY <1>5, <2>1, <2>2
<1>14. QED
  BY <1>6, <1>8, <1>9, <1>10, <1>11, <1>12, <1>13

(* Freeing a register keeps the types of the tables.                       *)
LEMMA FreedTypes ==
  ASSUME TypeOK, NEW p \in Phy, Freed(p)
  PROVE  /\ free' \in [PhyReg -> Nat]
         /\ allocated' \subseteq PhyReg /\ ready' \subseteq PhyReg
<1>1. CASE p \in PhyReg
  BY <1>1 DEF Freed, TypeOK
<1>2. CASE p \notin PhyReg
  <2>1. free' = free
    BY <1>2 DEF Freed, TypeOK
  <2>2. QED
    BY <2>1 DEF Freed, TypeOK
<1>3. QED
  BY <1>1, <1>2

LEMMA ControlCommitInsn ==
  ASSUME Control, CommitInsn
  PROVE  Control'
<1> USE DEF Control
<1>0. Shape /\ header \in Slots
  BY DEF TypeOK, Shape, Rob!TypeOK, Rob!Slots, Slots
<1>1. Rob!Pop
  BY DEF CommitInsn
<1>2. /\ Shape'
      /\ usage' = usage - 1 /\ usage > 0
      /\ rob' = rob
      /\ \A t \in Slots :
           /\ Rob!Live(t)' <=> Rob!Live(t) /\ t # header
           /\ t # header => Rob!Age(t)' = Rob!Age(t) - 1
      /\ \A i \in Slots :
           i + 1 < RobSize => Rob!SlotAt(i)' = Rob!SlotAt(i + 1)
  BY <1>0, <1>1, PopGeometry
<1>3. /\ toCommit > 0 /\ toCommit' = toCommit - 1 /\ toCommit \in Nat
      /\ phase = "Commit" /\ phase' = phase /\ budget' = budget
      /\ rollBackTag' = rollBackTag /\ iew' = iew
      /\ robState' = IF robState = "WaitForResume" /\ header = rollBackTag
                     THEN "FlushBackend" ELSE robState
      /\ usage \in 0..RobSize /\ rollBackTag \in Slots
      /\ rob \in [Slots -> Entry]
  BY SizesAssumption
  DEF CommitInsn, tickVars, TypeOK, Rob!TypeOK, Rob!Slots, Slots
<1>4. Rob!SlotAt(0) = header /\ Rob!Age(header) = 0 /\ rob[header].done
  BY <1>0, <1>3, Geometry DEF PackageDone, At
<1>5. TypeOK'
  <2>1. rob[header] \in Entry
    BY <1>0, <1>3
  <2>2. rob[header].LphyRd \in Phy /\ rob[header].phyRd \in Phy
    BY <2>1 DEF Entry
  <2>3. /\ free' \in [PhyReg -> Nat]
        /\ allocated' \subseteq PhyReg /\ ready' \subseteq PhyReg
    BY <2>2, FreedTypes DEF CommitInsn, TypeOK
  <2>4. commitMap' \in [ArchReg -> Phy]
    BY <2>2 DEF CommitInsn, TypeOK
  <2>5. toCommit' \in 0..DeallocWidth
    BY <1>3, SizesAssumption DEF TypeOK
  <2>6. QED
    BY <1>2, <1>3, <2>3, <2>4, <2>5
    DEF CommitInsn, TypeOK, Shape, RobStates
<1>6. \A y \in iew : /\ y.tag \in Slots
                     /\ Rob!Live(y.tag)' <=> Rob!Live(y.tag)
  BY <1>2, <1>4 DEF FlightMatches, TypeOK, InFlight
<1>7. FlightMatches' /\ FlightHasRegister'
  BY <1>2, <1>3, <1>6 DEF FlightMatches, FlightHasRegister
<1>8. SquashedOnlyInRecovery'
  BY <1>2, <1>3, <1>6 DEF SquashedOnlyInRecovery
<1>9. DispatchOnlyIdle'
  BY <1>3 DEF DispatchOnlyIdle
<1>10. PackageDone'
  <2>1. \A i \in 0..(toCommit - 2) :
          /\ i \in Slots /\ i + 1 \in 0..(toCommit - 1) /\ i + 1 < RobSize
    BY <1>3, SizesAssumption DEF PackageDone, Slots
  <2>2. \A i \in 0..(toCommit - 2) : At(i)'.done
    BY <1>2, <2>1 DEF PackageDone, At
  <2>3. QED
    BY <1>2, <1>3, <2>2 DEF PackageDone
<1>11. Target'
  <2>1. ASSUME robState = "Undo"
        PROVE  /\ rollBackTag # header
               /\ Rob!Live(rollBackTag)'
               /\ Rob!Age(rollBackTag)' >= toCommit'
    <3>1. Rob!Live(rollBackTag) /\ Rob!Age(rollBackTag) >= toCommit
      BY <2>1 DEF Target
    <3>2. rollBackTag # header
      BY <1>3, <1>4, <3>1
    <3>3. Rob!Age(rollBackTag) \in Slots
      BY <1>0, <1>3, Geometry
    <3>4. QED
      BY <1>0, <1>1, <1>3, <3>1, <3>2, <3>3, SizesAssumption
      DEF Rob!Live, Rob!Age, Rob!Pop, Rob!HeaderInc, Rob!GetNextPtr, Slots,
          Rob!Slots, Shape, Rob!TypeOK
  <2>2. TargetIsYoungest /\ rollBackTag # header => TargetIsYoungest'
    BY <1>0, <1>1, <1>3, SizesAssumption
    DEF TargetIsYoungest, Rob!SlotAt, Rob!Pop, Rob!HeaderInc,
        Rob!GetNextPtr, Slots, Rob!Slots, Shape, Rob!TypeOK
  <2>3. TargetIsYoungest /\ rollBackTag = header => usage = 1
    BY <1>0, <1>3, SizesAssumption
    DEF TargetIsYoungest, Rob!SlotAt, Slots
  <2>4. CASE robState = "Undo"
    BY <1>2, <1>3, <2>1, <2>2, <2>4 DEF Target
  <2>5. CASE robState = "WaitForResume"
    BY <1>2, <1>3, <2>2, <2>3, <2>5 DEF Target
  <2>6. CASE robState = "FlushBackend"
    BY <1>2, <2>6 DEF Target
  <2>7. CASE robState = "Idle"
    BY <1>3, <2>7 DEF Target
  <2>8. QED
    BY <2>4, <2>5, <2>6, <2>7 DEF TypeOK, RobStates
<1>12. QED
  BY <1>5, <1>7, <1>8, <1>9, <1>10, <1>11

LEMMA ControlSendCommitReq ==
  ASSUME Control, SendCommitReq
  PROVE  Control'
<1> USE DEF Control
<1>0. Shape
  BY DEF TypeOK, Shape
<1>1. PICK k \in 0..DeallocWidth : Committable(k) /\ toCommit' = k
  BY DEF SendCommitReq
<1>2. /\ UNCHANGED <<rob, header, tail, usage, robState, rollBackTag, free,
                     renameTable, allocated, ready, iew, commitMap, path>>
      /\ phase = "Commit" /\ phase' = "Evaluate" /\ budget' = AllocWidth
  BY DEF SendCommitReq, robVars, regVars, history
<1>3. /\ k <= usage /\ usage \in 0..RobSize /\ k \in Nat
      /\ \A j \in 0..(k - 1) : /\ j \in Slots /\ At(j).done
                               /\ ReadyForCommit(Rob!SlotAt(j))
  BY <1>1, SizesAssumption
  DEF Committable, At, TypeOK, Rob!TypeOK, Slots
<1>4. TypeOK'
  BY <1>1, <1>2, SizesAssumption
  DEF TypeOK, Phases, Rob!TypeOK, Rob!CursorsAgree, Rob!SlotAt
<1>5. FlightMatches' /\ FlightHasRegister' /\ SquashedOnlyInRecovery'
  BY <1>2 DEF FlightMatches, FlightHasRegister, SquashedOnlyInRecovery,
              Rob!Live, Rob!Age
<1>6. DispatchOnlyIdle'
  BY <1>2 DEF DispatchOnlyIdle
<1>7. PackageDone'
  BY <1>1, <1>2, <1>3 DEF PackageDone, At, Rob!SlotAt
<1>8. robState = "Undo" => Rob!Age(rollBackTag) >= k
  <2> SUFFICES ASSUME robState = "Undo", k > 0
               PROVE  Rob!Age(rollBackTag) >= k
    BY <1>0, <1>3, Geometry, SizesAssumption DEF TypeOK, Slots
  <2>1. k - 1 \in Slots /\ Rob!IsOlder(Rob!SlotAt(k - 1), rollBackTag)
    BY <1>3 DEF ReadyForCommit
  <2>2. k - 1 < Rob!Age(rollBackTag) /\ Rob!Age(rollBackTag) \in Slots
    BY <1>0, <2>1, Geometry, OlderByAge DEF TypeOK
  <2>3. QED
    BY <1>3, <2>2, SizesAssumption DEF Slots
<1>9. Target'
  BY <1>1, <1>2, <1>8
  DEF Target, TargetIsYoungest, Rob!SlotAt, Rob!Live, Rob!Age
<1>10. QED
  BY <1>4, <1>5, <1>6, <1>7, <1>9

LEMMA ReleaseTypes ==
  ASSUME TypeOK, NEW t \in Slots, ReleaseResource(t)
  PROVE  /\ free' \in [PhyReg -> Nat]
         /\ renameTable' \in [ArchReg -> Phy]
         /\ allocated' \subseteq PhyReg /\ ready' \subseteq PhyReg
<1>1. rob[t] \in Entry
  BY DEF TypeOK, Rob!TypeOK, Rob!Slots, Slots
<1>2. CASE rob[t].rd = NoReg
  BY <1>2 DEF ReleaseResource, TypeOK, regVars
<1>3. CASE rob[t].rd # NoReg
  <2>1. /\ rob[t].phyRd \in Phy /\ rob[t].LphyRd \in Phy
        /\ rob[t].rd \in ArchReg
    BY <1>1, <1>3 DEF Entry, Rd
  <2>2. /\ Freed(rob[t].phyRd)
        /\ renameTable' = [renameTable EXCEPT ![rob[t].rd] = rob[t].LphyRd]
    BY <1>3 DEF ReleaseResource
  <2>3. QED
    BY <2>1, <2>2, FreedTypes DEF TypeOK
<1>4. QED
  BY <1>2, <1>3

LEMMA ControlRollBackStep ==
  ASSUME Control, RollBackStep
  PROVE  Control'
<1> USE DEF Control
<1> DEFINE t == Rob!GetLastest
<1>0. Shape /\ t \in Slots /\ rollBackTag \in Slots
  BY SizesAssumption
  DEF TypeOK, Shape, Rob!TypeOK, Rob!Slots, Slots, Rob!GetLastest,
      Rob!GetLastPtr
<1>1. /\ robState = "Undo" /\ phase = "Evaluate" /\ phase' = phase
      /\ UNCHANGED <<rollBackTag, iew, toCommit, commitMap, path>>
      /\ rob \in [Slots -> Entry]
  BY DEF RollBackStep, RollsBack, history, TypeOK, Rob!TypeOK, Rob!Slots, Slots
<1>2. /\ Rob!Live(rollBackTag) /\ Rob!Age(rollBackTag) >= toCommit
      /\ usage \in 1..RobSize
      /\ Rob!Age(rollBackTag) \in Slots /\ toCommit \in Nat
      /\ t = Rob!SlotAt(usage - 1) /\ Rob!Age(t) = usage - 1
  <2>1. Rob!Live(rollBackTag) /\ Rob!Age(rollBackTag) >= toCommit
    BY <1>1 DEF Target
  <2>2. Rob!Age(rollBackTag) \in Slots
    BY <1>0, Geometry
  <2>3. usage \in 1..RobSize /\ usage - 1 \in Slots
    BY <2>1, <2>2, SizesAssumption DEF Rob!Live, TypeOK, Rob!TypeOK, Slots
  <2>4. QED
    BY <1>0, <2>1, <2>2, <2>3, Geometry DEF TypeOK
<1>3. /\ free' \in [PhyReg -> Nat]
      /\ renameTable' \in [ArchReg -> Phy]
      /\ allocated' \subseteq PhyReg /\ ready' \subseteq PhyReg
  BY <1>0, ReleaseTypes DEF RollBackStep, regVars, TypeOK
<1>4. CASE t = rollBackTag
  <2>1. /\ UNCHANGED <<rob, header, tail, usage, budget>>
        /\ robState' = "WaitForResume"
    BY <1>4 DEF RollBackStep, robVars
  <2>2. TypeOK'
    BY <1>1, <1>3, <2>1
    DEF TypeOK, RobStates, Rob!TypeOK, Rob!CursorsAgree, Rob!SlotAt
  <2>3. FlightMatches' /\ FlightHasRegister' /\ SquashedOnlyInRecovery'
    BY <1>1, <2>1
    DEF FlightMatches, FlightHasRegister, SquashedOnlyInRecovery,
        Rob!Live, Rob!Age
  <2>4. PackageDone' /\ DispatchOnlyIdle'
    BY <1>1, <2>1 DEF PackageDone, At, Rob!SlotAt, DispatchOnlyIdle
  <2>5. Target'
    BY <1>1, <1>2, <1>4, <2>1 DEF Target, TargetIsYoungest, Rob!SlotAt
  <2>6. QED
    BY <2>2, <2>3, <2>4, <2>5
<1>5. CASE t # rollBackTag
  <2>1. Rob!RollBack /\ robState' = robState /\ budget' = budget - 1
        /\ budget > 0
    BY <1>5 DEF RollBackStep, RollsBack
  <2>2. /\ Shape'
        /\ usage' = usage - 1 /\ usage > 0
        /\ rob' = rob
        /\ \A s \in Slots :
             /\ Rob!Age(s)' = Rob!Age(s)
             /\ Rob!Live(s)' <=> Rob!Live(s) /\ s # t
        /\ \A i \in Slots : Rob!SlotAt(i)' = Rob!SlotAt(i)
    BY <1>0, <2>1, RollBackGeometry
  <2>3. header' = header
    BY <2>1 DEF Rob!RollBack
  <2>4. TypeOK'
    BY <1>1, <1>3, <2>1, <2>2 DEF TypeOK, Shape
  <2>5. Rob!Age(rollBackTag) < usage - 1
    <3>1. Rob!Age(rollBackTag) < usage
      BY <1>2 DEF Rob!Live
    <3>2. Rob!Age(rollBackTag) # usage - 1
      BY <1>0, <1>2, <1>5, Geometry
    <3>3. QED
      BY <1>2, <3>1, <3>2, SizesAssumption DEF Slots
  <2>6. Speculation \/ rob[rollBackTag].done
    BY <1>1, <1>2, <1>5 DEF Target, TargetIsYoungest
  <2>7. FlightMatches' /\ FlightHasRegister' /\ SquashedOnlyInRecovery'
    BY <1>1, <2>1, <2>2, <2>6
    DEF FlightMatches, FlightHasRegister, SquashedOnlyInRecovery, TypeOK,
        InFlight
  <2>8. DispatchOnlyIdle'
    BY <1>1 DEF DispatchOnlyIdle
  <2>9. PackageDone'
    BY <1>1, <1>2, <2>2, <2>3, <2>5, SizesAssumption
    DEF PackageDone, At, Rob!SlotAt, Slots
  <2>10. Rob!Live(rollBackTag)' /\ Rob!Age(rollBackTag)' >= toCommit'
    BY <1>0, <1>1, <1>2, <2>2, <2>3, <2>5
    DEF Rob!Live, Rob!Age, Rob!Slots, Slots
  <2>11. Target'
    BY <1>1, <2>1, <2>2, <2>6, <2>10 DEF Target
  <2>12. QED
    BY <2>4, <2>7, <2>8, <2>9, <2>11
<1>6. QED
  BY <1>4, <1>5

LEMMA ControlEndTick ==
  ASSUME Control, EndTick
  PROVE  Control'
<1> USE DEF Control
<1>1. /\ UNCHANGED <<rob, header, tail, usage, rollBackTag, free,
                     renameTable, allocated, ready, toCommit, commitMap, path>>
      /\ phase' = "IEW" /\ budget' = 0
      /\ IF robState = "FlushBackend" THEN robState' = "Idle" /\ iew' = {}
         ELSE robState' = robState /\ iew' = iew
  BY DEF EndTick, robVars, regVars, history
<1>2. TypeOK'
  BY <1>1
  DEF TypeOK, Phases, RobStates, Rob!TypeOK, Rob!CursorsAgree, Rob!SlotAt
<1>3. FlightMatches' /\ FlightHasRegister' /\ SquashedOnlyInRecovery'
  BY <1>1 DEF FlightMatches, FlightHasRegister, SquashedOnlyInRecovery,
              Rob!Live, Rob!Age
<1>4. DispatchOnlyIdle' /\ PackageDone' /\ Target'
  BY <1>1 DEF DispatchOnlyIdle, PackageDone, Target, TargetIsYoungest, At,
              Rob!SlotAt, Rob!Live, Rob!Age
<1>5. QED
  BY <1>2, <1>3, <1>4

LEMMA ControlStutter ==
  ASSUME Control, UNCHANGED vars
  PROVE  Control'
  BY DEF Control, vars, robVars, regVars, tickVars, history, TypeOK,
         Rob!TypeOK, Rob!CursorsAgree, Rob!SlotAt, Rob!Live, Rob!Age,
         DispatchOnlyIdle, FlightMatches, FlightHasRegister,
         SquashedOnlyInRecovery, PackageDone, Target, TargetIsYoungest, At

LEMMA ControlNext == Control /\ [Next]_vars => Control'
<1> SUFFICES ASSUME Control, [Next]_vars PROVE Control'
  OBVIOUS
<1>1. ASSUME NEW y \in iew, AddrGen(y) \/ Execute(y) \/ WriteBack(y)
      PROVE  Control'
  BY <1>1, ControlAddrGen, ControlExecute, ControlWriteBack
<1>2. CASE EndIEW \/ EndDispatch
  BY <1>2, ControlEndPhase
<1>3. ASSUME NEW i \in Insn, NEW p \in Phy, AllocateInsn(i, p)
      PROVE  Control'
  BY <1>3, ControlAllocateInsn
<1>4. CASE CommitInsn
  BY <1>4, ControlCommitInsn
<1>5. CASE SendCommitReq
  BY <1>5, ControlSendCommitReq
<1>6. CASE RollBackStep
  BY <1>6, ControlRollBackStep
<1>7. CASE EndTick
  BY <1>7, ControlEndTick
<1>8. CASE UNCHANGED vars
  BY <1>8, ControlStutter
<1>9. QED
  BY <1>1, <1>2, <1>3, <1>4, <1>5, <1>6, <1>7, <1>8 DEF Next

LEMMA ControlAlways == Spec => []Control
  BY ControlInit, ControlNext, PTL DEF Spec

-----------------------------------------------------------------------------
(* The theorems.                                                           *)

(* Every variable keeps its type and the cursors of the re-order buffer    *)
(* agree, through any interleaving of renaming, execution, commit and      *)
(* recovery.                                                               *)
THEOREM TypeCorrect == Spec => []TypeOK
<1>1. Control => TypeOK
  BY DEF Control
<1>2. QED
  BY <1>1, ControlAlways, PTL

(* Rcu::RollBack always finds the entry it rolls back to: neither commit   *)
(* nor another rollback ever removes it from under a recovery.             *)
THEOREM RecoveryTargetCorrect == Spec => []RecoveryTargetLive
<1>1. Control => RecoveryTargetLive
  <2> SUFFICES ASSUME Control, robState = "WaitForResume"
               PROVE  Rob!Live(rollBackTag)
    BY DEF Control, Target, RecoveryTargetLive
  <2>1. Shape /\ usage \in 1..RobSize /\ rollBackTag = Rob!SlotAt(usage - 1)
    BY DEF Control, TypeOK, Shape, Rob!TypeOK, Target, TargetIsYoungest
  <2>2. rollBackTag \in Slots /\ Rob!Age(rollBackTag) = usage - 1
    BY <2>1, Geometry, SizesAssumption DEF Slots
  <2>3. QED
    BY <2>1, <2>2 DEF Rob!Live, Rob!Slots, Slots
<1>2. QED
  BY <1>1, ControlAlways, PTL

-----------------------------------------------------------------------------
(***************************************************************************)
(* Proofs that Rcu retires the program and nothing else: what is committed *)
(* was not fetched past a mispredicted branch or a fault, and what is      *)
(* rolled back was.                                                        *)
(*                                                                         *)
(* The argument keeps, for every entry of the window, whether an older one *)
(* sends the front end astray (WrongPathFollows), and shows that such an   *)
(* entry, once it is done, is never older than the target of the recovery  *)
(* (BadDoneBehindTarget): the package for commit stops short of the target *)
(* until the rollback has reached it.                                      *)
(***************************************************************************)

Recovers == robState \in {"Undo", "WaitForResume"}

-----------------------------------------------------------------------------
(* The inductive invariant.                                                *)

(* An entry is on the wrong path exactly when an older one is bad.         *)
WrongPathFollows ==
  \A t \in LiveSlots :
    rob[t].wrongPath <=> \E s \in LiveSlots : Before(s, t) /\ rob[s].bad

(* A resolved misprediction or fault is under recovery, or is younger than *)
(* the one that is.                                                        *)
BadDoneBehindTarget ==
  \A t \in LiveSlots : rob[t].bad /\ rob[t].done =>
    Recovers /\ ~Before(t, rollBackTag)

ExcpIsBad == \A t \in LiveSlots : rob[t].isExcp => rob[t].bad /\ rob[t].done

FlightKinds == \A y \in iew : y.bad => y.kind \in {"BRU", "LDU"}

(* A recovery to an instruction that misled nobody squashes nothing; one   *)
(* to an instruction that is not done waits for a branch or a FENCEI.      *)
TargetSettled ==
  Recovers =>
    /\ ~rob[rollBackTag].bad => TargetIsYoungest
    /\ ~rob[rollBackTag].done => rob[rollBackTag].kind \in {"BRU", "FENCEI"}

(* What the front end fetches, told from the window.                       *)
PathKnown ==
  LET e == rob[rollBackTag]
  IN  IF Recovers
      THEN /\ e.wrongPath => path = "wrong"
           /\ ~e.wrongPath /\ ~e.isExcp =>
                (path = "wrong" <=> e.bad /\ ~e.done)
      ELSE path = "wrong" <=> \E t \in LiveSlots : rob[t].bad

Program ==
  /\ WrongPathFollows
  /\ BadDoneBehindTarget
  /\ ExcpIsBad
  /\ FlightKinds
  /\ TargetSettled
  /\ PathKnown

-----------------------------------------------------------------------------
(* The window by ages.                                                     *)

LEMMA Ages ==
  ASSUME Control
  PROVE  /\ Shape /\ rob \in [Slots -> Entry] /\ rollBackTag \in Slots
         /\ usage \in Nat /\ toCommit \in Nat /\ toCommit <= usage
         /\ \A t \in Slots : /\ Rob!Age(t) \in Nat
                             /\ Rob!Live(t) <=> Rob!Age(t) < usage
         /\ \A s, t \in Slots : Rob!Age(s) = Rob!Age(t) => s = t
         /\ TargetIsYoungest <=>
              usage > 0 /\ Rob!Age(rollBackTag) = usage - 1
         /\ Recovers => Rob!Live(rollBackTag)
<1>1. /\ Shape /\ rob \in [Slots -> Entry] /\ rollBackTag \in Slots
      /\ usage \in 0..RobSize /\ toCommit \in Nat /\ toCommit <= usage
  BY SizesAssumption DEF Control, TypeOK, Shape, Rob!TypeOK, Rob!Slots, Slots,
                         PackageDone
<1>2. /\ \A t \in Slots : /\ Rob!Age(t) \in Nat
                          /\ Rob!Live(t) <=> Rob!Age(t) < usage
      /\ \A s, t \in Slots : Rob!Age(s) = Rob!Age(t) => s = t
  BY <1>1, Geometry, SMTT(40) DEF Rob!Live, Rob!Slots, Slots
<1>3. TargetIsYoungest <=> usage > 0 /\ Rob!Age(rollBackTag) = usage - 1
  <2>1. usage > 0 => usage - 1 \in Slots
    BY <1>1, SizesAssumption DEF Slots
  <2>2. QED
    BY <1>1, <2>1, Geometry DEF TargetIsYoungest
<1>4. Recovers => Rob!Live(rollBackTag)
  BY <1>1, <1>2, <1>3 DEF Recovers, Control, Target
<1>5. QED
  BY <1>1, <1>2, <1>3, <1>4

(* A bad entry of the package is the target of a recovery that has rolled  *)
(* back to it, and so the youngest entry.                                  *)
LEMMA BadInPackage ==
  ASSUME Control, Program, NEW t \in Slots, Rob!Age(t) < toCommit, rob[t].bad
  PROVE  /\ robState = "WaitForResume" /\ rollBackTag = t
         /\ Rob!Age(t) = usage - 1
<1>1. Rob!Live(t) /\ t \in LiveSlots
  BY Ages DEF LiveSlots
<1>2. rob[t].done
  BY Ages, UndoneBehindPackage
<1>3. Recovers /\ Rob!Age(rollBackTag) <= Rob!Age(t)
  BY <1>1, <1>2, Ages DEF Program, BadDoneBehindTarget, Before
<1>4. robState = "WaitForResume"
  BY <1>3, Ages DEF Recovers, Control, Target
<1>5. Rob!Age(rollBackTag) = usage - 1 /\ Rob!Age(t) <= usage - 1
  BY <1>1, <1>4, Ages DEF Control, Target
<1>6. QED
  BY <1>3, <1>4, <1>5, Ages

-----------------------------------------------------------------------------
(* Program is inductive relative to Control.                               *)

LEMMA ProgramInit == Init => Program
<1> SUFFICES ASSUME Init PROVE Program
  OBVIOUS
<1>1. LiveSlots = {}
  BY SizesAssumption DEF Init, LiveSlots, Rob!Live, Rob!Age, Rob!Slots, Slots
<1>2. robState = "Idle" /\ iew = {} /\ path = "right" /\ ~Recovers
  BY DEF Init, Recovers
<1>3. QED
  BY <1>1, <1>2
  DEF Program, WrongPathFollows, BadDoneBehindTarget, ExcpIsBad, FlightKinds,
      TargetSettled, PathKnown

(* A step that neither moves the window nor changes what the history knows *)
(* of its entries, and completes only entries that are not bad.            *)
LEMMA QuietProgram ==
  ASSUME Control, Program, rob' \in [Slots -> Entry],
         UNCHANGED <<header, tail, usage, rollBackTag, path>>,
         Recovers' <=> Recovers,
         \A t \in LiveSlots :
           /\ rob'[t].kind = rob[t].kind
           /\ rob'[t].bad <=> rob[t].bad
           /\ rob'[t].wrongPath <=> rob[t].wrongPath
           /\ rob'[t].isExcp <=> rob[t].isExcp
           /\ rob[t].done => rob'[t].done
           /\ rob[t].bad => (rob'[t].done <=> rob[t].done),
         FlightKinds'
  PROVE  Program'
<1>1. /\ \A t \in Slots : Rob!Age(t)' = Rob!Age(t)
      /\ LiveSlots' = LiveSlots
  BY Ages, StillGeometry DEF LiveSlots
<1>2. /\ LiveSlots \subseteq Slots /\ rollBackTag \in Slots
      /\ Recovers => rollBackTag \in LiveSlots
  BY Ages DEF LiveSlots
<1>3. \A s, t \in Slots : Before(s, t)' <=> Before(s, t)
  BY <1>1 DEF Before
<1>4. TargetIsYoungest' <=> TargetIsYoungest
  BY DEF TargetIsYoungest, Rob!SlotAt
<1>5. WrongPathFollows'
  <2> SUFFICES ASSUME NEW t \in LiveSlots
               PROVE  rob'[t].wrongPath <=>
                        \E s \in LiveSlots : Before(s, t)' /\ rob'[s].bad
    BY <1>1 DEF WrongPathFollows
  <2>1. rob[t].wrongPath <=> \E s \in LiveSlots : Before(s, t) /\ rob[s].bad
    BY DEF Program, WrongPathFollows
  <2>2. \A s \in LiveSlots : Before(s, t)' <=> Before(s, t)
    BY <1>2, <1>3
  <2>3. QED
    BY <2>1, <2>2
<1>6. BadDoneBehindTarget'
  <2> SUFFICES ASSUME NEW t \in LiveSlots, rob'[t].bad, rob'[t].done
               PROVE  Recovers' /\ ~Before(t, rollBackTag)'
    BY <1>1 DEF BadDoneBehindTarget
  <2>1. Recovers /\ ~Before(t, rollBackTag)
    BY DEF Program, BadDoneBehindTarget
  <2>2. QED
    BY <1>1, <1>2, <2>1 DEF Before
<1>7. ExcpIsBad'
  BY <1>1 DEF Program, ExcpIsBad
<1>8. TargetSettled'
  <2> SUFFICES ASSUME Recovers
               PROVE  /\ ~rob'[rollBackTag].bad => TargetIsYoungest
                      /\ ~rob'[rollBackTag].done =>
                           rob'[rollBackTag].kind \in {"BRU", "FENCEI"}
    BY <1>4 DEF TargetSettled
  <2>1. QED
    BY <1>2 DEF Program, TargetSettled
<1>9. PathKnown'
  <2>1. CASE Recovers
    <3> PICK e, f : e = rob[rollBackTag] /\ f = rob'[rollBackTag]
      OBVIOUS
    <3>1. /\ f.bad <=> e.bad
          /\ f.wrongPath <=> e.wrongPath
          /\ f.isExcp <=> e.isExcp
          /\ e.bad => (f.done <=> e.done)
      BY <1>2, <2>1
    <3>2. /\ e.wrongPath => path = "wrong"
          /\ ~e.wrongPath /\ ~e.isExcp =>
               (path = "wrong" <=> e.bad /\ ~e.done)
      BY <2>1 DEF Program, PathKnown
    <3>3. QED
      BY <2>1, <3>1, <3>2 DEF PathKnown
  <2>2. CASE ~Recovers
    BY <1>1, <2>2 DEF Program, PathKnown
  <2>3. QED
    BY <2>1, <2>2
<1>10. QED
  BY <1>5, <1>6, <1>7, <1>8, <1>9 DEF Program

(* The actions that only move the clock or an instruction in IEW.          *)
LEMMA ProgramClock ==
  ASSUME Control, Program,
         \/ \E y \in iew : AddrGen(y) \/ Execute(y)
         \/ EndIEW \/ EndDispatch \/ SendCommitReq \/ EndTick \/ UNCHANGED vars
  PROVE  Program'
<1>1. ASSUME NEW y \in iew, AddrGen(y)
      PROVE  Program'
  <2>1. y \in InFlight /\ y.tag \in Slots
    BY DEF Control, TypeOK, InFlight
  <2>2. rob' = [rob EXCEPT ![y.tag] =
                 [@ EXCEPT !.isStable = TRUE,
                           !.done = rob[y.tag].done \/ y.kind = "STU"]]
    BY <1>1 DEF AddrGen
  <2>3. rob' \in [Slots -> Entry]
    <3>1. rob[y.tag] \in Entry
      BY <2>1, Ages
    <3>2. [rob[y.tag] EXCEPT !.isStable = TRUE,
             !.done = rob[y.tag].done \/ y.kind = "STU"] \in Entry
      BY <3>1 DEF Entry
    <3>3. QED
      BY <2>2, <3>2, Ages
  <2>4. y.tag \in LiveSlots /\ y.kind = "STU" => ~rob[y.tag].bad
    BY <2>1 DEF LiveSlots, Control, FlightMatches, Program, FlightKinds
  <2>5. \A t \in LiveSlots :
          /\ rob'[t].kind = rob[t].kind
          /\ rob'[t].bad <=> rob[t].bad
          /\ rob'[t].wrongPath <=> rob[t].wrongPath
          /\ rob'[t].isExcp <=> rob[t].isExcp
          /\ rob[t].done => rob'[t].done
          /\ rob[t].bad => (rob'[t].done <=> rob[t].done)
    BY <2>1, <2>2, <2>4, Ages DEF LiveSlots, Entry
  <2>6. FlightKinds'
    BY <1>1, <2>1 DEF AddrGen, Program, FlightKinds, InFlight
  <2>7. QED
    BY <1>1, <2>3, <2>5, <2>6, QuietProgram
    DEF AddrGen, history, Recovers
<1>2. ASSUME NEW y \in iew, Execute(y)
      PROVE  Program'
  <2>1. y \in InFlight
    BY DEF Control, TypeOK
  <2>2. FlightKinds'
    BY <1>2, <2>1 DEF Execute, Program, FlightKinds, InFlight
  <2>3. QED
    BY <1>2, <2>2, QuietProgram, Ages
    DEF Execute, robVars, history, Recovers
<1>3. CASE EndIEW \/ EndDispatch \/ SendCommitReq \/ EndTick \/ UNCHANGED vars
  <2>1. /\ UNCHANGED <<rob, header, tail, usage, rollBackTag, path>>
        /\ iew' \subseteq iew
        /\ robState' = robState \/ (robState = "FlushBackend" /\ robState' = "Idle")
    BY <1>3 DEF EndIEW, EndDispatch, SendCommitReq, EndTick, vars, robVars,
                history
  <2>2. FlightKinds' /\ (Recovers' <=> Recovers)
    BY <2>1 DEF Program, FlightKinds, Recovers
  <2>3. QED
    BY <2>1, <2>2, QuietProgram, Ages
<1>4. QED
  BY <1>1, <1>2, <1>3

(* A write back of a live instruction: what changes in its entry.          *)
LEMMA WrittenBack ==
  ASSUME Control, NEW y \in iew, WriteBack(y), Rob!Live(y.tag)
  PROVE  /\ y \in InFlight /\ y.tag \in LiveSlots /\ LiveSlots \subseteq Slots
         /\ ~rob[y.tag].done
         /\ rob[y.tag].kind = y.kind /\ (rob[y.tag].bad <=> y.bad)
         /\ rob' \in [Slots -> Entry]
         /\ \A t \in Slots : t # y.tag => rob'[t] = rob[t]
         /\ rob'[y.tag].kind = y.kind
         /\ rob'[y.tag].done
         /\ rob'[y.tag].bad <=> y.bad
         /\ rob'[y.tag].wrongPath <=> rob[y.tag].wrongPath
         /\ rob'[y.tag].isExcp <=>
              rob[y.tag].isExcp \/ (y.bad /\ y.kind = "LDU")
         /\ UNCHANGED <<header, tail, usage>>
         /\ LiveSlots' = LiveSlots
         /\ \A t \in Slots : Rob!Age(t)' = Rob!Age(t)
<1>1. /\ y \in InFlight /\ y.tag \in Slots /\ y.tag \in LiveSlots
      /\ LiveSlots \subseteq Slots
  BY DEF Control, TypeOK, InFlight, LiveSlots
<1>2. /\ ~rob[y.tag].done
      /\ rob[y.tag].kind = y.kind /\ rob[y.tag].bad = y.bad
  BY DEF Control, FlightMatches
<1>3. Accepted(y.tag)
  BY <1>1, Ages, AcceptedIsLive
<1>4. rob' = [rob EXCEPT ![y.tag] =
               [@ EXCEPT !.done = TRUE, !.isStable = TRUE,
                         !.isExcp = rob[y.tag].isExcp
                                      \/ (y.bad /\ y.kind = "LDU")]]
  BY <1>3 DEF WriteBack
<1>5. rob[y.tag] \in Entry /\ rob \in [Slots -> Entry]
  BY <1>1, Ages
<1>6. [rob[y.tag] EXCEPT !.done = TRUE, !.isStable = TRUE,
         !.isExcp = rob[y.tag].isExcp \/ (y.bad /\ y.kind = "LDU")] \in Entry
  BY <1>5 DEF Entry
<1>7. rob' \in [Slots -> Entry]
  BY <1>4, <1>5, <1>6
<1>8. /\ \A t \in Slots : t # y.tag => rob'[t] = rob[t]
      /\ rob'[y.tag].kind = rob[y.tag].kind
      /\ rob'[y.tag].done
      /\ rob'[y.tag].bad = rob[y.tag].bad
      /\ rob'[y.tag].wrongPath = rob[y.tag].wrongPath
      /\ rob'[y.tag].isExcp <=>
           rob[y.tag].isExcp \/ (y.bad /\ y.kind = "LDU")
  BY <1>1, <1>4, <1>5 DEF Entry
<1>9. UNCHANGED <<header, tail, usage>>
  BY DEF WriteBack
<1>10. /\ LiveSlots' = LiveSlots
       /\ \A t \in Slots : Rob!Age(t)' = Rob!Age(t)
  BY <1>7, <1>9, Ages, StillGeometry DEF LiveSlots
<1>11. QED
  BY <1>1, <1>2, <1>7, <1>8, <1>9, <1>10

(* A misprediction or a fault that takes over the recovery.                *)
LEMMA ProgramTakesOver ==
  ASSUME Control, Program, NEW y \in iew, WriteBack(y), Rob!Live(y.tag),
         TakesOver(y)
  PROVE  Program'
<1> PICK g : g = y.tag
  OBVIOUS
<1> PICK e, f : e = rob[g] /\ f = rob'[g]
  OBVIOUS
<1>1. /\ g \in LiveSlots /\ LiveSlots \subseteq Slots
      /\ ~e.done /\ e.bad /\ f.done /\ f.bad /\ y.bad
      /\ f.wrongPath <=> e.wrongPath
      /\ f.isExcp <=> e.isExcp \/ y.kind = "LDU"
      /\ \A t \in LiveSlots : t # g => rob'[t] = rob[t]
      /\ LiveSlots' = LiveSlots
      /\ \A s, t \in Slots : Before(s, t)' <=> Before(s, t)
  BY WrittenBack DEF TakesOver, Before
<1>2. /\ \A t \in LiveSlots : rob'[t].bad <=> rob[t].bad
      /\ \A t \in LiveSlots : rob'[t].wrongPath <=> rob[t].wrongPath
  BY <1>1
<1>3. /\ robState' = "Undo" /\ Recovers' /\ rollBackTag' = g
      /\ path' = IF y.kind = "BRU" /\ ~e.wrongPath THEN "right" ELSE path
      /\ iew' \subseteq iew
  <2>1. Accepted(y.tag)
    BY <1>1, Ages, AcceptedIsLive
  <2>2. QED
    BY <2>1 DEF WriteBack, Recovers
<1>4. Recovers => Rob!Age(g) <= Rob!Age(rollBackTag)
  <2>1. Recovers => Rob!IsOlder(g, rollBackTag) \/ g = rollBackTag
    BY DEF TakesOver, Recovers
  <2>2. QED
    BY <1>1, <2>1, Ages, OlderByAge
<1>5. WrongPathFollows'
  <2> SUFFICES ASSUME NEW t \in LiveSlots
               PROVE  rob'[t].wrongPath <=>
                        \E s \in LiveSlots : Before(s, t)' /\ rob'[s].bad
    BY <1>1 DEF WrongPathFollows
  <2>1. rob[t].wrongPath <=> \E s \in LiveSlots : Before(s, t) /\ rob[s].bad
    BY DEF Program, WrongPathFollows
  <2>2. \A s \in LiveSlots : Before(s, t)' <=> Before(s, t)
    BY <1>1
  <2>3. QED
    BY <1>2, <2>1, <2>2
<1>6. BadDoneBehindTarget'
  <2> SUFFICES ASSUME NEW t \in LiveSlots, rob'[t].bad, rob'[t].done
               PROVE  ~(Rob!Age(t) < Rob!Age(g))
    <3>1. \A t \in LiveSlots : Before(t, g)' <=> Rob!Age(t) < Rob!Age(g)
      BY <1>1 DEF Before
    <3>2. QED
      BY <1>1, <1>3, <3>1 DEF BadDoneBehindTarget
  <2>1. CASE t = g
    BY <1>1, <2>1, Ages
  <2>2. CASE t # g
    <3>1. rob[t].bad /\ rob[t].done
      BY <1>1, <2>2
    <3>2. Recovers /\ ~(Rob!Age(t) < Rob!Age(rollBackTag))
      BY <3>1 DEF Program, BadDoneBehindTarget, Before
    <3>3. QED
      BY <1>1, <1>4, <3>2, Ages
  <2>3. QED
    BY <2>1, <2>2
<1>7. ExcpIsBad'
  BY <1>1 DEF Program, ExcpIsBad
<1>8. FlightKinds'
  BY <1>3 DEF Program, FlightKinds
<1>9. TargetSettled'
  BY <1>1, <1>3 DEF TargetSettled
<1>10. PathKnown'
  <2>1. e.wrongPath => path = "wrong"
    <3> SUFFICES ASSUME e.wrongPath PROVE path = "wrong"
      OBVIOUS
    <3>1. PICK s \in LiveSlots : Rob!Age(s) < Rob!Age(g) /\ rob[s].bad
      BY <1>1 DEF Program, WrongPathFollows, Before
    <3>2. CASE ~Recovers
      BY <3>1, <3>2 DEF Program, PathKnown
    <3>3. CASE Recovers
      <4>1. rollBackTag \in LiveSlots /\ Before(s, rollBackTag)
        BY <1>1, <1>4, <3>1, <3>3, Ages DEF Before, LiveSlots
      <4>2. rob[rollBackTag].wrongPath
        BY <3>1, <4>1 DEF Program, WrongPathFollows
      <4>3. QED
        BY <3>3, <4>2 DEF Program, PathKnown
    <3>4. QED
      BY <3>2, <3>3
  <2>2. y.kind \in {"BRU", "LDU"}
    BY <1>1 DEF Program, FlightKinds
  <2>3. rob'[rollBackTag'] = f
    BY <1>3
  <2>4. /\ f.wrongPath => path' = "wrong"
        /\ ~f.wrongPath /\ ~f.isExcp => path' = "right"
    BY <1>1, <1>3, <2>1, <2>2
  <2>5. QED
    BY <1>1, <1>3, <2>3, <2>4 DEF PathKnown
<1>11. QED
  BY <1>5, <1>6, <1>7, <1>8, <1>9, <1>10 DEF Program

(* Without speculation: the branch the front end waited for was right.     *)
LEMMA ProgramResumes ==
  ASSUME Control, Program, NEW y \in iew, WriteBack(y), Rob!Live(y.tag),
         ~y.bad, robState = "WaitForResume", y.tag = rollBackTag,
         robState' = "Idle", UNCHANGED <<rollBackTag, path>>
  PROVE  Program'
<1> PICK g : g = y.tag
  OBVIOUS
<1>1. /\ g \in LiveSlots /\ LiveSlots \subseteq Slots
      /\ ~rob[g].bad /\ ~rob'[g].bad
      /\ rob'[g].wrongPath <=> rob[g].wrongPath
      /\ rob'[g].isExcp <=> rob[g].isExcp
      /\ \A t \in LiveSlots : t # g => rob'[t] = rob[t]
      /\ LiveSlots' = LiveSlots
      /\ \A s, t \in Slots : Before(s, t)' <=> Before(s, t)
  BY WrittenBack DEF Before
<1>2. \A t \in LiveSlots : /\ rob'[t].bad <=> rob[t].bad
                           /\ rob'[t].wrongPath <=> rob[t].wrongPath
  BY <1>1
<1>3. /\ Recovers /\ ~Recovers' /\ rollBackTag = g /\ iew' \subseteq iew
      /\ Rob!Age(g) = usage - 1
  BY Ages DEF Recovers, WriteBack, Control, Target
<1>4. \A t \in LiveSlots : t # g => Before(t, g)
  BY <1>1, <1>3, Ages DEF LiveSlots, Before
<1>5. \A t \in LiveSlots : rob[t].bad => ~rob[t].done
  BY <1>1, <1>3, <1>4 DEF Program, BadDoneBehindTarget
<1>6. WrongPathFollows'
  <2> SUFFICES ASSUME NEW t \in LiveSlots
               PROVE  rob'[t].wrongPath <=>
                        \E s \in LiveSlots : Before(s, t)' /\ rob'[s].bad
    BY <1>1 DEF WrongPathFollows
  <2>1. rob[t].wrongPath <=> \E s \in LiveSlots : Before(s, t) /\ rob[s].bad
    BY DEF Program, WrongPathFollows
  <2>2. \A s \in LiveSlots : Before(s, t)' <=> Before(s, t)
    BY <1>1
  <2>3. QED
    BY <1>2, <2>1, <2>2
<1>7. BadDoneBehindTarget'
  BY <1>1, <1>5 DEF BadDoneBehindTarget
<1>8. ExcpIsBad'
  BY <1>1 DEF Program, ExcpIsBad
<1>9. FlightKinds' /\ TargetSettled'
  BY <1>3 DEF Program, FlightKinds, TargetSettled
<1>10. path = "wrong" <=> \E t \in LiveSlots : rob[t].bad
  <2>1. rob[g].wrongPath <=> \E t \in LiveSlots : rob[t].bad
    BY <1>1, <1>4 DEF Program, WrongPathFollows
  <2>2. ~rob[g].isExcp
    BY <1>1 DEF Program, ExcpIsBad
  <2>3. /\ rob[g].wrongPath => path = "wrong"
        /\ ~rob[g].wrongPath => path # "wrong"
    BY <1>1, <1>3, <2>2 DEF Program, PathKnown
  <2>4. QED
    BY <2>1, <2>3
<1>11. PathKnown'
  BY <1>1, <1>2, <1>3, <1>10 DEF PathKnown
<1>12. QED
  BY <1>6, <1>7, <1>8, <1>9, <1>11 DEF Program

(* A fault or a misprediction younger than the recovery under way.         *)
LEMMA ProgramTooYoung ==
  ASSUME Control, Program, NEW y \in iew, WriteBack(y), Rob!Live(y.tag),
         y.bad, ~TakesOver(y),
         UNCHANGED <<robState, rollBackTag, path>>
  PROVE  Program'
<1> PICK g : g = y.tag
  OBVIOUS
<1>1. /\ g \in LiveSlots /\ LiveSlots \subseteq Slots /\ g \in Slots
      /\ rob[g].kind = y.kind /\ ~rob[g].done
      /\ rob[g].bad /\ rob'[g].bad /\ rob'[g].done
      /\ rob'[g].wrongPath <=> rob[g].wrongPath
      /\ \A t \in LiveSlots : t # g => rob'[t] = rob[t]
      /\ LiveSlots' = LiveSlots
      /\ UNCHANGED <<header, tail, usage>>
      /\ \A s, t \in Slots : Before(s, t)' <=> Before(s, t)
  BY WrittenBack DEF Before
<1>2. \A t \in LiveSlots : /\ rob'[t].bad <=> rob[t].bad
                           /\ rob'[t].wrongPath <=> rob[t].wrongPath
  BY <1>1
<1>3. Recovers /\ rollBackTag \in LiveSlots
  <2>1. robState # "Idle" /\ usage > 0
    BY <1>1, Ages DEF TakesOver
  <2>2. QED
    BY <2>1, Ages DEF Recovers, Control, TypeOK, RobStates, Target, LiveSlots
<1>4. ~Before(g, rollBackTag) /\ g # rollBackTag
  <2>1. ~Rob!IsOlder(g, rollBackTag) /\ ~(y.kind = "BRU" /\ g = rollBackTag)
    BY DEF TakesOver
  <2>2. ~Before(g, rollBackTag)
    BY <1>1, <2>1, Ages, OlderByAge DEF Before
  <2>3. y.kind \in {"BRU", "LDU"}
    BY DEF Program, FlightKinds
  <2>4. g # rollBackTag
    BY <1>1, <1>3, <2>1, <2>3 DEF Program, TargetSettled
  <2>5. QED
    BY <2>2, <2>4
<1>5. /\ iew' \subseteq iew /\ rob'[rollBackTag] = rob[rollBackTag]
      /\ Recovers' /\ (TargetIsYoungest' <=> TargetIsYoungest)
  BY <1>1, <1>3, <1>4
  DEF WriteBack, Recovers, TargetIsYoungest, Rob!SlotAt
<1>6. WrongPathFollows'
  <2> SUFFICES ASSUME NEW t \in LiveSlots
               PROVE  rob'[t].wrongPath <=>
                        \E s \in LiveSlots : Before(s, t)' /\ rob'[s].bad
    BY <1>1 DEF WrongPathFollows
  <2>1. rob[t].wrongPath <=> \E s \in LiveSlots : Before(s, t) /\ rob[s].bad
    BY DEF Program, WrongPathFollows
  <2>2. \A s \in LiveSlots : Before(s, t)' <=> Before(s, t)
    BY <1>1
  <2>3. QED
    BY <1>2, <2>1, <2>2
<1>7. BadDoneBehindTarget'
  <2> SUFFICES ASSUME NEW t \in LiveSlots, rob'[t].bad, rob'[t].done
               PROVE  ~Before(t, rollBackTag)
    <3>1. \A t \in LiveSlots : Before(t, rollBackTag)' <=> Before(t, rollBackTag)
      BY <1>1, <1>3, WrittenBack DEF Before
    <3>2. QED
      BY <1>1, <1>5, <3>1 DEF BadDoneBehindTarget
  <2>1. QED
    BY <1>1, <1>4 DEF Program, BadDoneBehindTarget
<1>8. ExcpIsBad'
  BY <1>1 DEF Program, ExcpIsBad
<1>9. FlightKinds' /\ TargetSettled'
  BY <1>3, <1>5 DEF Program, FlightKinds, TargetSettled
<1>10. PathKnown'
  BY <1>3, <1>5 DEF Program, PathKnown
<1>11. QED
  BY <1>6, <1>7, <1>8, <1>9, <1>10 DEF Program

LEMMA ProgramWriteBack ==
  ASSUME Control, Program, NEW y \in iew, WriteBack(y)
  PROVE  Program'
<1>1. y.tag \in Slots /\ iew' \subseteq iew
      /\ UNCHANGED <<header, tail, usage>>
  BY DEF Control, TypeOK, InFlight, WriteBack
<1>2. FlightKinds'
  BY <1>1 DEF Program, FlightKinds
<1>3. CASE ~Rob!Live(y.tag)
  <2>1. UNCHANGED <<rob, robState, rollBackTag, path>>
    BY <1>1, <1>3, Ages, AcceptedIsLive DEF WriteBack
  <2>2. QED
    BY <1>1, <1>2, <2>1, Ages, QuietProgram DEF Recovers
<1>4. CASE Rob!Live(y.tag)
  <2>0. Accepted(y.tag)
    BY <1>1, <1>4, Ages, AcceptedIsLive
  <2>1. CASE TakesOver(y)
    BY <1>4, <2>1, ProgramTakesOver
  <2>2. CASE ~TakesOver(y)
    <3>1. UNCHANGED <<rollBackTag, path>>
      BY <2>0, <2>2 DEF WriteBack
    <3>2. CASE y.bad
      <4>1. robState' = robState
        BY <2>0, <2>2, <3>2 DEF WriteBack
      <4>2. QED
        BY <1>4, <2>2, <3>1, <3>2, <4>1, ProgramTooYoung
    <3>3. CASE ~y.bad /\ robState' # robState
      <4>1. /\ robState = "WaitForResume" /\ y.tag = rollBackTag
            /\ robState' = "Idle"
        BY <2>0, <2>2, <3>3 DEF WriteBack
      <4>2. QED
        BY <1>4, <3>1, <3>3, <4>1, ProgramResumes
    <3>4. CASE ~y.bad /\ robState' = robState
      <4>1. \A t \in LiveSlots :
              /\ rob'[t].kind = rob[t].kind
              /\ rob'[t].bad <=> rob[t].bad
              /\ rob'[t].wrongPath <=> rob[t].wrongPath
              /\ rob'[t].isExcp <=> rob[t].isExcp
              /\ rob[t].done => rob'[t].done
              /\ rob[t].bad => (rob'[t].done <=> rob[t].done)
        BY <1>4, <3>4, WrittenBack
      <4>2. rob' \in [Slots -> Entry] /\ (Recovers' <=> Recovers)
        BY <1>4, <3>4, WrittenBack DEF Recovers
      <4>3. QED
        BY <1>1, <1>2, <3>1, <4>1, <4>2, QuietProgram
    <3>5. QED
      BY <3>2, <3>3, <3>4
  <2>3. QED
    BY <2>1, <2>2
<1>5. QED
  BY <1>3, <1>4

(* A dispatched instruction becomes the youngest; it is on the wrong path  *)
(* exactly when the front end is.                                          *)
LEMMA ProgramAllocateInsn ==
  ASSUME Control, Program, NEW i \in Insn, NEW p \in Phy, AllocateInsn(i, p)
  PROVE  Program'
<1> PICK g, new : g = tail /\ new = NewEntry(i, p)
  OBVIOUS
<1>0. robState = "Idle" /\ ~Recovers /\ Shape
  BY Ages DEF AllocateInsn, Control, DispatchOnlyIdle, Recovers
<1>1. /\ Rob!Push(new) /\ new \in Entry /\ g \in Slots
      /\ iew' = IF DoneAtDispatch(i) THEN iew
                ELSE iew \union {NewInFlight(i, p)}
  BY AllocatedTypes
  DEF AllocateInsn, NewEntry, NewInFlight, Control, TypeOK, Rob!TypeOK,
      Rob!Slots, Slots
<1>2. /\ usage' = usage + 1 /\ usage < RobSize
      /\ ~Rob!Live(g) /\ g = Rob!SlotAt(usage)
      /\ rob' = [rob EXCEPT ![g] = new]
      /\ \A t \in Slots : /\ Rob!Age(t)' = Rob!Age(t)
                          /\ Rob!Live(t)' <=> Rob!Live(t) \/ t = g
      /\ \A j \in Slots : Rob!SlotAt(j)' = Rob!SlotAt(j)
  BY <1>0, <1>1, PushGeometry
<1>3. /\ LiveSlots' = LiveSlots \union {g} /\ g \notin LiveSlots
      /\ LiveSlots \subseteq Slots
      /\ rob'[g] = new /\ \A t \in LiveSlots : rob'[t] = rob[t]
  BY <1>1, <1>2, Ages DEF LiveSlots
<1>4. /\ \A s, t \in Slots : Before(s, t)' <=> Before(s, t)
      /\ \A t \in LiveSlots : Before(t, g) /\ ~Before(g, t)
      /\ ~Before(g, g)
  <2>1. \A s, t \in Slots : Before(s, t)' <=> Before(s, t)
    BY <1>2 DEF Before
  <2>2. Rob!Age(g) >= usage /\ Rob!Age(g) \in Nat
    BY <1>1, <1>2, Ages
  <2>3. QED
    BY <2>1, <2>2, Ages DEF Before, LiveSlots
<1>5. /\ i.bad => i.kind \in {"BRU", "LDU"} /\ ~i.excp
      /\ i.bad \in BOOLEAN /\ i.excp \in BOOLEAN
  BY DEF Insn
<1>6. /\ new.kind = i.kind
      /\ new.bad <=> i.bad \/ i.excp
      /\ new.isExcp <=> i.excp
      /\ new.done <=> DoneAtDispatch(i)
      /\ new.wrongPath <=> path = "wrong"
      /\ path' = IF i.bad \/ i.excp THEN "wrong" ELSE path
      /\ path \in {"right", "wrong"}
  BY DEF NewEntry, AllocateInsn, Control, TypeOK
<1>7. /\ i.excp => new.done
      /\ i.bad => ~new.done
  BY <1>5, <1>6 DEF DoneAtDispatch
<1>8. path = "wrong" <=> \E t \in LiveSlots : rob[t].bad
  BY <1>0 DEF Program, PathKnown
<1>9. /\ Recovers' => rollBackTag' = g /\ robState' = "Undo"
      /\ i.excp => Recovers'
      /\ Recovers' /\ ~i.excp => i.kind \in {"BRU", "FENCEI"}
  BY <1>0 DEF AllocateInsn, ControlFlow, Recovers
<1>10. WrongPathFollows'
  <2>1. ASSUME NEW t \in LiveSlots
        PROVE  rob'[t].wrongPath <=>
                 \E s \in LiveSlots' : Before(s, t)' /\ rob'[s].bad
    <3>1. rob[t].wrongPath <=> \E s \in LiveSlots : Before(s, t) /\ rob[s].bad
      BY DEF Program, WrongPathFollows
    <3>2. \A s \in LiveSlots : Before(s, t)' <=> Before(s, t)
      BY <1>3, <1>4
    <3>3. ~Before(g, t)'
      BY <1>1, <1>3, <1>4
    <3>4. QED
      BY <1>3, <3>1, <3>2, <3>3
  <2>2. new.wrongPath <=> \E s \in LiveSlots' : Before(s, g)' /\ rob'[s].bad
    <3>1. \A s \in LiveSlots : Before(s, g)'
      BY <1>1, <1>3, <1>4
    <3>2. ~Before(g, g)'
      BY <1>1, <1>4
    <3>3. QED
      BY <1>3, <1>6, <1>8, <3>1, <3>2
  <2>3. QED
    BY <1>3, <2>1, <2>2 DEF WrongPathFollows
<1>11. BadDoneBehindTarget'
  <2>1. \A t \in LiveSlots : ~(rob[t].bad /\ rob[t].done)
    BY <1>0 DEF Program, BadDoneBehindTarget
  <2>2. new.bad /\ new.done => i.excp
    BY <1>6, <1>7
  <2>3. ~Before(g, rollBackTag)' \/ rollBackTag' # g
    BY <1>1, <1>4 DEF Before
  <2>4. QED
    BY <1>3, <1>9, <2>1, <2>2, <2>3 DEF BadDoneBehindTarget
<1>12. ExcpIsBad'
  BY <1>3, <1>6, <1>7 DEF Program, ExcpIsBad
<1>13. FlightKinds'
  BY <1>1, <1>5 DEF Program, FlightKinds, NewInFlight
<1>14. TargetSettled'
  <2>1. Recovers' => TargetIsYoungest'
    BY <1>1, <1>2, <1>9, Ages
    DEF TargetIsYoungest, Rob!SlotAt, Rob!Push
  <2>2. Recovers' /\ ~new.done => new.kind \in {"BRU", "FENCEI"}
    BY <1>6, <1>7, <1>9
  <2>3. QED
    BY <1>3, <1>9, <2>1, <2>2 DEF TargetSettled
<1>15. PathKnown'
  <2>1. CASE Recovers'
    <3>1. rob'[rollBackTag'] = new
      BY <1>3, <1>9, <2>1
    <3>2. /\ new.wrongPath => path' = "wrong"
          /\ ~new.wrongPath /\ ~new.isExcp =>
               (path' = "wrong" <=> new.bad /\ ~new.done)
      BY <1>6, <1>7
    <3>3. QED
      BY <2>1, <3>1, <3>2 DEF PathKnown
  <2>2. CASE ~Recovers'
    <3>1. path' = "wrong" <=> new.bad \/ \E t \in LiveSlots : rob[t].bad
      BY <1>6, <1>8
    <3>2. (\E t \in LiveSlots' : rob'[t].bad) <=>
            new.bad \/ \E t \in LiveSlots : rob[t].bad
      BY <1>3
    <3>3. QED
      BY <2>2, <3>1, <3>2 DEF PathKnown
  <2>3. QED
    BY <2>1, <2>2
<1>16. QED
  BY <1>10, <1>11, <1>12, <1>13, <1>14, <1>15 DEF Program

(* Commit takes the oldest entry; one that is bad leaves nothing behind.   *)
LEMMA ProgramCommitInsn ==
  ASSUME Control, Program, CommitInsn
  PROVE  Program'
<1> PICK g, e : g = header /\ e = rob[g]
  OBVIOUS
<1>0. Shape /\ Rob!Pop /\ toCommit > 0 /\ g \in Slots
  BY DEF CommitInsn, Control, TypeOK, Shape, Rob!TypeOK, Rob!Slots, Slots
<1>1. /\ usage' = usage - 1 /\ usage > 0 /\ rob' = rob
      /\ \A t \in Slots :
           /\ Rob!Live(t)' <=> Rob!Live(t) /\ t # g
           /\ t # g => Rob!Age(t)' = Rob!Age(t) - 1
  BY <1>0, PopGeometry
<1>2. Rob!Age(g) = 0 /\ g \in LiveSlots /\ e.done
  BY <1>0, <1>1, Geometry, Ages, UndoneBehindPackage DEF LiveSlots
<1>3. LiveSlots' = LiveSlots \ {g} /\ LiveSlots \subseteq Slots
  BY <1>1 DEF LiveSlots
<1>4. /\ \A s, t \in LiveSlots' : Before(s, t)' <=> Before(s, t)
      /\ \A t \in LiveSlots : ~Before(t, g)
  BY <1>1, <1>2, <1>3, Ages DEF Before, LiveSlots
<1>5. /\ rollBackTag' = rollBackTag /\ iew' = iew
      /\ LET resume == robState = "WaitForResume" /\ g = rollBackTag
         IN  /\ robState' = IF resume THEN "FlushBackend" ELSE robState
             /\ path' = IF resume /\ e.isExcp /\ ~e.wrongPath THEN "right"
                        ELSE path
  BY DEF CommitInsn
<1>6. ~e.wrongPath
  BY <1>2, <1>4 DEF Program, WrongPathFollows
<1>7. FlightKinds'
  BY <1>5 DEF Program, FlightKinds
<1>8. CASE robState = "WaitForResume" /\ g = rollBackTag
  <2>1. usage = 1
    BY <1>2, <1>8, Ages DEF Control, Target
  <2>2. LiveSlots' = {}
    BY <1>2, <1>3, <2>1, Ages DEF LiveSlots
  <2>3. ~Recovers' /\ Recovers
    BY <1>5, <1>8 DEF Recovers
  <2>4. path' # "wrong"
    <3>1. CASE e.isExcp
      BY <1>5, <1>6, <1>8, <3>1
    <3>2. CASE ~e.isExcp
      <4>1. path = "wrong" <=> e.bad /\ ~e.done
        BY <1>6, <1>8, <2>3, <3>2 DEF Program, PathKnown
      <4>2. QED
        BY <1>2, <1>5, <3>2, <4>1
    <3>3. QED
      BY <3>1, <3>2
  <2>5. WrongPathFollows' /\ BadDoneBehindTarget' /\ ExcpIsBad'
    BY <2>2 DEF WrongPathFollows, BadDoneBehindTarget, ExcpIsBad
  <2>6. TargetSettled'
    BY <2>3 DEF TargetSettled
  <2>7. PathKnown'
    BY <2>2, <2>3, <2>4 DEF PathKnown
  <2>8. QED
    BY <1>7, <2>5, <2>6, <2>7 DEF Program
<1>9. CASE ~(robState = "WaitForResume" /\ g = rollBackTag)
  <2>1. robState' = robState /\ path' = path /\ (Recovers' <=> Recovers)
    BY <1>5, <1>9 DEF Recovers
  <2>2. ~e.bad
    BY <1>0, <1>2, <1>9, Ages, BadInPackage
  <2>3. Recovers => rollBackTag \in LiveSlots' /\ rollBackTag # g
    <3>1. Recovers => rollBackTag # g
      BY <1>0, <1>2, <1>9, Ages DEF Recovers, Control, Target
    <3>2. QED
      BY <1>3, <3>1, Ages DEF LiveSlots
  <2>4. WrongPathFollows'
    <3> SUFFICES ASSUME NEW t \in LiveSlots'
                 PROVE  rob[t].wrongPath <=>
                          \E s \in LiveSlots' : Before(s, t)' /\ rob[s].bad
      BY <1>1 DEF WrongPathFollows
    <3>1. rob[t].wrongPath <=> \E s \in LiveSlots : Before(s, t) /\ rob[s].bad
      BY <1>3 DEF Program, WrongPathFollows
    <3>2. \A s \in LiveSlots' : Before(s, t)' <=> Before(s, t)
      BY <1>4
    <3>3. QED
      BY <1>3, <2>2, <3>1, <3>2
  <2>5. BadDoneBehindTarget'
    <3> SUFFICES ASSUME NEW t \in LiveSlots', rob[t].bad, rob[t].done
                 PROVE  Recovers' /\ ~Before(t, rollBackTag)'
      BY <1>1 DEF BadDoneBehindTarget
    <3>1. Recovers /\ ~Before(t, rollBackTag)
      BY <1>3 DEF Program, BadDoneBehindTarget
    <3>2. \A r \in LiveSlots' : Before(t, r)' <=> Before(t, r)
      BY <1>4
    <3>3. Before(t, rollBackTag)' <=> Before(t, rollBackTag)
      BY <1>1, <1>3, <1>5, <2>3, <3>1, Ages DEF Before
    <3>4. QED
      BY <2>1, <3>1, <3>3
  <2>6. ExcpIsBad'
    BY <1>1, <1>3 DEF Program, ExcpIsBad
  <2>7. TargetSettled'
    <3>1. Recovers /\ TargetIsYoungest => TargetIsYoungest'
      BY <1>0, <2>3, Ages, SizesAssumption
      DEF TargetIsYoungest, Rob!SlotAt, Rob!Pop, Rob!HeaderInc,
          Rob!GetNextPtr, Slots, Rob!Slots, Shape, Rob!TypeOK, CommitInsn
    <3>2. QED
      BY <1>1, <1>5, <2>1, <3>1 DEF Program, TargetSettled
  <2>8. PathKnown'
    <3>1. CASE Recovers
      BY <1>1, <1>5, <2>1, <3>1 DEF Program, PathKnown
    <3>2. CASE ~Recovers
      <4>1. (\E t \in LiveSlots' : rob[t].bad) <=> \E t \in LiveSlots : rob[t].bad
        BY <1>3, <2>2
      <4>2. QED
        BY <1>1, <2>1, <3>2, <4>1 DEF Program, PathKnown
    <3>3. QED
      BY <3>1, <3>2
  <2>9. QED
    BY <1>7, <2>4, <2>5, <2>6, <2>7, <2>8 DEF Program
<1>10. QED
  BY <1>8, <1>9

(* What is rolled back is younger than a target that is bad.               *)
LEMMA SquashesWrongPath ==
  ASSUME Control, Program, RollBackStep, Rob!GetLastest # rollBackTag
  PROVE  /\ rob[Rob!GetLastest].wrongPath
         /\ Rob!GetLastest \in LiveSlots
         /\ Rob!Age(Rob!GetLastest) = usage - 1
         /\ rob[rollBackTag].bad /\ rollBackTag \in LiveSlots
<1> PICK t : t = Rob!GetLastest
  OBVIOUS
<1>1. Recovers /\ rollBackTag \in LiveSlots /\ usage > 0 /\ Shape
  BY Ages DEF RollBackStep, RollsBack, Recovers, LiveSlots
<1>2. t \in LiveSlots /\ Rob!Age(t) = usage - 1
  <2>1. usage - 1 \in Slots
    BY <1>1, SizesAssumption DEF Shape, Rob!TypeOK, Slots
  <2>2. QED
    BY <1>1, <2>1, Geometry, Ages DEF LiveSlots
<1>3. Rob!Age(rollBackTag) < Rob!Age(t)
  BY <1>1, <1>2, Ages DEF LiveSlots
<1>4. rob[rollBackTag].bad
  BY <1>1, <1>2, <1>3, Ages DEF Program, TargetSettled
<1>5. rob[t].wrongPath
  BY <1>1, <1>2, <1>3, <1>4 DEF Program, WrongPathFollows, Before
<1>6. QED
  BY <1>1, <1>2, <1>4, <1>5

LEMMA ProgramRollBackStep ==
  ASSUME Control, Program, RollBackStep
  PROVE  Program'
<1> PICK g : g = Rob!GetLastest
  OBVIOUS
<1>0. /\ Recovers /\ Recovers' /\ iew' = iew /\ Shape
      /\ rollBackTag' = rollBackTag /\ path' = path
  BY Ages DEF RollBackStep, RollsBack, history, Recovers
<1>1. FlightKinds'
  BY <1>0 DEF Program, FlightKinds
<1>2. CASE g = rollBackTag
  BY <1>0, <1>1, <1>2, Ages, QuietProgram DEF RollBackStep, robVars
<1>3. CASE g # rollBackTag
  <2>1. /\ g \in LiveSlots /\ Rob!Age(g) = usage - 1
        /\ rob[rollBackTag].bad /\ rollBackTag \in LiveSlots
    BY <1>3, SquashesWrongPath
  <2>2. /\ rob' = rob
        /\ \A t \in Slots :
             /\ Rob!Age(t)' = Rob!Age(t)
             /\ Rob!Live(t)' <=> Rob!Live(t) /\ t # g
    BY <1>0, <1>3, RollBackGeometry DEF RollBackStep
  <2>3. /\ LiveSlots' = LiveSlots \ {g} /\ LiveSlots \subseteq Slots
        /\ \A s, t \in Slots : Before(s, t)' <=> Before(s, t)
        /\ \A t \in LiveSlots : ~Before(g, t)
    BY <2>1, <2>2, Ages DEF LiveSlots, Before
  <2>4. WrongPathFollows'
    <3> SUFFICES ASSUME NEW t \in LiveSlots'
                 PROVE  rob[t].wrongPath <=>
                          \E s \in LiveSlots' : Before(s, t)' /\ rob[s].bad
      BY <2>2 DEF WrongPathFollows
    <3>1. rob[t].wrongPath <=> \E s \in LiveSlots : Before(s, t) /\ rob[s].bad
      BY <2>3 DEF Program, WrongPathFollows
    <3>2. \A s \in LiveSlots' : Before(s, t)' <=> Before(s, t)
      BY <2>3
    <3>3. QED
      BY <2>3, <3>1, <3>2
  <2>5. BadDoneBehindTarget'
    <3> SUFFICES ASSUME NEW t \in LiveSlots', rob[t].bad, rob[t].done
                 PROVE  ~Before(t, rollBackTag)'
      BY <1>0, <2>2 DEF BadDoneBehindTarget
    <3>1. ~Before(t, rollBackTag)
      BY <2>3 DEF Program, BadDoneBehindTarget
    <3>2. QED
      BY <1>0, <2>1, <2>2, <2>3, <3>1 DEF Before
  <2>6. ExcpIsBad'
    BY <2>2, <2>3 DEF Program, ExcpIsBad
  <2>7. TargetSettled' /\ PathKnown'
    BY <1>0, <2>1, <2>2 DEF Program, TargetSettled, PathKnown
  <2>8. QED
    BY <1>1, <2>4, <2>5, <2>6, <2>7 DEF Program
<1>4. QED
  BY <1>2, <1>3

LEMMA ProgramNext == Control /\ Program /\ [Next]_vars => Program'
<1> SUFFICES ASSUME Control, Program, [Next]_vars PROVE Program'
  OBVIOUS
<1>1. ASSUME NEW y \in iew, AddrGen(y) \/ Execute(y) \/ WriteBack(y)
      PROVE  Program'
  BY <1>1, ProgramClock, ProgramWriteBack
<1>2. ASSUME NEW i \in Insn, NEW p \in Phy, AllocateInsn(i, p)
      PROVE  Program'
  BY <1>2, ProgramAllocateInsn
<1>3. CASE CommitInsn
  BY <1>3, ProgramCommitInsn
<1>4. CASE RollBackStep
  BY <1>4, ProgramRollBackStep
<1>5. CASE EndIEW \/ EndDispatch \/ SendCommitReq \/ EndTick \/ UNCHANGED vars
  BY <1>5, ProgramClock
<1>6. QED
  BY <1>1, <1>2, <1>3, <1>4, <1>5 DEF Next

LEMMA ProgramAlways == Spec => [](Control /\ Program)
  BY ControlInit, ControlNext, ProgramInit, ProgramNext, PTL DEF Spec

-----------------------------------------------------------------------------
(* The theorems.                                                           *)

(* Commit retires done instructions of the program and nothing else, and a *)
(* mispredicted branch or a fault only once the rollback has reached it:   *)
(* for every window, every width, with and without speculation, whatever   *)
(* the memory answers and although the package was picked a tick before.   *)
THEOREM CommitsCorrect == Spec => []CommitsOnlyTheProgram
<1>1. Control /\ Program => CommitsOnlyTheProgram
  <2> SUFFICES ASSUME Control, Program, NEW j \in 0..(toCommit - 1),
                      NEW t, t = Rob!SlotAt(j)
               PROVE  /\ Rob!Live(t) /\ rob[t].done /\ ~rob[t].wrongPath
                      /\ (phase = "Commit" /\ rob[t].bad) =>
                           robState = "WaitForResume" /\ rollBackTag = t
    BY DEF CommitsOnlyTheProgram
  <2>1. j \in Nat /\ j < toCommit /\ j < usage /\ j \in Slots
    BY Ages, SizesAssumption, SMTT(40) DEF Shape, Rob!TypeOK, Slots
  <2>2. t \in Slots /\ Rob!Age(t) = j
    BY <2>1, Ages, Geometry
  <2>3. t \in LiveSlots /\ rob[t].done
    BY <2>1, <2>2, Ages, UndoneBehindPackage DEF LiveSlots
  <2>4. ASSUME rob[t].wrongPath PROVE FALSE
    <3>1. PICK s \in LiveSlots : Rob!Age(s) < j /\ rob[s].bad
      BY <2>2, <2>3, <2>4 DEF Program, WrongPathFollows, Before
    <3>2. Rob!Age(s) < toCommit /\ s \in Slots
      BY <2>1, <3>1, Ages DEF LiveSlots
    <3>3. Rob!Age(s) = usage - 1
      BY <3>1, <3>2, BadInPackage
    <3>4. QED
      BY <2>1, <3>1, <3>3, Ages
  <2>5. rob[t].bad => robState = "WaitForResume" /\ rollBackTag = t
    BY <2>1, <2>2, BadInPackage
  <2>6. QED
    BY <2>3, <2>4, <2>5 DEF LiveSlots
<1>2. QED
  BY <1>1, ProgramAlways, PTL

(* A rollback squashes only what was fetched past a mispredicted branch or *)
(* a fault, whatever cuts it into ticks and whoever takes it over.         *)
THEOREM SquashesCorrect == Spec => OnlyWrongPathSquashed
<1>1. Control /\ Program /\ [Next]_vars =>
        [tail' # tail /\ usage' < usage => rob[Rob!GetLastest].wrongPath]_vars
  <2> SUFFICES ASSUME Control, Program, Next, tail' # tail, usage' < usage
               PROVE  rob[Rob!GetLastest].wrongPath
    BY DEF vars, robVars
  <2>1. ASSUME NEW y \in iew, AddrGen(y) \/ Execute(y) \/ WriteBack(y)
        PROVE  FALSE
    BY <2>1 DEF AddrGen, Execute, WriteBack, robVars
  <2>2. ASSUME NEW i \in Insn, NEW p \in Phy, AllocateInsn(i, p)
        PROVE  FALSE
    BY <2>2, Ages DEF AllocateInsn, Rob!Push, Rob!TailInc
  <2>3. ~CommitInsn
    BY DEF CommitInsn, Rob!Pop
  <2>4. ~(EndIEW \/ EndDispatch \/ SendCommitReq \/ EndTick)
    BY DEF EndIEW, EndDispatch, SendCommitReq, EndTick, robVars
  <2>5. RollBackStep
    BY <2>1, <2>2, <2>3, <2>4 DEF Next
  <2>6. Rob!GetLastest # rollBackTag
    BY <2>5 DEF RollBackStep, robVars
  <2>7. QED
    BY <2>5, <2>6, SquashesWrongPath
<1>2. QED
  BY <1>1, ProgramAlways, PTL DEF Spec, OnlyWrongPathSquashed

-----------------------------------------------------------------------------
(* CSR instructions.  They run before they are committed, so the property  *)
(* needs more than the package: every instruction that may still send the  *)
(* front end astray blocks them.  That is so only when the memory answers  *)
(* no load with an exception: AddrGen marks a load stable before its       *)
(* answer is known (Func_LSU.hh:134), and ReadyForCommit looks past it.    *)

BadUnstable ==
  \A t \in LiveSlots : rob[t].bad /\ ~rob[t].done =>
    ~rob[t].isStable /\ rob[t].kind = "BRU"

NoLoadBad == \A y \in iew : y.bad => y.kind = "BRU"

Csr ==
  /\ BadUnstable
  /\ NoLoadBad
  /\ CsrNotSpeculative

LEMMA CsrInit == Init => Csr
<1> SUFFICES ASSUME Init PROVE Csr
  OBVIOUS
<1>1. LiveSlots = {}
  BY SizesAssumption DEF Init, LiveSlots, Rob!Live, Rob!Age, Rob!Slots, Slots
<1>2. QED
  BY <1>1 DEF Init, Csr, BadUnstable, NoLoadBad, CsrNotSpeculative

(* ReadyForCommit says no to a CSR instruction on the wrong path.          *)
LEMMA CsrReady ==
  ASSUME Control, Program, Csr, NEW y \in iew, y.kind = "CSR",
         ReadyForCommit(y.tag)
  PROVE  y.tag \in LiveSlots /\ ~rob[y.tag].wrongPath
<1> PICK g : g = y.tag
  OBVIOUS
<1>1. g \in Slots /\ Shape /\ usage \in 0..RobSize
  BY Ages DEF Control, TypeOK, InFlight, Rob!TypeOK
<1>2. CASE robState = "Idle" \/ Rob!IsOlder(g, rollBackTag)
  <2>1. PICK i \in 0..(DeallocWidth - 1) :
          /\ i < usage
          /\ Rob!SlotAt(i) = g
          /\ \A j \in 0..(i - 1) :
               LET e == rob[Rob!SlotAt(j)]
               IN  e.isStable \/ e.kind \notin {"LDU", "STU", "BRU"}
    BY <1>2 DEF ReadyForCommit
  <2>2. i \in Nat /\ i \in Slots /\ Rob!Age(g) = i /\ g \in LiveSlots
    <3>1. i \in Nat /\ i \in Slots
      BY <1>1, <2>1, SizesAssumption DEF Slots
    <3>2. Rob!Age(g) = i
      BY <1>1, <2>1, <3>1, Geometry
    <3>3. QED
      BY <1>1, <2>1, <3>1, <3>2, Ages DEF LiveSlots
  <2>3. ASSUME rob[g].wrongPath PROVE FALSE
    <3>1. PICK s \in LiveSlots : Rob!Age(s) < i /\ rob[s].bad
      BY <2>2, <2>3 DEF Program, WrongPathFollows, Before
    <3> PICK j : j = Rob!Age(s)
      OBVIOUS
    <3>2. /\ s \in Slots /\ j \in Nat /\ j \in 0..(i - 1)
          /\ s = Rob!SlotAt(j)
      BY <1>1, <2>2, <3>1, Geometry, Ages DEF LiveSlots
    <3>3. rob[s].isStable \/ rob[s].kind \notin {"LDU", "STU", "BRU"}
      BY <2>1, <3>2
    <3>4. rob[s].done
      BY <3>1, <3>3 DEF Csr, BadUnstable
    <3>5. Recovers /\ ~(j < Rob!Age(rollBackTag))
      BY <3>1, <3>4 DEF Program, BadDoneBehindTarget, Before
    <3>6. Rob!Age(g) < Rob!Age(rollBackTag)
      <4>1. Rob!IsOlder(g, rollBackTag)
        BY <1>2, <3>5 DEF Recovers
      <4>2. QED
        BY <1>1, <4>1, Ages, OlderByAge
    <3>7. Rob!Age(rollBackTag) \in Nat /\ j < i /\ i \in Nat /\ j \in Nat
      BY <2>2, <3>1, <3>2, Ages
    <3>8. QED
      BY <2>2, <3>5, <3>6, <3>7
  <2>4. QED
    BY <2>2, <2>3
<1>3. CASE ~(robState = "Idle" \/ Rob!IsOlder(g, rollBackTag))
  <2>1. Recovers /\ rollBackTag = g
    BY <1>3 DEF ReadyForCommit, Recovers
  <2>2. Rob!Live(g)
    BY <2>1, Ages
  <2>3. ~rob[g].done /\ rob[g].kind = "CSR"
    BY <2>2 DEF Control, FlightMatches
  <2>4. QED
    BY <2>1, <2>3 DEF Program, TargetSettled
<1>4. QED
  BY <1>2, <1>3

(* The instructions in IEW advance.                                        *)
LEMMA CsrExecute ==
  ASSUME Control, Program, Csr, NEW y \in iew,
         AddrGen(y) \/ Execute(y) \/ WriteBack(y)
  PROVE  Csr'
<1>0. /\ y \in InFlight /\ y.tag \in Slots /\ rob \in [Slots -> Entry]
      /\ LiveSlots' = LiveSlots /\ LiveSlots \subseteq Slots
      /\ \A t \in Slots : Rob!Live(t) <=> t \in LiveSlots
      /\ \A t \in Slots : Rob!Live(t)' <=> Rob!Live(t)
      /\ \A z \in iew : z.tag \in Slots /\ z \in InFlight
  BY Ages DEF Control, TypeOK, InFlight, LiveSlots, AddrGen, Execute,
              WriteBack, robVars, Rob!Live, Rob!Age
<1>1. \A t \in LiveSlots :
        /\ rob'[t].kind = rob[t].kind
        /\ rob'[t].bad <=> rob[t].bad
        /\ rob'[t].wrongPath <=> rob[t].wrongPath
        /\ rob[t].done => rob'[t].done
        /\ rob'[t].isStable =>
             rob[t].isStable \/ rob'[t].done \/ rob[t].kind # "BRU"
  <2>1. CASE AddrGen(y)
    <3>1. rob' = [rob EXCEPT ![y.tag] =
                   [@ EXCEPT !.isStable = TRUE,
                             !.done = rob[y.tag].done \/ y.kind = "STU"]]
      BY <2>1 DEF AddrGen
    <3>2. y.tag \in LiveSlots => rob[y.tag].kind # "BRU"
      BY <1>0, <2>1 DEF AddrGen, Control, FlightMatches
    <3>3. QED
      BY <1>0, <3>1, <3>2 DEF Entry
  <2>2. CASE Execute(y)
    BY <2>2 DEF Execute, robVars
  <2>3. CASE WriteBack(y) /\ Rob!Live(y.tag)
    BY <1>0, <2>3, WrittenBack
  <2>4. CASE WriteBack(y) /\ ~Rob!Live(y.tag)
    <3>1. rob' = rob
      BY <1>0, <2>4, Ages, AcceptedIsLive DEF WriteBack
    <3>2. QED
      BY <3>1
  <2>5. QED
    BY <2>1, <2>2, <2>3, <2>4
<1>2. BadUnstable'
  BY <1>0, <1>1 DEF Csr, BadUnstable
<1>3. NoLoadBad'
  BY <1>0 DEF AddrGen, Execute, WriteBack, Csr, NoLoadBad, InFlight
<1>4. CsrNotSpeculative'
  <2> SUFFICES ASSUME NEW z \in iew', z.kind = "CSR", z.stage = "wb"
               PROVE  Rob!Live(z.tag)' /\ ~rob'[z.tag].wrongPath
    BY DEF CsrNotSpeculative
  <2>1. z.tag \in LiveSlots /\ ~rob[z.tag].wrongPath
    <3>1. CASE z \in iew
      BY <1>0, <3>1 DEF Csr, CsrNotSpeculative
    <3>2. CASE z \notin iew
      <4>1. /\ Execute(y) /\ z.tag = y.tag /\ y.kind = "CSR"
        BY <1>0, <3>2 DEF AddrGen, Execute, WriteBack, InFlight
      <4>2. ReadyForCommit(y.tag)
        BY <4>1 DEF Execute
      <4>3. QED
        BY <4>1, <4>2, CsrReady
    <3>3. QED
      BY <3>1, <3>2
  <2>2. QED
    BY <1>0, <1>1, <2>1
<1>5. QED
  BY <1>2, <1>3, <1>4 DEF Csr

(* The window only loses what is done or on the wrong path.                *)
LEMMA CsrNext ==
  ASSUME ~LoadFaults
  PROVE  Control /\ Program /\ Csr /\ [Next]_vars => Csr'
<1> SUFFICES ASSUME Control, Program, Csr, [Next]_vars PROVE Csr'
  OBVIOUS
<1>0. /\ Shape /\ LiveSlots \subseteq Slots /\ rob \in [Slots -> Entry]
      /\ \A t \in Slots : Rob!Live(t) <=> t \in LiveSlots
      /\ \A z \in iew : z.tag \in Slots
  BY Ages DEF LiveSlots, Control, TypeOK, InFlight
<1>1. ASSUME NEW y \in iew, AddrGen(y) \/ Execute(y) \/ WriteBack(y)
      PROVE  Csr'
  BY <1>1, CsrExecute
<1>2. ASSUME NEW i \in Insn, NEW p \in Phy, AllocateInsn(i, p)
      PROVE  Csr'
  <2> PICK g, new : g = tail /\ new = NewEntry(i, p)
    OBVIOUS
  <2>1. /\ Rob!Push(new) /\ new \in Entry /\ g \in Slots
        /\ iew' = IF DoneAtDispatch(i) THEN iew
                  ELSE iew \union {NewInFlight(i, p)}
    BY <1>2, AllocatedTypes
    DEF AllocateInsn, NewEntry, NewInFlight, Control, TypeOK, Rob!TypeOK,
        Rob!Slots, Slots
  <2>2. /\ ~Rob!Live(g)
        /\ rob' = [rob EXCEPT ![g] = new]
        /\ \A t \in Slots : Rob!Live(t)' <=> Rob!Live(t) \/ t = g
    BY <1>0, <2>1, PushGeometry
  <2>3. /\ LiveSlots' = LiveSlots \union {g}
        /\ rob'[g] = new /\ \A t \in LiveSlots : rob'[t] = rob[t]
    BY <1>0, <2>1, <2>2 DEF LiveSlots
  <2>4. /\ i.bad => i.kind = "BRU"
        /\ i.excp => DoneAtDispatch(i)
    BY KindAssumption DEF Insn, DoneAtDispatch
  <2>5. new.bad /\ ~new.done => ~new.isStable /\ new.kind = "BRU"
    BY <2>4 DEF NewEntry
  <2>6. BadUnstable'
    BY <2>3, <2>5 DEF Csr, BadUnstable
  <2>7. NoLoadBad'
    BY <2>1, <2>4 DEF Csr, NoLoadBad, NewInFlight
  <2>8. CsrNotSpeculative'
    <3>1. \A z \in iew' : z.stage = "wb" => z \in iew
      BY <2>1 DEF NewInFlight
    <3>2. QED
      BY <1>0, <2>2, <2>3, <3>1 DEF Csr, CsrNotSpeculative
  <2>9. QED
    BY <2>6, <2>7, <2>8 DEF Csr
<1>3. CASE CommitInsn
  <2>1. Rob!Pop /\ toCommit > 0 /\ iew' = iew /\ header \in Slots
    BY <1>0, <1>3 DEF CommitInsn, Shape, Rob!TypeOK, Rob!Slots, Slots
  <2>2. /\ rob' = rob
        /\ \A t \in Slots : Rob!Live(t)' <=> Rob!Live(t) /\ t # header
    BY <1>0, <2>1, PopGeometry
  <2>3. rob[header].done
    BY <1>0, <2>1, Geometry, Ages, UndoneBehindPackage
  <2>4. \A z \in iew : Rob!Live(z.tag) => z.tag # header
    BY <2>3 DEF Control, FlightMatches
  <2>5. QED
    BY <1>0, <2>1, <2>2, <2>4
    DEF Csr, BadUnstable, NoLoadBad, CsrNotSpeculative, LiveSlots
<1>4. CASE RollBackStep
  <2> PICK g : g = Rob!GetLastest
    OBVIOUS
  <2>1. iew' = iew
    BY <1>4 DEF RollBackStep
  <2>2. CASE g = rollBackTag
    BY <1>4, <2>1, <2>2
    DEF RollBackStep, robVars, Csr, BadUnstable, NoLoadBad,
        CsrNotSpeculative, LiveSlots, Rob!Live, Rob!Age
  <2>3. CASE g # rollBackTag
    <3>1. /\ rob' = rob
          /\ \A t \in Slots : Rob!Live(t)' <=> Rob!Live(t) /\ t # g
      BY <1>0, <1>4, <2>3, RollBackGeometry DEF RollBackStep
    <3>2. rob[g].wrongPath
      BY <1>4, <2>3, SquashesWrongPath
    <3>3. QED
      BY <1>0, <2>1, <3>1, <3>2
      DEF Csr, BadUnstable, NoLoadBad, CsrNotSpeculative, LiveSlots
  <2>4. QED
    BY <2>2, <2>3
<1>5. CASE EndIEW \/ EndDispatch \/ SendCommitReq \/ EndTick \/ UNCHANGED vars
  <2>1. UNCHANGED <<rob, header, tail, usage>> /\ iew' \subseteq iew
    BY <1>5 DEF EndIEW, EndDispatch, SendCommitReq, EndTick, vars, robVars
  <2>2. QED
    BY <2>1 DEF Csr, BadUnstable, NoLoadBad, CsrNotSpeculative, LiveSlots,
                Rob!Live, Rob!Age
<1>6. QED
  BY <1>1, <1>2, <1>3, <1>4, <1>5 DEF Next

(* A CSR instruction runs only when every older branch has resolved as     *)
(* predicted, for every window and width, as long as no load faults: its   *)
(* effect on the machine never has to be undone.                           *)
THEOREM CsrCorrect ==
  ASSUME ~LoadFaults
  PROVE  Spec => []CsrNotSpeculative
<1>1. Csr => CsrNotSpeculative
  BY DEF Csr
<1>2. QED
  BY <1>1, ControlInit, ControlNext, ProgramInit, ProgramNext, CsrInit,
     CsrNext, PTL DEF Spec

=============================================================================

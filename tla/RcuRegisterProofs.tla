-------------------------- MODULE RcuRegisterProofs --------------------------
(***************************************************************************)
(* Proofs about the physical registers of Rcu, for every set of            *)
(* destinations a faulting instruction may have, as long as no register is *)
(* freed twice (FreedOnce): because the build asserts, as CMakeLists.txt   *)
(* has it, and ends where one would be, or because what faults has no      *)
(* destination.  Without either, RegistersConserved is false: the run      *)
(* RcuDoubleFree.                                                          *)
(*                                                                         *)
(* The argument follows the chain of names: what LphyRd of a live entry    *)
(* holds is the mapping that the entries before it left behind, so commit  *)
(* frees what the committed map held and a rollback restores what the      *)
(* rename table held.  A fault the recovery has stopped at is the one      *)
(* entry that no longer counts: it is the youngest.                        *)
(***************************************************************************)
EXTENDS RcuProofs

NoFaultingRd == FaultingRd \subseteq {NoReg}
FreedOnce == TraceOn \/ NoFaultingRd

-----------------------------------------------------------------------------
(* The inductive invariant.                                                *)

Index == 0..(usage - 1)
Writes(i) == At(i).rd # NoReg

(* The youngest entry is a fault that gave its register back; the entries  *)
(* that still count are the others.                                        *)
Released ==
  /\ usage > 0
  /\ Writes(usage - 1) /\ At(usage - 1).isExcp
  /\ free[At(usage - 1).phyRd] # 0
Kept == IF Released THEN usage - 1 ELSE usage
Holds(i) == Writes(i) /\ i < Kept

(* That happens exactly when the recovery has reached it, and it stays so  *)
(* when an older one takes over.                                           *)
Stopped ==
  /\ Released => \/ robState = "WaitForResume"
                 \/ robState = "Undo" /\ rollBackTag # Rob!SlotAt(usage - 1)
  /\ /\ robState = "WaitForResume" /\ usage > 0
     /\ At(usage - 1).isExcp /\ Writes(usage - 1)
     => Released

EntriesWrite ==
  /\ \A i \in Index : Writes(i) => At(i).phyRd \in PhyReg
  /\ NoFaultingRd => \A i \in Index : At(i).isExcp => ~Writes(i)
  /\ NoFaultingRd => \A y \in iew : y.bad /\ y.kind = "LDU" => y.rd = NoReg

(* p is where r lives after the k oldest live instructions.                *)
Maps(k, r, p) ==
  \/ \E i \in 0..(k - 1) :
       /\ At(i).rd = r /\ At(i).phyRd = p
       /\ \A j \in 0..(k - 1) : j > i => At(j).rd # r
  \/ commitMap[r] = p /\ \A i \in 0..(k - 1) : At(i).rd # r

Chain == \A i \in Index : Writes(i) => Maps(i, At(i).rd, At(i).LphyRd)
Table == \A r \in ArchReg : Maps(Kept, r, renameTable[r])

OwnedByArch(p) == \E r \in ArchReg : commitMap[r] = p
OwnedByLive(p) == \E i \in Index : Holds(i) /\ At(i).phyRd = p

OneOwner ==
  /\ \A i, j \in Index :
       Holds(i) /\ Holds(j) /\ At(i).phyRd = At(j).phyRd => i = j
  /\ \A r, s \in ArchReg :
       commitMap[r] = commitMap[s] => r = s \/ commitMap[r] = ZeroPhy
  /\ \A p \in PhyReg : ~(OwnedByArch(p) /\ OwnedByLive(p))

FreeIffUnowned ==
  \A p \in PhyReg :
    free[p] = IF OwnedByArch(p) \/ OwnedByLive(p) THEN 0 ELSE 1

(* What a squashed instruction may still write belongs to nobody.          *)
SquashedOwnNothing ==
  \A y \in iew : ~Rob!Live(y.tag) /\ y.rd # NoReg =>
    ~OwnedByArch(y.phyRd) /\ ~OwnedByLive(y.phyRd)

Registers ==
  /\ Stopped
  /\ EntriesWrite
  /\ Chain
  /\ Table
  /\ OneOwner
  /\ FreeIffUnowned
  /\ SquashedOwnNothing

-----------------------------------------------------------------------------
(* Registers is inductive relative to Control.                             *)

LEMMA RegistersInit == Init => Registers
<1> SUFFICES ASSUME Init PROVE Registers
  OBVIOUS
<1>1. /\ usage = 0 /\ Index = {} /\ iew = {}
      /\ \A r \in ArchReg : commitMap[r] = ZeroPhy /\ renameTable[r] = ZeroPhy
      /\ \A p \in PhyReg : free[p] = 1
  BY DEF Init, Index
<1>2. EntriesWrite /\ Chain /\ SquashedOwnNothing
  BY <1>1 DEF EntriesWrite, Chain, SquashedOwnNothing
<1>3. Stopped /\ Kept = 0
  BY <1>1 DEF Init, Stopped, Released, Kept
<1>4. Table
  <2>1. \A i : i \notin 0..(Kept - 1)
    BY <1>3
  <2>2. QED
    BY <1>1, <2>1 DEF Table, Maps
<1>5. OneOwner /\ FreeIffUnowned
  BY <1>1, RegsAssumption
  DEF OneOwner, FreeIffUnowned, OwnedByArch, OwnedByLive
<1>6. QED
  BY <1>2, <1>3, <1>4, <1>5 DEF Registers

(* Every entry of the window lies in a slot.                               *)
LEMMA Window ==
  ASSUME Control
  PROVE  /\ usage \in 0..RobSize /\ Index \subseteq Slots
         /\ \A i \in Index : /\ Rob!SlotAt(i) \in Slots
                             /\ Rob!Live(Rob!SlotAt(i))
                             /\ At(i) \in Entry
         /\ \A t \in Slots : Rob!Live(t) =>
              \E i \in Index : i = Rob!Age(t) /\ t = Rob!SlotAt(i)
<1>1. Shape /\ usage \in 0..RobSize /\ rob \in [Slots -> Entry]
  BY DEF Control, TypeOK, Shape, Rob!TypeOK, Rob!Slots, Slots
<1>2. Index \subseteq Slots
  BY <1>1, SizesAssumption DEF Index, Slots
<1>3. \A i \in Index : /\ Rob!SlotAt(i) \in Slots
                      /\ Rob!Live(Rob!SlotAt(i))
                      /\ At(i) \in Entry
  <2> SUFFICES ASSUME NEW i \in Index
               PROVE  /\ Rob!SlotAt(i) \in Slots
                      /\ Rob!Live(Rob!SlotAt(i))
                      /\ At(i) \in Entry
    OBVIOUS
  <2>1. Rob!SlotAt(i) \in Slots /\ Rob!Age(Rob!SlotAt(i)) = i /\ i < usage
    BY <1>1, <1>2, Geometry DEF Index
  <2>2. QED
    BY <1>1, <2>1 DEF Rob!Live, Rob!Slots, Slots, At
<1>4. ASSUME NEW t \in Slots, Rob!Live(t)
      PROVE  Rob!Age(t) \in Index /\ t = Rob!SlotAt(Rob!Age(t))
  BY <1>1, <1>4, Geometry, SizesAssumption DEF Rob!Live, Index, Slots
<1>5. QED
  BY <1>1, <1>2, <1>3, <1>4

(* A live instruction that is not done has not given its register back:    *)
(* only a fault does, and it is done.                                      *)
LEMMA ReleasedIsDone ==
  ASSUME Control, Program, Registers, Released
  PROVE  /\ usage - 1 \in Index /\ Rob!SlotAt(usage - 1) \in Slots
         /\ Rob!Live(Rob!SlotAt(usage - 1))
         /\ At(usage - 1).done /\ Recovers /\ robState # "Idle"
         /\ robState # "FlushBackend"
         /\ robState = "WaitForResume" =>
              rollBackTag = Rob!SlotAt(usage - 1)
<1>1. usage - 1 \in Index /\ usage > 0
  BY Window DEF Released, Index
<1>2. Rob!SlotAt(usage - 1) \in LiveSlots
  BY <1>1, Window DEF LiveSlots
<1>3. At(usage - 1).done
  BY <1>2 DEF Program, ExcpIsBad, Released, At
<1>4. Recovers /\ robState # "Idle" /\ robState # "FlushBackend"
  BY DEF Registers, Stopped, Recovers
<1>5. QED
  BY <1>1, <1>2, <1>3, <1>4, Window DEF Control, Target, TargetIsYoungest

(* Without one, every writer of the window counts.                         *)
LEMMA NoneReleased ==
  ASSUME Control, ~Released
  PROVE  Kept = usage /\ \A i \in Index : Holds(i) <=> Writes(i)
<1>1. Kept = usage /\ usage \in Nat
  BY Window DEF Kept
<1>2. QED
  BY <1>1 DEF Holds, Index

LEMMA KeptInWindow ==
  ASSUME Control
  PROVE  /\ Kept \in Nat /\ Kept <= usage /\ usage \in Nat
         /\ Released => Kept = usage - 1 /\ usage > 0
         /\ \A i \in Index : Holds(i) => Writes(i)
BY Window DEF Kept, Released, Holds

(* A step that neither renames, frees nor moves the window.                *)
LEMMA QuietStep ==
  ASSUME Control, Registers, Stopped', Released' <=> Released,
         UNCHANGED <<usage, free, renameTable, commitMap>>,
         \A i \in Index :
           /\ At(i)'.rd = At(i).rd /\ At(i)'.phyRd = At(i).phyRd
           /\ At(i)'.LphyRd = At(i).LphyRd
           /\ At(i)'.isExcp => At(i).isExcp \/ (NoFaultingRd => ~Writes(i)),
         NoFaultingRd =>
           \A y \in iew' : y.bad /\ y.kind = "LDU" => y.rd = NoReg,
         \A y \in iew' : ~Rob!Live(y.tag)' /\ y.rd # NoReg =>
           ~OwnedByArch(y.phyRd) /\ ~OwnedByLive(y.phyRd)
  PROVE  Registers'
<1>1. usage \in Nat /\ Index' = Index /\ Kept' = Kept
  BY Window DEF Index, Kept
<1>2. \A i \in Index : (Writes(i)' <=> Writes(i)) /\ (Holds(i)' <=> Holds(i))
  BY <1>1 DEF Writes, Holds
<1>3. \A p : /\ OwnedByArch(p)' <=> OwnedByArch(p)
             /\ OwnedByLive(p)' <=> OwnedByLive(p)
  BY <1>1, <1>2 DEF OwnedByArch, OwnedByLive
<1>4. EntriesWrite'
  BY <1>1, <1>2 DEF Registers, EntriesWrite
<1>5. Chain'
  <2> SUFFICES ASSUME NEW i \in Index, Writes(i)
               PROVE  Maps(i, At(i).rd, At(i).LphyRd)'
    BY <1>1, <1>2 DEF Chain
  <2>1. Maps(i, At(i).rd, At(i).LphyRd) /\ i \in Nat /\ i <= usage
    BY <1>1 DEF Registers, Chain, Index
  <2>2. QED
    BY <1>1, <2>1 DEF Maps, Index
<1>6. Table'
  <2> SUFFICES ASSUME NEW r \in ArchReg
               PROVE  Maps(Kept, r, renameTable[r])'
    BY DEF Table
  <2> PICK q : q = renameTable[r]
    OBVIOUS
  <2>1. Maps(Kept, r, q) /\ \A i \in 0..(Kept - 1) : i \in Index
    BY KeptInWindow DEF Registers, Table, Index
  <2>2. Maps(Kept, r, q)'
    BY <1>1, <2>1 DEF Maps
  <2>3. QED
    BY <2>2
<1>7. OneOwner'
  BY <1>1, <1>2, <1>3 DEF Registers, OneOwner
<1>8. FreeIffUnowned' /\ SquashedOwnNothing'
  BY <1>3 DEF Registers, FreeIffUnowned, SquashedOwnNothing
<1>9. QED
  BY <1>4, <1>5, <1>6, <1>7, <1>8 DEF Registers

LEMMA RegistersExecute ==
  ASSUME Control, Program, Registers, NEW y \in iew,
         AddrGen(y) \/ Execute(y) \/ WriteBack(y)
  PROVE  Registers'
<1>0. Shape /\ y \in InFlight /\ y.tag \in Slots /\ rob \in [Slots -> Entry]
  BY DEF Control, TypeOK, Shape, InFlight, Rob!TypeOK, Rob!Slots, Slots
<1>1. UNCHANGED <<header, tail, usage, free, renameTable, commitMap>>
  BY DEF AddrGen, Execute, WriteBack, robVars, regVars, history
<1>2. \A t \in Slots :
        /\ rob'[t].rd = rob[t].rd /\ rob'[t].phyRd = rob[t].phyRd
        /\ rob'[t].LphyRd = rob[t].LphyRd
        /\ rob'[t].isExcp =>
             \/ rob[t].isExcp
             \/ t = y.tag /\ Rob!Live(t) /\ y.bad /\ y.kind = "LDU"
        /\ rob[t].isExcp => rob'[t].isExcp
  <2>1. CASE AddrGen(y)
    BY <1>0, <2>1 DEF AddrGen, Entry
  <2>2. CASE Execute(y)
    BY <2>2 DEF Execute, robVars
  <2>3. CASE WriteBack(y) /\ Accepted(y.tag)
    <3>1. rob' = [rob EXCEPT ![y.tag] =
                   [@ EXCEPT !.done = TRUE, !.isStable = TRUE,
                             !.isExcp = rob[y.tag].isExcp
                                          \/ (y.bad /\ y.kind = "LDU")]]
      BY <2>3 DEF WriteBack
    <3>2. Rob!Live(y.tag)
      BY <1>0, <2>3, AcceptedIsLive
    <3>3. QED
      BY <1>0, <3>1, <3>2 DEF Entry
  <2>4. CASE WriteBack(y) /\ ~Accepted(y.tag)
    BY <2>4 DEF WriteBack
  <2>5. QED
    BY <2>1, <2>2, <2>3, <2>4
<1>3. \A i \in Index :
        /\ At(i)'.rd = At(i).rd /\ At(i)'.phyRd = At(i).phyRd
        /\ At(i)'.LphyRd = At(i).LphyRd
        /\ At(i)'.isExcp => At(i).isExcp \/ (NoFaultingRd => ~Writes(i))
  <2>1. Rob!Live(y.tag) /\ y.bad /\ y.kind = "LDU" /\ NoFaultingRd =>
          rob[y.tag].rd = NoReg
    BY DEF Control, FlightMatches, Registers, EntriesWrite
  <2>2. \A i \in Index : Rob!SlotAt(i) \in Slots
    BY Window
  <2>3. QED
    BY <1>1, <1>2, <2>1, <2>2 DEF At, Writes, Rob!SlotAt
<1>4. \A z \in iew' : \E x \in iew :
        /\ z.tag = x.tag /\ z.kind = x.kind /\ z.bad = x.bad
        /\ z.rd = x.rd /\ z.phyRd = x.phyRd
  <2>1. CASE AddrGen(y)
    BY <1>0, <2>1 DEF AddrGen, InFlight
  <2>2. CASE Execute(y)
    BY <1>0, <2>2 DEF Execute, InFlight
  <2>3. CASE WriteBack(y)
    BY <2>3 DEF WriteBack
  <2>4. QED
    BY <2>1, <2>2, <2>3
<1>5. NoFaultingRd => \A z \in iew' : z.bad /\ z.kind = "LDU" => z.rd = NoReg
  BY <1>4 DEF Registers, EntriesWrite
<1>6. \A t : Rob!Live(t)' <=> Rob!Live(t)
  BY <1>1 DEF Rob!Live, Rob!Age
<1>7. \A z \in iew' : ~Rob!Live(z.tag)' /\ z.rd # NoReg =>
        ~OwnedByArch(z.phyRd) /\ ~OwnedByLive(z.phyRd)
  BY <1>4, <1>6 DEF Registers, SquashedOwnNothing
<1>8. \A s \in Slots : Rob!SlotAt(s)' = Rob!SlotAt(s)
  BY <1>1 DEF Rob!SlotAt
<1>9. Stopped' /\ (Released' <=> Released)
  <2> PICK u, s : u = usage - 1 /\ s = Rob!SlotAt(u)
    OBVIOUS
  <2>1. CASE usage = 0
    BY <1>1, <2>1 DEF Released, Stopped
  <2>2. CASE usage > 0
    <3>1. /\ u \in Index /\ u \in Slots /\ s \in LiveSlots /\ s \in Slots
          /\ usage' - 1 = u /\ Rob!SlotAt(u)' = s /\ At(u) = rob[s]
          /\ At(u)' = rob'[s] /\ At(u) \in Entry
      BY <1>1, <1>8, <2>2, Window DEF Index, LiveSlots, At
    <3>2. Released <=> /\ rob[s].rd # NoReg /\ rob[s].isExcp
                       /\ free[rob[s].phyRd] # 0
      BY <2>2, <3>1 DEF Released, Writes
    <3>3. Released' <=> /\ rob[s].rd # NoReg /\ rob'[s].isExcp
                        /\ free[rob[s].phyRd] # 0
      BY <1>1, <1>2, <2>2, <3>1 DEF Released, Writes
    <3>4. Released' => Released
      <4> SUFFICES ASSUME Released', ~rob[s].isExcp
                   PROVE  FALSE
        BY <3>2, <3>3
      <4>1. Holds(u) /\ rob[s].phyRd \in PhyReg
        BY <3>1, <3>2, <3>3, NoneReleased DEF Writes, Registers, EntriesWrite
      <4>2. OwnedByLive(rob[s].phyRd)
        BY <3>1, <4>1 DEF OwnedByLive
      <4>3. QED
        BY <3>3, <4>1, <4>2 DEF Registers, FreeIffUnowned
    <3>5. Released' <=> Released
      BY <1>2, <3>1, <3>2, <3>3, <3>4
    <3>6. Rob!Live(y.tag) => ~rob[y.tag].done
      BY DEF Control, FlightMatches
    <3>7. Released => /\ rob[s].done
                      /\ robState = "WaitForResume" => rollBackTag = s
                      /\ robState = "Undo" => rollBackTag # s
                      /\ robState \in {"Undo", "WaitForResume"}
      BY <3>1, ReleasedIsDone DEF Registers, Stopped, Recovers
    <3>8. \/ UNCHANGED <<robState, rollBackTag>>
          \/ Rob!Live(y.tag) /\ robState' = "Undo" /\ rollBackTag' = y.tag
          \/ /\ Rob!Live(y.tag)
             /\ robState' = "Idle" /\ robState = "WaitForResume"
             /\ rollBackTag' = rollBackTag /\ y.tag = rollBackTag
      <4>1. CASE AddrGen(y) \/ Execute(y)
        BY <4>1 DEF AddrGen, Execute
      <4>2. CASE WriteBack(y)
        BY <1>0, <4>2, AcceptedIsLive DEF WriteBack
      <4>3. QED
        BY <4>1, <4>2
    <3>9. Released => \/ robState' = "WaitForResume"
                      \/ robState' = "Undo" /\ rollBackTag' # s
      BY <3>6, <3>7, <3>8
    <3>10. /\ robState' = "WaitForResume" /\ rob'[s].isExcp
           /\ rob[s].rd # NoReg
           => Released
      <4> SUFFICES ASSUME robState' = "WaitForResume", rob'[s].isExcp,
                          rob[s].rd # NoReg
                   PROVE  Released
        OBVIOUS
      <4>1. robState = "WaitForResume" /\ rollBackTag = s
        BY <3>1, <3>8 DEF Control, Target, TargetIsYoungest
      <4>2. CASE rob[s].isExcp
        BY <2>2, <3>1, <4>1, <4>2 DEF Registers, Stopped, Writes
      <4>3. CASE ~rob[s].isExcp
        <5>1. s = y.tag /\ Rob!Live(s) /\ y.kind = "LDU"
          BY <1>2, <3>1, <4>3
        <5>2. rob[s].kind = "LDU" /\ ~rob[s].done
          BY <5>1 DEF Control, FlightMatches
        <5>3. QED
          BY <4>1, <5>2 DEF Program, TargetSettled, Recovers
      <4>4. QED
        BY <4>2, <4>3
    <3>11. Writes(u)' <=> rob[s].rd # NoReg
      BY <1>2, <3>1 DEF Writes
    <3>12. Stopped'
      BY <3>1, <3>5, <3>9, <3>10, <3>11 DEF Stopped
    <3>13. QED
      BY <3>5, <3>12
  <2>3. QED
    BY <2>1, <2>2, Window
<1>10. QED
  BY <1>1, <1>3, <1>5, <1>7, <1>9, QuietStep

LEMMA RegistersClock ==
  ASSUME Control, Program, Registers,
         EndIEW \/ EndDispatch \/ SendCommitReq \/ EndTick \/ UNCHANGED vars
  PROVE  Registers'
<1>1. /\ UNCHANGED <<rob, header, tail, usage, free, renameTable, commitMap>>
      /\ iew' \subseteq iew
  BY DEF EndIEW, EndDispatch, SendCommitReq, EndTick, vars, robVars, regVars,
         history
<1>2. \A t : Rob!Live(t)' <=> Rob!Live(t)
  BY <1>1 DEF Rob!Live, Rob!Age
<1>3. \A i \in Index : At(i)' = At(i)
  BY <1>1 DEF At, Rob!SlotAt
<1>4. Stopped' /\ (Released' <=> Released)
  <2>1. CASE usage = 0
    BY <1>1, <2>1 DEF Released, Stopped
  <2>2. CASE usage > 0
    <3> PICK u : u = usage - 1
      OBVIOUS
    <3>1. u \in Index /\ usage' - 1 = u /\ At(u)' = At(u)
          /\ Rob!SlotAt(u)' = Rob!SlotAt(u)
      BY <1>1, <1>3, <2>2, Window DEF Index, Rob!SlotAt
    <3>2. Released' <=> Released
      BY <1>1, <3>1 DEF Released, Writes
    <3>3. /\ rollBackTag' = rollBackTag
          /\ \/ robState' = robState
             \/ robState = "FlushBackend" /\ robState' = "Idle"
      BY DEF EndIEW, EndDispatch, SendCommitReq, EndTick, vars
    <3>4. QED
      BY <1>1, <3>1, <3>2, <3>3 DEF Registers, Stopped, Writes
  <2>3. QED
    BY <2>1, <2>2, Window
<1>5. QED
  BY <1>1, <1>2, <1>3, <1>4, QuietStep
  DEF Registers, EntriesWrite, SquashedOwnNothing

(* Renaming takes a register nobody owns and puts one more name on top.    *)
LEMMA RegistersAllocateInsn ==
  ASSUME Control, Program, Registers,
         NEW i \in Insn, NEW p \in Phy, AllocateInsn(i, p)
  PROVE  Registers'
<1> DEFINE new == NewEntry(i, p)
<1>1. Shape /\ usage \in 0..RobSize
  BY DEF Control, TypeOK, Shape, Rob!TypeOK
<1>2. /\ Rob!Push(new)
      /\ iew' = IF DoneAtDispatch(i) THEN iew
                ELSE iew \union {NewInFlight(i, p)}
      /\ commitMap' = commitMap
  BY DEF AllocateInsn, NewEntry, NewInFlight
<1>3. new \in Entry /\ NewInFlight(i, p) \in InFlight /\ tail \in Slots
      /\ rob \in [Slots -> Entry]
  BY AllocatedTypes DEF Control, TypeOK, Rob!TypeOK, Rob!Slots, Slots
<1>4. /\ usage' = usage + 1 /\ usage < RobSize
      /\ tail = Rob!SlotAt(usage)
      /\ rob' = [rob EXCEPT ![tail] = new]
      /\ \A t \in Slots : Rob!Live(t)' <=> Rob!Live(t) \/ t = tail
      /\ \A j \in Slots : Rob!SlotAt(j)' = Rob!SlotAt(j)
  BY <1>1, <1>2, <1>3, PushGeometry
<1> PICK u : u = usage
  OBVIOUS
<1>5. /\ u \in Slots /\ u \in Nat /\ u \notin Index /\ Index \subseteq Slots
      /\ Index = 0..(u - 1) /\ Index' = 0..u /\ 0..u = Index \union {u}
  BY <1>1, <1>4, Window, SizesAssumption DEF Slots, Index
<1>6. /\ At(u)' = new
      /\ \A j \in Index : At(j)' = At(j)
  <2>1. \A j \in Index : Rob!SlotAt(j) # tail
    BY <1>1, <1>4, <1>5, Geometry
  <2>2. \A j \in Slots : At(j)' = rob'[Rob!SlotAt(j)]
    BY <1>4 DEF At
  <2>3. At(u)' = new
    BY <1>3, <1>4, <1>5, <2>2
  <2>4. ASSUME NEW j \in Index
        PROVE  At(j)' = At(j)
    BY <1>3, <1>4, <1>5, <2>1, <2>2 DEF At
  <2>5. QED
    BY <2>3, <2>4
<1>7. /\ new.rd = i.rd /\ new.phyRd = p /\ new.isExcp = i.excp
      /\ new.LphyRd = IF i.rd = NoReg THEN ZeroPhy ELSE renameTable[i.rd]
  BY DEF NewEntry
<1>8. /\ Writes(u)' <=> i.rd # NoReg
      /\ \A j \in Index : Writes(j)' <=> Writes(j)
  BY <1>6, <1>7 DEF Writes
<1>9. i.rd # NoReg =>
        /\ i.rd \in ArchReg /\ p \in PhyReg /\ free[p] > 0
        /\ NoFaultingRd => ~i.excp /\ ~(i.bad /\ i.kind = "LDU")
  BY DEF AllocateInsn, Insn, Rd, NoFaultingRd
<1>10. i.rd # NoReg => ~OwnedByArch(p) /\ ~OwnedByLive(p)
  BY <1>9 DEF Registers, FreeIffUnowned
<1>11. robState = "Idle" /\ robState' \in {"Idle", "Undo"}
  BY DEF AllocateInsn, Control, DispatchOnlyIdle
<1>12. ~Released
  BY <1>11, ReleasedIsDone
<1>13. /\ Kept = u /\ \A j \in Index : Holds(j) <=> Writes(j)
       /\ \A j \in Index : j < u + 1
  BY <1>5, <1>12, NoneReleased
<1>14. ~Released' /\ Stopped'
  <2>1. CASE i.rd = NoReg
    BY <1>4, <1>5, <1>8, <1>11, <2>1 DEF Released, Stopped
  <2>2. CASE i.rd # NoReg
    <3>1. free' = [free EXCEPT ![p] = @ - 1] /\ free \in [PhyReg -> Nat]
      BY <2>2 DEF AllocateInsn, TakeRegister, Control, TypeOK
    <3>2. free[p] = 1
      BY <1>9, <1>10, <2>2 DEF Registers, FreeIffUnowned
    <3>3. free'[p] = 0
      BY <1>9, <2>2, <3>1, <3>2
    <3>4. usage' - 1 = u
      BY <1>4, <1>5
    <3>5. QED
      BY <1>6, <1>7, <1>11, <3>3, <3>4 DEF Released, Stopped
  <2>3. QED
    BY <2>1, <2>2
<1>15. Kept' = u + 1
  BY <1>4, <1>14 DEF Kept
<1>16. /\ Holds(u)' <=> i.rd # NoReg
       /\ \A j \in Index : Holds(j)' <=> Holds(j)
  BY <1>5, <1>8, <1>13, <1>15 DEF Holds
<1>17. \A q : /\ OwnedByArch(q)' <=> OwnedByArch(q)
              /\ OwnedByLive(q)' <=> OwnedByLive(q) \/ (i.rd # NoReg /\ q = p)
  BY <1>2, <1>5, <1>6, <1>7, <1>16 DEF OwnedByArch, OwnedByLive
<1>18. \A k \in 0..u : \A r, q : Maps(k, r, q) => Maps(k, r, q)'
  <2> SUFFICES ASSUME NEW k \in 0..u, NEW r, NEW q, Maps(k, r, q)
               PROVE  Maps(k, r, q)'
    OBVIOUS
  <2>1. \A j \in 0..(k - 1) : j \in Index
    BY <1>5
  <2>2. QED
    BY <1>2, <1>6, <2>1 DEF Maps
<1>19. EntriesWrite'
  BY <1>2, <1>5, <1>6, <1>7, <1>8, <1>9
  DEF Registers, EntriesWrite, NewInFlight
<1>20. Chain'
  <2>1. ASSUME NEW j \in Index, Writes(j)
        PROVE  Maps(j, At(j).rd, At(j).LphyRd)'
    <3> PICK r, q : r = At(j).rd /\ q = At(j).LphyRd
      OBVIOUS
    <3>1. Maps(j, r, q) /\ j \in 0..u
      BY <1>5, <2>1 DEF Registers, Chain
    <3>2. Maps(j, r, q)' /\ At(j)'.rd = r /\ At(j)'.LphyRd = q
      BY <1>6, <1>18, <3>1
    <3>3. QED
      BY <3>2
  <2>2. ASSUME i.rd # NoReg
        PROVE  Maps(u, At(u).rd, At(u).LphyRd)'
    <3> PICK q : q = renameTable[i.rd]
      OBVIOUS
    <3>1. Maps(u, i.rd, q)
      BY <1>9, <1>13, <2>2 DEF Registers, Table
    <3>2. Maps(u, i.rd, q)' /\ At(u)'.rd = i.rd /\ At(u)'.LphyRd = q
      BY <1>5, <1>6, <1>7, <1>18, <2>2, <3>1
    <3>3. QED
      BY <3>2
  <2>3. QED
    BY <1>5, <1>8, <2>1, <2>2 DEF Chain
<1>21. Table'
  <2> SUFFICES ASSUME NEW r \in ArchReg
               PROVE  Maps(Kept, r, renameTable[r])'
    BY DEF Table
  <2> PICK v : v = u + 1
    OBVIOUS
  <2>0. v = Kept' /\ 0..(v - 1) = Index \union {u} /\ \A j \in Index : j < u
    BY <1>5, <1>15
  <2> PICK q : q = renameTable'[r]
    OBVIOUS
  <2>1. CASE i.rd = r
    <3>1. q = p /\ i.rd # NoReg
      BY <2>1, RegsAssumption DEF AllocateInsn, TakeRegister, Control, TypeOK
    <3>2. u \in 0..(v - 1) /\ \A n \in 0..(v - 1) : ~(n > u)
      BY <1>5, <2>0
    <3>3. Maps(v, r, q)'
      BY <1>6, <1>7, <2>1, <3>1, <3>2 DEF Maps
    <3>4. QED
      BY <2>0, <3>3
  <2>2. CASE i.rd # r
    <3>1. q = renameTable[r]
      BY <2>2 DEF AllocateInsn, TakeRegister, regVars, Control, TypeOK
    <3>2. Maps(u, r, q)
      BY <1>13, <3>1 DEF Registers, Table
    <3>3. Maps(u, r, q)' /\ At(u)'.rd # r
      BY <1>5, <1>6, <1>7, <1>18, <2>2, <3>2
    <3>4. Maps(v, r, q)'
      BY <1>5, <2>0, <3>3 DEF Maps
    <3>5. QED
      BY <2>0, <3>4
  <2>3. QED
    BY <2>1, <2>2
<1>22. OneOwner'
  <2>1. \A j \in Index : i.rd # NoReg /\ Holds(j) => At(j).phyRd # p
    BY <1>10 DEF OwnedByLive
  <2>2. \A j, n \in Index' :
          Holds(j)' /\ Holds(n)' /\ At(j)'.phyRd = At(n)'.phyRd => j = n
    BY <1>5, <1>6, <1>7, <1>16, <2>1 DEF Registers, OneOwner
  <2>3. \A q \in PhyReg : ~(OwnedByArch(q)' /\ OwnedByLive(q)')
    BY <1>10, <1>17 DEF Registers, OneOwner
  <2>4. QED
    BY <1>2, <2>2, <2>3 DEF Registers, OneOwner
<1>23. FreeIffUnowned'
  <2>1. CASE i.rd = NoReg
    BY <1>17, <2>1
    DEF AllocateInsn, TakeRegister, regVars, Registers, FreeIffUnowned
  <2>2. CASE i.rd # NoReg
    <3>1. free' = [free EXCEPT ![p] = @ - 1] /\ free \in [PhyReg -> Nat]
          /\ free[p] = 1
      BY <1>9, <1>10, <2>2
      DEF AllocateInsn, TakeRegister, Control, TypeOK, Registers,
          FreeIffUnowned
    <3>2. QED
      BY <1>9, <1>10, <1>17, <2>2, <3>1 DEF Registers, FreeIffUnowned
  <2>3. QED
    BY <2>1, <2>2
<1>24. SquashedOwnNothing'
  <2>2. \A y \in iew : y.tag \in Slots /\ Rob!Live(y.tag)
    BY <1>11 DEF Control, SquashedOnlyInRecovery, TypeOK, InFlight
  <2>3. \A y \in iew' : Rob!Live(y.tag)'
    BY <1>2, <1>3, <1>4, <2>2 DEF NewInFlight
  <2>4. QED
    BY <2>3 DEF SquashedOwnNothing
<1>25. QED
  BY <1>14, <1>19, <1>20, <1>21, <1>22, <1>23, <1>24 DEF Registers

(* A fault is committed once the rollback has stopped at it, as the only   *)
(* entry, and nothing changes hands.                                       *)
LEMMA FaultCommitted ==
  ASSUME Control, Program, Registers, CommitInsn,
         rob[header].isExcp, rob[header].rd # NoReg
  PROVE  Registers'
<1>1. /\ Shape /\ header \in Slots
      /\ Rob!Age(header) = 0 /\ header = Rob!SlotAt(0)
      /\ Rob!Pop /\ usage > 0 /\ usage \in 0..RobSize
      /\ toCommit > 0 /\ toCommit \in Nat
      /\ iew' = iew /\ rob' = rob
  <2>1. Shape /\ header \in Slots /\ usage \in 0..RobSize
    BY SizesAssumption DEF Control, TypeOK, Shape, Rob!TypeOK, Rob!Slots, Slots
  <2>2. Rob!Pop /\ toCommit > 0 /\ toCommit \in Nat /\ iew' = iew
    BY SizesAssumption DEF Control, TypeOK, CommitInsn
  <2>3. Rob!Age(header) = 0 /\ header = Rob!SlotAt(0)
    BY <2>1, Geometry
  <2>4. usage > 0 /\ rob' = rob
    BY <2>1, <2>2, PopGeometry
  <2> QED
    BY <2>1, <2>2, <2>3, <2>4
<1>2. header \in LiveSlots
  BY <1>1 DEF LiveSlots, Rob!Live, Rob!Slots, Slots
<1>3. usage = 1 /\ robState = "WaitForResume"
  <2>1. rob[header].bad /\ 0 < toCommit
    BY <1>1, <1>2 DEF Program, ExcpIsBad
  <2>2. QED
    BY <1>1, <2>1, BadInPackage
<1>4. Released /\ Kept = 0
  <2>1. At(0) = rob[header] /\ usage - 1 = 0
    BY <1>1, <1>3 DEF At
  <2>2. Released
    BY <1>3, <2>1 DEF Registers, Stopped, Writes
  <2>3. QED
    BY <1>3, <2>2 DEF Kept
<1>5. usage' = 0 /\ UNCHANGED <<free, renameTable, commitMap>>
  BY <1>1, <1>3, PopGeometry DEF CommitInsn
<1>6. /\ Index' = {} /\ Kept' = 0 /\ Stopped'
  BY <1>5 DEF Index, Kept, Released, Stopped
<1>7. /\ EntriesWrite' /\ Chain'
  BY <1>1, <1>6 DEF Registers, EntriesWrite, Chain
<1>8. Table'
  <2>1. \A i : i \notin 0..(0 - 1)
    OBVIOUS
  <2>2. \A r \in ArchReg : commitMap[r] = renameTable[r]
    BY <1>4, <2>1 DEF Registers, Table, Maps
  <2>3. QED
    BY <1>5, <1>6, <2>1, <2>2 DEF Table, Maps
<1>9. \A q : /\ OwnedByArch(q)' <=> OwnedByArch(q)
             /\ ~OwnedByLive(q)' /\ ~OwnedByLive(q)
  BY <1>4, <1>5, <1>6 DEF OwnedByArch, OwnedByLive, Holds, Index
<1>10. OneOwner' /\ FreeIffUnowned'
  BY <1>5, <1>6, <1>9 DEF Registers, OneOwner, FreeIffUnowned
<1>11. SquashedOwnNothing'
  <2> SUFFICES ASSUME NEW y \in iew, y.rd # NoReg, OwnedByArch(y.phyRd)
               PROVE  FALSE
    BY <1>1, <1>9 DEF SquashedOwnNothing
  <2>1. Rob!Live(y.tag) /\ y.tag \in Slots
    BY DEF Registers, SquashedOwnNothing, Control, TypeOK, InFlight
  <2>2. Rob!Age(y.tag) < 1
    BY <1>3, <2>1 DEF Rob!Live
  <2>3. y.tag = header
    BY <1>1, <2>1, <2>2, Geometry, SizesAssumption DEF Slots
  <2>4. rob[header].done
    BY <1>2 DEF Program, ExcpIsBad
  <2>5. QED
    BY <2>1, <2>3, <2>4 DEF Control, FlightMatches
<1>12. QED
  BY <1>6, <1>7, <1>8, <1>10, <1>11 DEF Registers

(* Commit hands the register of the oldest instruction over to the         *)
(* committed map and frees the one the map held.                           *)
LEMMA RegistersCommitInsn ==
  ASSUME Control, Program, Registers, CommitInsn
  PROVE  Registers'
<1> SUFFICES ASSUME ~(rob[header].isExcp /\ rob[header].rd # NoReg)
             PROVE  Registers'
  BY FaultCommitted
<1> PICK u : u = usage
  OBVIOUS
<1> PICK e : e = rob[header]
  OBVIOUS
<1> DEFINE writes == ~e.isExcp /\ e.rd # NoReg
<1>1. Shape /\ u \in 0..RobSize
  BY DEF Control, TypeOK, Shape, Rob!TypeOK
<1>2. /\ usage' = u - 1 /\ u > 0 /\ rob' = rob
      /\ \A t \in Slots : Rob!Live(t)' <=> Rob!Live(t) /\ t # header
      /\ \A i \in Slots :
           i + 1 < RobSize => Rob!SlotAt(i)' = Rob!SlotAt(i + 1)
  BY <1>1, PopGeometry DEF CommitInsn
<1>3. /\ Index = 0..(u - 1) /\ Index' = 0..(u - 2)
      /\ \A i \in 0..(u - 2) :
           i \in Slots /\ i + 1 \in Index /\ i + 1 < RobSize
      /\ \A i \in Index : i # 0 => i - 1 \in 0..(u - 2)
      /\ 0 \in Index
  BY <1>1, <1>2, SizesAssumption DEF Index, Slots
<1>4. /\ \A i \in 0..(u - 2) : At(i)' = At(i + 1)
      /\ At(0) = e /\ e \in Entry
  BY <1>1, <1>2, <1>3, Geometry, Window DEF At
<1>5. /\ writes <=> Writes(0)
      /\ writes => e.rd \in ArchReg /\ e.phyRd \in PhyReg
      /\ \A i \in 0..(u - 2) : Writes(i)' <=> Writes(i + 1)
  BY <1>3, <1>4 DEF Writes, Registers, EntriesWrite, Entry, Rd
<1>6. /\ Released => u - 1 # 0
      /\ u - 1 # 0 => u - 1 \in Index /\ At(u - 2)' = At(u - 1)
                     /\ usage' - 1 = u - 2
      /\ u - 1 = 0 => usage' = 0
  <2>1. Released => u - 1 # 0
    BY <1>4 DEF Released, Writes
  <2>2. QED
    BY <1>1, <1>2, <1>3, <1>4, <2>1
<1>7. /\ renameTable' = renameTable /\ iew' = iew
      /\ commitMap' = IF writes THEN [commitMap EXCEPT ![e.rd] = e.phyRd]
                      ELSE commitMap
      /\ free' = IF writes /\ e.LphyRd # ZeroPhy
                 THEN [free EXCEPT ![e.LphyRd] = @ + 1] ELSE free
      /\ commitMap \in [ArchReg -> Phy] /\ free \in [PhyReg -> Nat]
      /\ rollBackTag' = rollBackTag
      /\ robState' \in {robState, "FlushBackend"}
  BY DEF CommitInsn, Freed, Control, TypeOK
<1>8. writes => commitMap[e.rd] = e.LphyRd
  <2>1. writes => Maps(0, e.rd, e.LphyRd)
    BY <1>3, <1>4, <1>5 DEF Registers, Chain
  <2>2. QED
    BY <2>1 DEF Maps
<1>9. Released' <=> Released
  <2>1. CASE u - 1 = 0
    BY <1>6, <2>1 DEF Released
  <2>2. CASE u - 1 # 0
    <3> PICK p : p = At(u - 1).phyRd
      OBVIOUS
    <3>1. /\ Released <=> Writes(u - 1) /\ At(u - 1).isExcp /\ free[p] # 0
          /\ Released' <=> Writes(u - 1) /\ At(u - 1).isExcp /\ free'[p] # 0
      BY <1>1, <1>2, <1>6, <2>2 DEF Released, Writes
    <3>2. Writes(u - 1) => p \in PhyReg
      BY <1>6, <2>2 DEF Registers, EntriesWrite
    <3>3. Writes(u - 1) /\ writes /\ e.LphyRd = p /\ p # ZeroPhy => free[p] = 0
      BY <1>5, <1>8, <3>2 DEF OwnedByArch, Registers, FreeIffUnowned
    <3>4. Released => Released'
      BY <1>7, <3>1, <3>2, <3>3
    <3>5. ASSUME ~Released, Writes(u - 1), At(u - 1).isExcp
          PROVE  free'[p] = 0
      <4>1. OwnedByLive(p)
        BY <1>6, <2>2, <3>5, NoneReleased DEF OwnedByLive
      <4>2. free[p] = 0 /\ ~OwnedByArch(p)
        BY <3>2, <3>5, <4>1 DEF Registers, FreeIffUnowned, OneOwner
      <4>3. writes => e.LphyRd # p
        BY <1>5, <1>8, <4>2 DEF OwnedByArch
      <4>4. QED
        BY <1>7, <3>2, <3>5, <4>2, <4>3
    <3>6. QED
      BY <3>1, <3>4, <3>5
  <2>3. QED
    BY <2>1, <2>2
<1>10. /\ Kept' = Kept - 1 /\ Kept \in 1..u
       /\ \A i \in 0..(u - 2) : Holds(i)' <=> Holds(i + 1)
       /\ Holds(0) <=> Writes(0)
  <2>1. /\ Released => Kept = u - 1 /\ Kept' = u - 2
        /\ ~Released => Kept = u /\ Kept' = u - 1
    BY <1>1, <1>2, <1>9 DEF Kept
  <2>2. Kept' = Kept - 1 /\ Kept \in 1..u
    BY <1>1, <1>2, <1>6, <2>1
  <2>3. QED
    BY <1>5, <2>2 DEF Holds
<1>11. Stopped'
  <2>1. CASE u - 1 = 0
    BY <1>6, <2>1 DEF Released, Stopped
  <2>2. CASE u - 1 # 0
    <3>1. /\ Rob!SlotAt(u - 2)' = Rob!SlotAt(u - 1)
          /\ Writes(u - 2)' <=> Writes(u - 1)
      BY <1>1, <1>2, <1>3, <1>5, <2>2
    <3>2. robState' = "FlushBackend" =>
            \/ robState = "WaitForResume" /\ u - 1 = 0
            \/ robState = "FlushBackend"
      <4>1. robState' # robState =>
              robState = "WaitForResume" /\ header = rollBackTag
        BY DEF CommitInsn
      <4>2. robState = "WaitForResume" => rollBackTag = Rob!SlotAt(u - 1)
        BY DEF Control, Target, TargetIsYoungest
      <4>3. header = Rob!SlotAt(u - 1) => u - 1 = 0
        BY <1>1, <1>2, <1>6, <2>2, Geometry, Window
      <4>4. QED
        BY <4>1, <4>2, <4>3
    <3>3. robState = "FlushBackend" => ~Released
      BY DEF Registers, Stopped
    <3>4. QED
      BY <1>2, <1>6, <1>7, <1>9, <2>2, <3>1, <3>2, <3>3
      DEF Registers, Stopped
  <2>3. QED
    BY <2>1, <2>2
<1>12. ASSUME NEW k \in 0..(u - 1), NEW r \in ArchReg, NEW q, Maps(k + 1, r, q)
       PROVE  Maps(k, r, q)'
  <2>0. /\ \A i \in 0..(k - 1) : i \in 0..(u - 2) /\ i + 1 \in 0..k
        /\ \A i \in 0..k : i # 0 => i - 1 \in 0..(k - 1) /\ (i - 1) + 1 = i
        /\ 0 \in 0..k /\ (k + 1) - 1 = k
    BY <1>1, <1>2
  <2>1. CASE commitMap[r] = q /\ \A i \in 0..k : At(i).rd # r
    <3>1. commitMap'[r] = q
      BY <1>4, <1>7, <2>0, <2>1
    <3>2. QED
      BY <1>4, <2>0, <2>1, <3>1 DEF Maps
  <2>2. ASSUME NEW i \in 0..k, At(i).rd = r, At(i).phyRd = q,
               \A j \in 0..k : j > i => At(j).rd # r
        PROVE  Maps(k, r, q)'
    <3>1. CASE i = 0
      <4>1. commitMap'[r] = q
        BY <1>4, <1>5, <1>7, <2>2, <3>1, RegsAssumption DEF Writes
      <4>2. \A j \in 0..(k - 1) : At(j)'.rd # r
        BY <1>4, <2>0, <2>2, <3>1
      <4>3. QED
        BY <4>1, <4>2 DEF Maps
    <3>2. CASE i # 0
      <4> PICK h : h = i - 1
        OBVIOUS
      <4>1. h \in 0..(k - 1) /\ At(h)'.rd = r /\ At(h)'.phyRd = q
        BY <1>4, <2>0, <2>2, <3>2
      <4>2. \A j \in 0..(k - 1) : j > h => At(j)'.rd # r
        BY <1>4, <2>0, <2>2
      <4>3. QED
        BY <4>1, <4>2 DEF Maps
    <3>3. QED
      BY <3>1, <3>2
  <2>3. QED
    BY <1>12, <2>0, <2>1, <2>2 DEF Maps
<1>13. EntriesWrite'
  BY <1>3, <1>4, <1>5, <1>7 DEF Registers, EntriesWrite
<1>14. Chain'
  <2> SUFFICES ASSUME NEW j \in 0..(u - 2), Writes(j)'
               PROVE  Maps(j, At(j).rd, At(j).LphyRd)'
    BY <1>3 DEF Chain
  <2> PICK r, q : r = At(j + 1).rd /\ q = At(j + 1).LphyRd
    OBVIOUS
  <2>1. Maps(j + 1, r, q) /\ r \in ArchReg /\ j \in 0..(u - 1)
    <3>1. j + 1 \in Index /\ Writes(j + 1) /\ At(j + 1) \in Entry
      BY <1>3, <1>5, Window
    <3>2. QED
      BY <1>1, <3>1 DEF Registers, Chain, Writes, Entry, Rd
  <2>2. Maps(j, r, q)' /\ At(j)'.rd = r /\ At(j)'.LphyRd = q
    BY <1>4, <1>12, <2>1
  <2>3. QED
    BY <2>2
<1>15. Table'
  <2> SUFFICES ASSUME NEW r \in ArchReg
               PROVE  Maps(Kept, r, renameTable[r])'
    BY DEF Table
  <2> PICK v, q : v = Kept - 1 /\ q = renameTable[r]
    OBVIOUS
  <2>1. Maps(v + 1, r, q) /\ v \in 0..(u - 1)
    BY <1>1, <1>2, <1>10 DEF Registers, Table
  <2>2. Maps(v, r, q)' /\ Kept' = v /\ renameTable'[r] = q
    BY <1>7, <1>10, <1>12, <2>1
  <2>3. QED
    BY <2>2
<1>16. \A q : OwnedByLive(q) <=>
               OwnedByLive(q)' \/ (writes /\ q = e.phyRd)
  <2>1. \A i \in Index : i = 0 \/ \E j \in 0..(u - 2) : i = j + 1
    BY <1>1, <1>3
  <2>2. QED
    BY <1>3, <1>4, <1>5, <1>10, <2>1 DEF OwnedByLive
<1>17. writes => ~OwnedByLive(e.phyRd)'
  <2>1. \A j \in 0..(u - 2) : j + 1 # 0
    OBVIOUS
  <2>2. QED
    BY <1>3, <1>4, <1>5, <1>10, <2>1 DEF OwnedByLive, Registers, OneOwner
<1>18. writes => ~OwnedByArch(e.phyRd)
  BY <1>3, <1>4, <1>5, <1>10 DEF OwnedByLive, Registers, OneOwner
<1>19. \A q \in PhyReg :
         OwnedByArch(q)' <=>
           \/ writes /\ q = e.phyRd
           \/ OwnedByArch(q) /\ ~(writes /\ q = e.LphyRd)
  <2>1. CASE ~writes
    BY <1>7, <2>1 DEF OwnedByArch
  <2>2. CASE writes
    <3>1. \A r \in ArchReg : commitMap'[r] = IF r = e.rd THEN e.phyRd
                                             ELSE commitMap[r]
      BY <1>5, <1>7, <2>2
    <3>2. \A r \in ArchReg :
            commitMap[r] = e.LphyRd => r = e.rd \/ e.LphyRd = ZeroPhy
      BY <1>5, <1>8, <2>2 DEF Registers, OneOwner
    <3>3. QED
      BY <1>5, <1>8, <1>18, <2>2, <3>1, <3>2, RegsAssumption DEF OwnedByArch
  <2>3. QED
    BY <2>1, <2>2
<1>20. OneOwner'
  <2>1. \A i, j \in Index' :
          Holds(i)' /\ Holds(j)' /\ At(i)'.phyRd = At(j)'.phyRd => i = j
    <3>1. \A i, j \in 0..(u - 2) : i + 1 = j + 1 => i = j
      OBVIOUS
    <3>2. QED
      BY <1>3, <1>4, <1>10, <3>1 DEF Registers, OneOwner
  <2>2. \A r, s \in ArchReg : commitMap'[r] = commitMap'[s] =>
          r = s \/ commitMap'[r] = ZeroPhy
    BY <1>5, <1>7, <1>18 DEF Registers, OneOwner, OwnedByArch
  <2>3. \A q \in PhyReg : ~(OwnedByArch(q)' /\ OwnedByLive(q)')
    BY <1>16, <1>17, <1>19 DEF Registers, OneOwner
  <2>4. QED
    BY <2>1, <2>2, <2>3 DEF OneOwner
<1>21. FreeIffUnowned'
  <2> SUFFICES ASSUME NEW q \in PhyReg
               PROVE  free'[q] = IF OwnedByArch(q)' \/ OwnedByLive(q)'
                                 THEN 0 ELSE 1
    BY DEF FreeIffUnowned
  <2>1. free[q] = IF OwnedByArch(q) \/ OwnedByLive(q) THEN 0 ELSE 1
    BY DEF Registers, FreeIffUnowned
  <2>2. CASE writes /\ q = e.LphyRd
    <3>1. OwnedByArch(q) /\ ~OwnedByLive(q)
      BY <1>5, <1>8, <2>2 DEF OwnedByArch, Registers, OneOwner
    <3>2. free'[q] = 1
      BY <1>7, <2>1, <2>2, <3>1, RegsAssumption
    <3>3. QED
      BY <1>16, <1>19, <2>2, <3>1, <3>2
  <2>3. CASE ~(writes /\ q = e.LphyRd)
    BY <1>7, <1>16, <1>19, <2>1, <2>3
  <2>4. QED
    BY <2>2, <2>3
<1>22. SquashedOwnNothing'
  <2> SUFFICES ASSUME NEW y \in iew, ~Rob!Live(y.tag)', y.rd # NoReg
               PROVE  ~OwnedByArch(y.phyRd)' /\ ~OwnedByLive(y.phyRd)'
    BY <1>7 DEF SquashedOwnNothing
  <2>1. toCommit > 0 /\ toCommit \in Nat
    BY SizesAssumption DEF CommitInsn, Control, TypeOK
  <2>2. e.done
    BY <1>4, <2>1 DEF Control, PackageDone
  <2>3. (y.tag \in Slots /\ y.tag # header) \/ ~Rob!Live(y.tag)
    BY <2>2 DEF Control, FlightMatches, TypeOK, InFlight
  <2>4. ~Rob!Live(y.tag) /\ y.phyRd \in PhyReg
    BY <1>2, <2>3 DEF Control, FlightHasRegister
  <2>5. ~OwnedByArch(y.phyRd) /\ ~OwnedByLive(y.phyRd)
    BY <2>4 DEF Registers, SquashedOwnNothing
  <2>6. QED
    BY <1>16, <1>19, <2>4, <2>5
<1>23. QED
  BY <1>11, <1>13, <1>14, <1>15, <1>20, <1>21, <1>22 DEF Registers

(* Rolling back takes the youngest name off again, whether the entry goes  *)
(* or, being the fault the recovery stops at, stays.                       *)
LEMMA RegistersRollBackStep ==
  ASSUME FreedOnce, Control, Program, Registers, RollBackStep
  PROVE  Registers'
<1> PICK u, t : u = usage /\ t = Rob!GetLastest
  OBVIOUS
<1> PICK e : e = rob[t]
  OBVIOUS
<1>0. Shape /\ u \in 1..RobSize /\ iew' = iew /\ commitMap' = commitMap
      /\ robState = "Undo" /\ rollBackTag' = rollBackTag
  <2>1. Rob!Live(rollBackTag) /\ rollBackTag \in Slots
    BY DEF Control, TypeOK, Target, RollBackStep, RollsBack
  <2>2. QED
    BY <2>1, Window DEF RollBackStep, RollsBack, history, Control, TypeOK,
                        Shape, Index
<1>1. /\ u - 1 \in Index /\ Index = 0..(u - 1) /\ t = Rob!SlotAt(u - 1)
      /\ t \in Slots /\ At(u - 1) = e /\ e \in Entry /\ Rob!Live(t)
      /\ Index \subseteq Slots
  BY <1>0, Geometry, Window DEF Index, At
<1> DEFINE releases == t # rollBackTag \/ (e.isExcp /\ e.rd # NoReg)
<1>2. CASE ~releases
  <2>1. UNCHANGED <<rob, header, tail, usage>> /\ t = rollBackTag
    BY <1>2 DEF RollBackStep, robVars
  <2>2. UNCHANGED <<free, renameTable>>
    BY <1>2 DEF RollBackStep, ReleaseResource, regVars
  <2>3. \A i \in Index : At(i)' = At(i)
    BY <2>1 DEF At, Rob!SlotAt
  <2>4. \A s : Rob!Live(s)' <=> Rob!Live(s)
    BY <2>1 DEF Rob!Live, Rob!Age
  <2>5. ~Released /\ ~(At(u - 1).isExcp /\ Writes(u - 1))
    BY <1>1, <1>2 DEF Released, Writes
  <2>6. ~Released' /\ Stopped'
    BY <1>1, <2>1, <2>3, <2>5 DEF Released, Stopped, Writes
  <2>7. QED
    BY <1>0, <2>1, <2>2, <2>3, <2>4, <2>5, <2>6, QuietStep
    DEF Registers, EntriesWrite, SquashedOwnNothing
<1>3. CASE releases
  <2>1. ReleaseResource(t)
    BY <1>3 DEF RollBackStep
  <2>2. /\ rob' = rob
        /\ usage' = IF t = rollBackTag THEN u ELSE u - 1
        /\ \A s \in Slots : Rob!Live(s)' => Rob!Live(s)
        /\ \A s \in Slots : Rob!Live(s) /\ s # t => Rob!Live(s)'
        /\ \A i \in Slots : Rob!SlotAt(i)' = Rob!SlotAt(i)
    <3>1. CASE t = rollBackTag
      <4>1. UNCHANGED <<rob, header, tail, usage>>
        BY <3>1 DEF RollBackStep, robVars
      <4>2. QED
        BY <3>1, <4>1 DEF Rob!Live, Rob!Age, Rob!SlotAt
    <3>2. CASE t # rollBackTag
      <4>1. Rob!RollBack
        BY <3>2 DEF RollBackStep
      <4>2. QED
        BY <1>0, <3>2, <4>1, RollBackGeometry
    <3>3. QED
      BY <3>1, <3>2
  <2>3. /\ Index' = 0..(usage' - 1) /\ Index' \subseteq Index
        /\ 0..(u - 2) \subseteq Index'
        /\ Index = 0..(u - 2) \union {u - 1}
        /\ \A i \in Index : At(i)' = At(i)
        /\ \A i \in 0..(u - 2) : i # u - 1 /\ u - 1 > i /\ ~(i > u - 1)
    BY <1>0, <1>1, <2>2 DEF Index, At
  <2>4. /\ free' = IF e.rd # NoReg THEN [free EXCEPT ![e.phyRd] = @ + 1]
                   ELSE free
        /\ renameTable' = IF e.rd # NoReg
                          THEN [renameTable EXCEPT ![e.rd] = e.LphyRd]
                          ELSE renameTable
        /\ free \in [PhyReg -> Nat] /\ renameTable \in [ArchReg -> Phy]
        /\ e.rd # NoReg => e.rd \in ArchReg /\ e.phyRd \in PhyReg
        /\ e.rd # NoReg /\ TraceOn => free[e.phyRd] = 0
    BY <1>1, <2>1
    DEF ReleaseResource, regVars, Freed, Control, TypeOK, Registers,
        EntriesWrite, Writes, Entry, Rd
  <2>5. ~Released
    <3>1. CASE TraceOn
      BY <1>1, <2>4, <3>1 DEF Released, Writes
    <3>2. CASE NoFaultingRd
      BY <1>1, <3>2 DEF Released, Registers, EntriesWrite
    <3>3. QED
      BY <3>1, <3>2 DEF FreedOnce
  <2>6. Kept = u /\ \A i \in Index : Holds(i) <=> Writes(i)
    BY <2>5, NoneReleased
  <2>7. /\ \A q : OwnedByArch(q)' <=> OwnedByArch(q)
        /\ e.rd # NoReg => OwnedByLive(e.phyRd) /\ ~OwnedByArch(e.phyRd)
                           /\ free[e.phyRd] = 0
    BY <1>0, <1>1, <2>4, <2>6
    DEF OwnedByArch, OwnedByLive, Writes, Registers, OneOwner, FreeIffUnowned
  <2>8. Kept' = u - 1 /\ Stopped'
    <3>1. CASE t = rollBackTag
      <4>1. e.isExcp /\ e.rd # NoReg /\ robState' = "WaitForResume"
        BY <1>3, <3>1 DEF RollBackStep
      <4>2. free'[e.phyRd] = 1
        BY <2>4, <2>7, <4>1
      <4>3. Released'
        BY <1>0, <1>1, <2>2, <2>3, <3>1, <4>1, <4>2 DEF Released, Writes
      <4>4. QED
        BY <2>2, <3>1, <4>1, <4>3 DEF Kept, Stopped
    <3>2. CASE t # rollBackTag
      <4>1. usage' = u - 1 /\ robState' = "Undo"
        BY <1>0, <2>2, <3>2 DEF RollBackStep
      <4>2. ~Released'
        <5> SUFFICES ASSUME u - 1 > 0, Writes(u - 2),
                            free'[At(u - 2).phyRd] # 0
                     PROVE  FALSE
          BY <1>0, <2>3, <4>1 DEF Released, Writes
        <5> PICK p : p = At(u - 2).phyRd
          OBVIOUS
        <5>1. u - 2 \in Index /\ u - 2 # u - 1 /\ p \in PhyReg
          BY <1>0, <1>1 DEF Registers, EntriesWrite
        <5>2. OwnedByLive(p) /\ free[p] = 0
          BY <2>6, <5>1 DEF OwnedByLive, Registers, FreeIffUnowned
        <5>3. e.rd # NoReg => p # e.phyRd
          BY <1>1, <2>6, <5>1 DEF Registers, OneOwner, Writes
        <5>4. QED
          BY <2>4, <5>1, <5>2, <5>3
      <4>3. QED
        BY <4>1, <4>2 DEF Kept, Stopped
    <3>3. QED
      BY <3>1, <3>2
  <2>9. \A i \in Index : Holds(i)' <=> Holds(i) /\ i # u - 1
    BY <1>0, <1>1, <2>3, <2>6, <2>8 DEF Holds, Writes
  <2>10. \A k \in 0..u : \A r, q : Maps(k, r, q) <=> Maps(k, r, q)'
    <3> SUFFICES ASSUME NEW k \in 0..u, NEW r, NEW q
                 PROVE  Maps(k, r, q) <=> Maps(k, r, q)'
      OBVIOUS
    <3>1. \A i \in 0..(k - 1) : At(i)' = At(i)
      BY <1>0, <1>1, <2>3
    <3>2. QED
      BY <1>0, <3>1 DEF Maps
  <2>11. EntriesWrite'
    BY <1>0, <2>3 DEF Registers, EntriesWrite, Writes
  <2>12. Chain'
    <3> SUFFICES ASSUME NEW j \in Index, Writes(j)'
                 PROVE  Maps(j, At(j).rd, At(j).LphyRd)'
      BY <2>3 DEF Chain
    <3> PICK r, q : r = At(j).rd /\ q = At(j).LphyRd
      OBVIOUS
    <3>1. Maps(j, r, q) /\ j \in 0..u
      BY <1>0, <1>1, <2>3 DEF Registers, Chain, Writes
    <3>2. Maps(j, r, q)' /\ At(j)'.rd = r /\ At(j)'.LphyRd = q
      BY <2>3, <2>10, <3>1
    <3>3. QED
      BY <3>2
  <2>13. Table'
    <3> SUFFICES ASSUME NEW r \in ArchReg
                 PROVE  Maps(Kept, r, renameTable[r])'
      BY DEF Table
    <3> PICK v, q : v = u - 1 /\ q = renameTable'[r]
      OBVIOUS
    <3>1. v \in 0..u /\ Kept' = v
      BY <1>0, <2>8
    <3>2. CASE e.rd = r
      <4>1. q = e.LphyRd /\ e.rd # NoReg
        BY <2>4, <3>2, RegsAssumption
      <4>2. Maps(v, r, q)
        BY <1>1, <3>2, <4>1 DEF Registers, Chain, Writes
      <4>3. Maps(v, r, q)'
        BY <2>10, <3>1, <4>2
      <4>4. QED
        BY <3>1, <4>3
    <3>3. CASE e.rd # r
      <4>1. q = renameTable[r] /\ Maps(u, r, q)
        BY <2>4, <2>6, <3>3 DEF Registers, Table
      <4>2. 0..(u - 1) = 0..(v - 1) \union {v} /\ At(v).rd # r
        BY <1>0, <1>1, <3>3
      <4>3. Maps(v, r, q)
        BY <4>1, <4>2 DEF Maps
      <4>4. Maps(v, r, q)'
        BY <2>10, <3>1, <4>3
      <4>5. QED
        BY <3>1, <4>4
    <3>4. QED
      BY <3>2, <3>3
  <2>14. \A q : OwnedByLive(q) <=>
                OwnedByLive(q)' \/ (e.rd # NoReg /\ q = e.phyRd)
    <3>1. \A i \in Index : i # u - 1 => i \in Index'
      BY <2>3
    <3>2. Holds(u - 1) <=> e.rd # NoReg
      BY <1>1, <2>6 DEF Writes
    <3>3. QED
      BY <1>1, <2>3, <2>9, <3>1, <3>2 DEF OwnedByLive
  <2>15. e.rd # NoReg => ~OwnedByLive(e.phyRd)'
    BY <1>1, <2>3, <2>6, <2>9 DEF OwnedByLive, Registers, OneOwner, Writes
  <2>16. OneOwner'
    <3>1. \A i, j \in Index' :
            Holds(i)' /\ Holds(j)' /\ At(i)'.phyRd = At(j)'.phyRd => i = j
      BY <2>3, <2>9 DEF Registers, OneOwner
    <3>2. QED
      BY <1>0, <2>7, <2>14, <3>1 DEF Registers, OneOwner
  <2>17. FreeIffUnowned'
    BY <2>4, <2>7, <2>14, <2>15 DEF Registers, FreeIffUnowned
  <2>18. SquashedOwnNothing'
    <3> SUFFICES ASSUME NEW y \in iew, ~Rob!Live(y.tag)', y.rd # NoReg
                 PROVE  ~OwnedByArch(y.phyRd)' /\ ~OwnedByLive(y.phyRd)'
      BY <1>0 DEF SquashedOwnNothing
    <3>1. y.tag \in Slots
      BY DEF Control, TypeOK, InFlight
    <3>2. CASE y.tag = t
      <4>1. e.rd = y.rd /\ e.phyRd = y.phyRd
        BY <1>1, <3>2 DEF Control, FlightMatches
      <4>2. QED
        BY <2>7, <2>15, <4>1
    <3>3. CASE y.tag # t
      BY <2>2, <2>7, <2>14, <3>1, <3>3 DEF Registers, SquashedOwnNothing
    <3>4. QED
      BY <3>2, <3>3
  <2>19. QED
    BY <2>8, <2>11, <2>12, <2>13, <2>16, <2>17, <2>18 DEF Registers
<1>4. QED
  BY <1>2, <1>3

LEMMA RegistersNext ==
  ASSUME FreedOnce
  PROVE  Control /\ Program /\ Registers /\ [Next]_vars => Registers'
<1> SUFFICES ASSUME Control, Program, Registers, [Next]_vars PROVE Registers'
  OBVIOUS
<1>1. ASSUME NEW y \in iew, AddrGen(y) \/ Execute(y) \/ WriteBack(y)
      PROVE  Registers'
  BY <1>1, RegistersExecute
<1>2. ASSUME NEW i \in Insn, NEW p \in Phy, AllocateInsn(i, p)
      PROVE  Registers'
  BY <1>2, RegistersAllocateInsn
<1>3. CASE CommitInsn
  BY <1>3, RegistersCommitInsn
<1>4. CASE RollBackStep
  BY <1>4, RegistersRollBackStep
<1>5. CASE EndIEW \/ EndDispatch \/ SendCommitReq \/ EndTick \/ UNCHANGED vars
  BY <1>5, RegistersClock
<1>6. QED
  BY <1>1, <1>2, <1>3, <1>4, <1>5 DEF Next

LEMMA RegistersAlways ==
  ASSUME FreedOnce
  PROVE  Spec => [](Control /\ Program /\ Registers)
  BY ControlInit, ControlNext, ProgramInit, ProgramNext, RegistersInit,
     RegistersNext, PTL DEF Spec

(* The writers of the properties are the entries that hold a register.     *)
LEMMA WritersHold ==
  ASSUME Control, Registers
  PROVE  /\ \A t \in LiveWriters : \E i \in Index :
              i = Rob!Age(t) /\ t = Rob!SlotAt(i) /\ Holds(i) /\ At(i) = rob[t]
         /\ \A i \in Index : Holds(i) =>
              /\ Rob!SlotAt(i) \in LiveWriters /\ Rob!Age(Rob!SlotAt(i)) = i
              /\ rob[Rob!SlotAt(i)] = At(i)
<1>0. /\ Shape /\ Index \subseteq Slots
      /\ usage > 0 => /\ Rob!GetLastest = Rob!SlotAt(usage - 1)
                      /\ usage - 1 \in Index
  BY Geometry, Window DEF Control, TypeOK, Shape, Index
<1>1. ASSUME NEW i \in Index
      PROVE  LET t == Rob!SlotAt(i)
             IN  /\ t \in LiveSlots /\ Rob!Age(t) = i /\ rob[t] = At(i)
                 /\ Writes(i) <=> rob[t].rd # NoReg
                 /\ Writes(i) => (GaveUp(t) <=> Released /\ i = usage - 1)
  <2> PICK t : t = Rob!SlotAt(i)
    OBVIOUS
  <2>1. /\ t \in LiveSlots /\ Rob!Age(t) = i /\ rob[t] = At(i)
        /\ Writes(i) <=> rob[t].rd # NoReg
    BY <1>0, <1>1, Geometry, Window DEF LiveSlots, At, Writes
  <2>2. usage > 0 /\ usage - 1 \in Index
    BY <1>0, <1>1, Window DEF Index
  <2>3. t = Rob!GetLastest <=> i = usage - 1
    BY <1>0, <1>1, <2>1, <2>2, Geometry
  <2>4. Writes(i) => (GaveUp(t) <=> Released /\ i = usage - 1)
    BY <2>1, <2>2, <2>3 DEF GaveUp, Released, Writes, Registers, Stopped
  <2>5. QED
    BY <2>1, <2>4
<1>2. ASSUME NEW i \in Index
      PROVE  Holds(i) <=> Writes(i) /\ ~(Released /\ i = usage - 1)
  BY <1>2, KeptInWindow, Window DEF Holds, Kept, Index
<1>3. \A i \in Index : Holds(i) =>
        /\ Rob!SlotAt(i) \in LiveWriters /\ Rob!Age(Rob!SlotAt(i)) = i
        /\ rob[Rob!SlotAt(i)] = At(i)
  BY <1>1, <1>2 DEF LiveWriters
<1>4. ASSUME NEW t \in LiveWriters
      PROVE  \E i \in Index :
               i = Rob!Age(t) /\ t = Rob!SlotAt(i) /\ Holds(i) /\ At(i) = rob[t]
  <2>1. t \in LiveSlots /\ t \in Slots /\ Rob!Live(t)
    BY DEF LiveWriters, LiveSlots
  <2>2. PICK i \in Index : i = Rob!Age(t) /\ t = Rob!SlotAt(i)
    BY <2>1, Window
  <2>3. Writes(i) /\ ~GaveUp(t)
    BY <1>1, <2>2 DEF LiveWriters
  <2>4. QED
    BY <1>1, <1>2, <2>2, <2>3
<1>5. QED
  BY <1>3, <1>4

-----------------------------------------------------------------------------
(* The theorems.                                                           *)

(* No physical register leaks or has two owners, for any number of         *)
(* registers, any window and any interleaving of renaming, commit and      *)
(* recovery, whatever destinations faulting instructions have: in a build  *)
(* whose FreeList::push asserts, up to the tick in which a register would  *)
(* be freed twice, and in any build when what faults has no destination.   *)
THEOREM RegistersCorrect ==
  ASSUME FreedOnce
  PROVE  Spec => []RegistersConserved
<1>1. Control /\ Registers => RegistersConserved
  <2> SUFFICES ASSUME Control, Registers, NEW p \in PhyReg,
                      NEW arch, arch = {r \in ArchReg : commitMap[r] = p},
                      NEW live, live = {t \in LiveWriters : rob[t].phyRd = p}
               PROVE  /\ free[p] = IF arch \union live = {} THEN 1 ELSE 0
                      /\ \A r, s \in arch : r = s
                      /\ \A t, w \in live : t = w
                      /\ arch = {} \/ live = {}
    BY DEF RegistersConserved
  <2>1. arch # {} <=> OwnedByArch(p)
    BY DEF OwnedByArch
  <2>2. \A t \in live : \E i \in Index : /\ t = Rob!SlotAt(i) /\ Holds(i)
                                      /\ At(i).phyRd = p
    BY WritersHold
  <2>3. live # {} <=> OwnedByLive(p)
    <3>1. live # {} => OwnedByLive(p)
      BY <2>2 DEF OwnedByLive
    <3>2. OwnedByLive(p) => live # {}
      BY WritersHold DEF OwnedByLive
    <3>3. QED
      BY <3>1, <3>2
  <2>4. \A r, s \in arch : r = s
    BY RegsAssumption DEF Registers, OneOwner
  <2>5. \A t, w \in live : t = w
    BY <2>2 DEF Registers, OneOwner
  <2>6. QED
    BY <2>1, <2>3, <2>4, <2>5 DEF Registers, OneOwner, FreeIffUnowned
<1>2. QED
  BY <1>1, RegistersAlways, PTL

(* A rollback of any length, cut into ticks of any width and taken over by *)
(* older recoveries, restores the rename table to the mapping that program *)
(* order calls for, the faulting target's own destination included: up to  *)
(* the tick in which a register would be freed twice.                      *)
THEOREM RenameTableCorrect ==
  ASSUME FreedOnce
  PROVE  Spec => []RenameTableRestored
<1>1. Control /\ Registers => RenameTableRestored
  <2> SUFFICES ASSUME Control, Registers, NEW r \in ArchReg,
                      NEW writers,
                      writers = {t \in LiveWriters : rob[t].rd = r}
               PROVE  IF writers = {}
                      THEN renameTable[r] = commitMap[r]
                      ELSE \E t \in writers :
                             /\ \A w \in writers : w = t \/ Before(w, t)
                             /\ renameTable[r] = rob[t].phyRd
    BY DEF RenameTableRestored
  <2>0. Shape
    BY DEF Control, TypeOK, Shape
  <2> PICK oldest : oldest = 0..(Kept - 1)
    OBVIOUS
  <2>1. /\ Maps(Kept, r, renameTable[r]) /\ oldest \subseteq Index
        /\ \A i \in Index : i \in oldest <=> i < Kept
    BY KeptInWindow DEF Registers, Table, Index
  <2>2. \A t \in writers : \E i \in oldest :
          i = Rob!Age(t) /\ t = Rob!SlotAt(i) /\ At(i).rd = r
    BY <2>1, WritersHold DEF Holds
  <2>3. \A i \in oldest : At(i).rd = r =>
          /\ Rob!SlotAt(i) \in writers /\ Rob!Age(Rob!SlotAt(i)) = i
          /\ rob[Rob!SlotAt(i)] = At(i)
    BY <2>1, WritersHold, RegsAssumption DEF Holds, Writes
  <2>4. CASE commitMap[r] = renameTable[r] /\ \A i \in oldest : At(i).rd # r
    <3>1. writers = {}
      BY <2>2, <2>4
    <3>2. QED
      BY <2>4, <3>1
  <2>5. ASSUME NEW i \in oldest, At(i).rd = r, At(i).phyRd = renameTable[r],
               \A j \in oldest : j > i => At(j).rd # r
        PROVE  \E t \in writers :
                 /\ \A w \in writers : w = t \/ Before(w, t)
                 /\ renameTable[r] = rob[t].phyRd
    <3> PICK t : t = Rob!SlotAt(i)
      OBVIOUS
    <3>1. t \in writers /\ Rob!Age(t) = i /\ renameTable[r] = rob[t].phyRd
      BY <2>3, <2>5
    <3>2. ASSUME NEW w \in writers
          PROVE  w = t \/ Before(w, t)
      <4>1. PICK j \in oldest :
              j = Rob!Age(w) /\ w = Rob!SlotAt(j) /\ At(j).rd = r
        BY <2>2
      <4>2. ~(j > i) /\ i \in Int /\ j \in Int
        BY <2>1, <2>5, <4>1 DEF Index
      <4>3. QED
        BY <3>1, <4>1, <4>2 DEF Before
    <3>3. QED
      BY <3>1, <3>2
  <2>6. QED
    BY <2>1, <2>4, <2>5 DEF Maps
<1>2. QED
  BY <1>1, RegistersAlways, PTL

(* A late write back of a squashed instruction completes no other entry    *)
(* and writes no register anyone owns, squashed faults with a destination  *)
(* included: up to the tick in which a register would be freed twice.      *)
THEOREM LateWriteBackCorrect ==
  ASSUME FreedOnce
  PROVE  Spec => []LateWriteBackHarmless
<1>1. Control /\ Registers => LateWriteBackHarmless
  <2> SUFFICES ASSUME Control, Registers, NEW y \in iew, ~Rob!Live(y.tag)
               PROVE  robState # "Idle" /\ (y.rd # NoReg => free[y.phyRd] > 0)
    BY DEF Control, FlightMatches, LateWriteBackHarmless
  <2>1. robState # "Idle"
    BY DEF Control, SquashedOnlyInRecovery
  <2>2. y.rd # NoReg => free[y.phyRd] = 1
    BY DEF Registers, SquashedOwnNothing, FreeIffUnowned, Control,
           FlightHasRegister
  <2>3. QED
    BY <2>1, <2>2
<1>2. QED
  BY <1>1, RegistersAlways, PTL

-----------------------------------------------------------------------------
(***************************************************************************)
(* The busy list: what a reader of a register may believe of its done bit. *)
(* A fault leaves its destination as it is, and nobody reads it: what was  *)
(* dispatched behind the load is squashed, so only the other entries count *)
(* as producers.                                                           *)
(***************************************************************************)

(* The inductive invariant.                                                *)

AllocatedIsTaken == \A p \in PhyReg : p \in allocated <=> free[p] = 0

CommittedReady == \A r \in ArchReg : commitMap[r] \in ready \union {ZeroPhy}

Producers == {t \in LiveSlots : rob[t].rd # NoReg /\ ~rob[t].isExcp}
DoneReady == \A t \in Producers : rob[t].done => rob[t].phyRd \in ready

(* Only its own instruction marks the destination of a live entry done:    *)
(* a squashed one has lost its register before another can take it.        *)
ReadyProduced ==
  \A y \in iew : Rob!Live(y.tag) /\ y.rd # NoReg /\ y.phyRd \in ready =>
    y.stage = "wb"

(* A store has no destination, so finishing its address produces nothing.  *)
FlightWrites == \A y \in iew : y.rd # NoReg => y.kind \in Writers

BusyList ==
  /\ AllocatedIsTaken
  /\ CommittedReady
  /\ DoneReady
  /\ ReadyProduced
  /\ FlightWrites

-----------------------------------------------------------------------------
(* The owners of Registers by tag.                                         *)

LEMMA Owners ==
  ASSUME Control, Registers
  PROVE  /\ Producers \subseteq LiveSlots /\ LiveSlots \subseteq Slots
         /\ Shape /\ rob \in [Slots -> Entry] /\ free \in [PhyReg -> Nat]
         /\ \A t \in Producers :
              /\ rob[t].phyRd \in PhyReg /\ rob[t].rd \in ArchReg
              /\ OwnedByLive(rob[t].phyRd) /\ ~OwnedByArch(rob[t].phyRd)
              /\ free[rob[t].phyRd] = 0
         /\ \A s, t \in Producers : rob[s].phyRd = rob[t].phyRd => s = t
         /\ \A r, s \in ArchReg :
              commitMap[r] = commitMap[s] => r = s \/ commitMap[r] = ZeroPhy
         /\ \A r \in ArchReg : OwnedByArch(commitMap[r])
         /\ \A p \in PhyReg : free[p] = 0 <=> OwnedByArch(p) \/ OwnedByLive(p)
         /\ \A p \in PhyReg : free[p] <= 1
<1>1. /\ Shape /\ rob \in [Slots -> Entry] /\ free \in [PhyReg -> Nat]
      /\ Producers \subseteq LiveSlots /\ LiveSlots \subseteq Slots
  BY DEF Control, TypeOK, Shape, Rob!TypeOK, Rob!Slots, Slots, Producers,
         LiveSlots
<1>2. \A t \in Producers : \E i \in Index :
        t = Rob!SlotAt(i) /\ Holds(i) /\ At(i) = rob[t] /\ At(i) \in Entry
  <2> SUFFICES ASSUME NEW t \in Producers
               PROVE  \E i \in Index : /\ t = Rob!SlotAt(i) /\ Holds(i)
                                       /\ At(i) = rob[t] /\ At(i) \in Entry
    OBVIOUS
  <2>1. PICK i \in Index : t = Rob!SlotAt(i)
    BY Window DEF Producers, LiveSlots
  <2>2. At(i) = rob[t] /\ At(i) \in Entry /\ Writes(i) /\ ~At(i).isExcp
    BY <2>1, Window DEF Producers, Writes, At
  <2>3. Holds(i)
    BY <2>2, Window DEF Holds, Kept, Released, Index
  <2>4. QED
    BY <2>1, <2>2, <2>3
<1>3. \A t \in Producers :
        /\ rob[t].phyRd \in PhyReg /\ rob[t].rd \in ArchReg
        /\ OwnedByLive(rob[t].phyRd)
  BY <1>2 DEF Registers, EntriesWrite, OwnedByLive, Holds, Writes, Entry, Rd
<1>4. \A t \in Producers : ~OwnedByArch(rob[t].phyRd)
                          /\ free[rob[t].phyRd] = 0
  BY <1>3 DEF Registers, OneOwner, FreeIffUnowned
<1>5. \A s, t \in Producers : rob[s].phyRd = rob[t].phyRd => s = t
  BY <1>2 DEF Registers, OneOwner
<1>6. /\ \A p \in PhyReg : free[p] = 0 <=> OwnedByArch(p) \/ OwnedByLive(p)
      /\ \A p \in PhyReg : free[p] <= 1
  BY DEF Registers, FreeIffUnowned
<1>7. /\ \A r, s \in ArchReg :
           commitMap[r] = commitMap[s] => r = s \/ commitMap[r] = ZeroPhy
      /\ \A r \in ArchReg : OwnedByArch(commitMap[r])
  BY DEF Registers, OneOwner, OwnedByArch
<1>8. QED
  BY <1>1, <1>3, <1>4, <1>5, <1>6, <1>7

-----------------------------------------------------------------------------
(* BusyList is inductive relative to Control and Registers.                *)

LEMMA BusyListInit == Init => BusyList
<1> SUFFICES ASSUME Init PROVE BusyList
  OBVIOUS
<1>1. LiveSlots = {}
  BY SizesAssumption DEF Init, LiveSlots, Rob!Live, Rob!Age, Rob!Slots, Slots
<1>2. QED
  BY <1>1
  DEF Init, BusyList, AllocatedIsTaken, CommittedReady, DoneReady,
      ReadyProduced, FlightWrites, Producers

(* What is still to be written back is no fault yet.                       *)
LEMMA FlightProduces ==
  ASSUME Control, Program, NEW y \in iew, Rob!Live(y.tag)
  PROVE  /\ y.tag \in LiveSlots /\ ~rob[y.tag].isExcp
         /\ y.rd # NoReg => y.tag \in Producers
<1>1. y.tag \in LiveSlots
  BY DEF Control, TypeOK, InFlight, LiveSlots
<1>2. ~rob[y.tag].isExcp
  BY <1>1 DEF Control, FlightMatches, Program, ExcpIsBad
<1>3. QED
  BY <1>1, <1>2 DEF Control, FlightMatches, Producers

(* A result marks its own destination done and no other live one.          *)
LEMMA ProducesItsOwn ==
  ASSUME Control, Program, Registers, NEW y \in iew, y.rd # NoReg,
         NEW z \in iew, z # y, Rob!Live(z.tag), z.rd # NoReg
  PROVE  z.phyRd # y.phyRd
<1>1. /\ z.tag \in Producers /\ rob[z.tag].phyRd = z.phyRd
      /\ z.tag # y.tag /\ y.tag \in Slots
  BY FlightProduces DEF Control, FlightMatches, TypeOK, InFlight
<1>2. CASE Rob!Live(y.tag)
  <2>1. y.tag \in Producers /\ rob[y.tag].phyRd = y.phyRd
    BY <1>2, FlightProduces DEF Control, FlightMatches
  <2>2. QED
    BY <1>1, <2>1, Owners
<1>3. CASE ~Rob!Live(y.tag)
  BY <1>1, <1>3, Owners DEF Registers, SquashedOwnNothing
<1>4. QED
  BY <1>2, <1>3

LEMMA BusyListAddrGen ==
  ASSUME Control, Program, Registers, BusyList, NEW y \in iew, AddrGen(y)
  PROVE  BusyList'
<1>0. /\ y \in InFlight /\ y.tag \in Slots
      /\ UNCHANGED <<header, tail, usage, free, allocated, ready, commitMap>>
      /\ rob' = [rob EXCEPT ![y.tag] =
                   [@ EXCEPT !.isStable = TRUE,
                             !.done = rob[y.tag].done \/ y.kind = "STU"]]
  BY DEF Control, TypeOK, InFlight, AddrGen, regVars, history
<1>1. /\ \A t : Rob!Live(t)' <=> Rob!Live(t)
      /\ LiveSlots' = LiveSlots
  BY <1>0 DEF Rob!Live, Rob!Age, LiveSlots
<1>2. \A t \in Slots :
        /\ rob'[t].rd = rob[t].rd /\ rob'[t].phyRd = rob[t].phyRd
        /\ rob'[t].isExcp = rob[t].isExcp
        /\ rob'[t].done => rob[t].done \/ (t = y.tag /\ y.kind = "STU")
  BY <1>0, Owners DEF Entry
<1>3. Producers' = Producers
  BY <1>1, <1>2 DEF Producers, LiveSlots
<1>4. y.kind = "STU" => y.tag \notin Producers
  BY DEF BusyList, FlightWrites, Writers, Control, FlightMatches, Producers,
         LiveSlots
<1>5. DoneReady'
  BY <1>0, <1>2, <1>3, <1>4, Owners DEF BusyList, DoneReady
<1>6. ReadyProduced' /\ FlightWrites'
  BY <1>0, <1>1 DEF AddrGen, InFlight, BusyList, ReadyProduced, FlightWrites
<1>7. AllocatedIsTaken' /\ CommittedReady'
  BY <1>0 DEF BusyList, AllocatedIsTaken, CommittedReady
<1>8. QED
  BY <1>5, <1>6, <1>7 DEF BusyList

LEMMA BusyListExecute ==
  ASSUME Control, Program, Registers, BusyList, NEW y \in iew, Execute(y)
  PROVE  BusyList'
<1>0. /\ y \in InFlight
      /\ UNCHANGED <<rob, header, tail, usage, free, allocated, commitMap>>
      /\ ready' = IF y.rd = NoReg THEN ready ELSE ready \union {y.phyRd}
      /\ iew' = (iew \ {y}) \union {[y EXCEPT !.stage = "wb"]}
  BY DEF Control, TypeOK, InFlight, Execute, robVars, history
<1>1. /\ \A t : Rob!Live(t)' <=> Rob!Live(t)
      /\ Producers' = Producers
  BY <1>0 DEF Rob!Live, Rob!Age, LiveSlots, Producers
<1>2. DoneReady' /\ AllocatedIsTaken' /\ CommittedReady'
  BY <1>0, <1>1
  DEF BusyList, DoneReady, AllocatedIsTaken, CommittedReady
<1>3. FlightWrites'
  BY <1>0 DEF BusyList, FlightWrites, InFlight
<1>4. ReadyProduced'
  <2> SUFFICES ASSUME NEW z \in iew, z # y, Rob!Live(z.tag), z.rd # NoReg,
                      z.phyRd \in ready'
               PROVE  z.stage = "wb"
    BY <1>0, <1>1 DEF ReadyProduced, InFlight
  <2>1. z.phyRd \in ready
    BY <1>0, ProducesItsOwn
  <2>2. QED
    BY <2>1 DEF BusyList, ReadyProduced
<1>5. QED
  BY <1>2, <1>3, <1>4 DEF BusyList

LEMMA BusyListWriteBack ==
  ASSUME Control, Program, Registers, BusyList, NEW y \in iew, WriteBack(y)
  PROVE  BusyList'
<1>0. /\ y \in InFlight /\ y.tag \in Slots /\ iew' = iew \ {y}
      /\ UNCHANGED <<header, tail, usage, free, allocated, commitMap>>
  BY DEF Control, TypeOK, InFlight, WriteBack
<1>1. /\ \A t : Rob!Live(t)' <=> Rob!Live(t)
      /\ LiveSlots' = LiveSlots
  BY <1>0 DEF Rob!Live, Rob!Age, LiveSlots
<1>2. CASE ~Rob!Live(y.tag)
  <2>1. UNCHANGED <<rob, ready>>
    BY <1>0, <1>2, Owners, AcceptedIsLive DEF WriteBack
  <2>2. Producers' = Producers
    BY <1>1, <2>1 DEF Producers
  <2>3. QED
    BY <1>0, <1>1, <2>1, <2>2
    DEF BusyList, AllocatedIsTaken, CommittedReady, DoneReady, ReadyProduced,
        FlightWrites
<1>3. CASE Rob!Live(y.tag)
  <2> DEFINE fault == y.bad /\ y.kind = "LDU"
  <2>1. ~rob[y.tag].isExcp /\ y.tag \in LiveSlots
    BY <1>3, FlightProduces
  <2>2. /\ ready' = IF y.rd = NoReg \/ fault THEN ready
                     ELSE ready \union {y.phyRd}
        /\ rob' = [rob EXCEPT ![y.tag] =
                     [@ EXCEPT !.done = TRUE, !.isStable = TRUE,
                               !.isExcp = rob[y.tag].isExcp \/ fault]]
    BY <1>0, <1>3, Owners, AcceptedIsLive DEF WriteBack
  <2>3. \A t \in Slots :
          /\ rob'[t].rd = rob[t].rd /\ rob'[t].phyRd = rob[t].phyRd
          /\ t # y.tag => rob'[t].isExcp = rob[t].isExcp
          /\ t = y.tag /\ fault => rob'[t].isExcp = TRUE
          /\ t = y.tag => rob[t].isExcp = FALSE
          /\ rob'[t].done => rob[t].done \/ t = y.tag
    <3>1. rob[y.tag].isExcp = FALSE /\ rob \in [Slots -> Entry]
      BY <2>1, Owners DEF Entry
    <3> PICK e, f : e = rob[y.tag] /\ f = rob'[y.tag]
      OBVIOUS
    <3>2. e \in Entry /\ e.isExcp = FALSE
      BY <1>0, <3>1
    <3>3. f = [e EXCEPT !.done = TRUE, !.isStable = TRUE,
                        !.isExcp = e.isExcp \/ fault]
      BY <1>0, <2>2, <3>1
    <3>4. f.rd = e.rd /\ f.phyRd = e.phyRd
      BY <3>2, <3>3 DEF Entry
    <3>5. f.isExcp = (e.isExcp \/ fault)
      BY <3>2, <3>3 DEF Entry
    <3>6. fault => f.isExcp = TRUE
      BY <3>2, <3>5
    <3>7. /\ fault => rob'[y.tag].isExcp = TRUE
          /\ rob'[y.tag].rd = rob[y.tag].rd
          /\ rob'[y.tag].phyRd = rob[y.tag].phyRd
      BY <3>4, <3>6
    <3>8. QED
      BY <1>0, <2>2, <3>1, <3>7
  <2>4. /\ Producers' \subseteq Producers
        /\ fault => y.tag \notin Producers'
    BY <1>0, <1>1, <2>3, Owners DEF Producers
  <2>5. ~fault /\ y.tag \in Producers => rob[y.tag].phyRd \in ready'
    BY <1>3, <2>2 DEF Control, FlightMatches, Producers
  <2>6. DoneReady'
    <3> SUFFICES ASSUME NEW t \in Producers', rob'[t].done
                 PROVE  rob[t].phyRd \in ready'
      BY <2>3, <2>4, Owners DEF DoneReady
    <3>1. CASE t = y.tag
      BY <2>4, <2>5, <3>1
    <3>2. CASE t # y.tag
      BY <2>2, <2>3, <2>4, <3>2, Owners DEF BusyList, DoneReady
    <3>3. QED
      BY <3>1, <3>2
  <2>7. AllocatedIsTaken' /\ CommittedReady' /\ FlightWrites'
    BY <1>0, <2>2
    DEF BusyList, AllocatedIsTaken, CommittedReady, FlightWrites
  <2>8. ReadyProduced'
    <3> SUFFICES ASSUME NEW z \in iew, z # y, Rob!Live(z.tag), z.rd # NoReg,
                        z.phyRd \in ready'
                 PROVE  z.stage = "wb"
      BY <1>0, <1>1 DEF ReadyProduced
    <3>1. z.phyRd \in ready
      BY <2>2, ProducesItsOwn
    <3>2. QED
      BY <3>1 DEF BusyList, ReadyProduced
  <2>9. QED
    BY <2>6, <2>7, <2>8 DEF BusyList
<1>4. QED
  BY <1>2, <1>3

(* A renamed register is busy until its new instruction has run.           *)
LEMMA BusyListAllocateInsn ==
  ASSUME Control, Registers, BusyList,
         NEW i \in Insn, NEW p \in Phy, AllocateInsn(i, p)
  PROVE  BusyList'
<1> PICK g, new : g = tail /\ new = NewEntry(i, p)
  OBVIOUS
<1>1. /\ Rob!Push(new) /\ new \in Entry /\ g \in Slots
      /\ iew' = IF DoneAtDispatch(i) THEN iew
                ELSE iew \union {NewInFlight(i, p)}
      /\ commitMap' = commitMap
  BY AllocatedTypes
  DEF AllocateInsn, NewEntry, NewInFlight, Control, TypeOK, Rob!TypeOK,
      Rob!Slots, Slots
<1>2. /\ ~Rob!Live(g)
      /\ rob' = [rob EXCEPT ![g] = new]
      /\ \A t \in Slots : Rob!Live(t)' <=> Rob!Live(t) \/ t = g
  BY <1>1, Owners, PushGeometry
<1>3. /\ LiveSlots' = LiveSlots \union {g} /\ g \notin LiveSlots
      /\ rob'[g] = new /\ \A t \in LiveSlots : rob'[t] = rob[t]
  BY <1>1, <1>2, Owners DEF LiveSlots
<1>4. Producers' = Producers \union
                     (IF i.rd = NoReg \/ i.excp THEN {} ELSE {g})
  BY <1>3 DEF Producers, NewEntry
<1>5. i.rd # NoReg => /\ p \in PhyReg /\ free[p] = 1
                      /\ ~OwnedByArch(p) /\ ~OwnedByLive(p)
                      /\ DoneAtDispatch(i) <=> i.excp
                      /\ i.kind \in Writers
  <2>1. i.rd # NoReg => p \in PhyReg /\ free[p] > 0
    BY DEF AllocateInsn
  <2>2. i.rd # NoReg => i.kind \in Writers
    BY DEF Insn
  <2>3. QED
    BY <2>1, <2>2, Owners DEF DoneAtDispatch, Writers
<1>6. \A y \in iew : Rob!Live(y.tag) /\ y.tag \in Slots /\ y.tag # g
  BY <1>2 DEF AllocateInsn, Control, DispatchOnlyIdle, SquashedOnlyInRecovery,
              TypeOK, InFlight
<1>7. FlightWrites'
  BY <1>1, <1>5 DEF BusyList, FlightWrites, NewInFlight
<1>8. CASE i.rd = NoReg
  <2>1. UNCHANGED <<free, allocated, ready>>
    BY <1>8 DEF AllocateInsn, regVars
  <2>2. AllocatedIsTaken' /\ CommittedReady'
    BY <1>1, <2>1 DEF BusyList, AllocatedIsTaken, CommittedReady
  <2>3. DoneReady'
    BY <1>3, <1>4, <1>8, <2>1, Owners DEF BusyList, DoneReady
  <2>4. ReadyProduced'
    BY <1>1, <1>6, <1>8, <2>1 DEF BusyList, ReadyProduced, NewInFlight
  <2>5. QED
    BY <1>7, <2>2, <2>3, <2>4 DEF BusyList
<1>9. CASE i.rd # NoReg
  <2>1. /\ free' = [free EXCEPT ![p] = @ - 1]
        /\ allocated' = allocated \union {p}
        /\ ready' = ready \ {p}
    BY <1>9 DEF AllocateInsn, TakeRegister
  <2>2. AllocatedIsTaken'
    BY <1>5, <1>9, <2>1, Owners DEF BusyList, AllocatedIsTaken
  <2>3. CommittedReady'
    <3>1. \A r \in ArchReg : commitMap[r] # p
      BY <1>5, <1>9, Owners
    <3>2. QED
      BY <1>1, <2>1, <3>1 DEF BusyList, CommittedReady
  <2>4. DoneReady'
    <3>1. new.done <=> i.excp
      BY <1>5, <1>9 DEF NewEntry
    <3>2. \A t \in Producers : rob[t].phyRd # p
      BY <1>5, <1>9, Owners
    <3>3. QED
      BY <1>3, <1>4, <2>1, <3>1, <3>2, Owners DEF BusyList, DoneReady
  <2>5. ReadyProduced'
    <3>1. \A y \in iew : y.rd # NoReg /\ y.phyRd \in ready' => y.stage = "wb"
      BY <1>6, <2>1 DEF BusyList, ReadyProduced
    <3>2. p \notin ready'
      BY <2>1
    <3>3. QED
      BY <1>1, <3>1, <3>2 DEF ReadyProduced, NewInFlight
  <2>6. QED
    BY <1>7, <2>2, <2>3, <2>4, <2>5 DEF BusyList
<1>10. QED
  BY <1>8, <1>9

(* Freeing a register no other committed or live name uses.                *)
LEMMA BusyListCommitInsn ==
  ASSUME Control, Registers, BusyList, CommitInsn
  PROVE  BusyList'
<1> PICK g, e : g = header /\ e = rob[g]
  OBVIOUS
<1>1. /\ Rob!Pop /\ toCommit > 0 /\ iew' = iew /\ g \in Slots
  BY DEF CommitInsn, Control, TypeOK, Rob!TypeOK, Rob!Slots, Slots
<1>2. /\ rob' = rob /\ usage > 0
      /\ \A t \in Slots : Rob!Live(t)' <=> Rob!Live(t) /\ t # g
  BY <1>1, Owners, PopGeometry
<1>3. /\ g = Rob!SlotAt(0) /\ e = At(0) /\ 0 \in Index /\ e.done
      /\ g \in LiveSlots
  BY <1>1, <1>2, Owners, Geometry, Window, UndoneBehindPackage, SizesAssumption
  DEF At, Index, Control, TypeOK, LiveSlots, PackageDone
<1>4. Producers' = Producers \ {g}
  BY <1>2, Owners DEF Producers, LiveSlots
<1>5. \A y \in iew : Rob!Live(y.tag)' => Rob!Live(y.tag)
  BY <1>2 DEF Control, TypeOK, InFlight
<1>6. CASE e.rd = NoReg \/ e.isExcp
  <2>1. UNCHANGED <<free, allocated, ready, commitMap>>
    BY <1>6 DEF CommitInsn
  <2>2. QED
    BY <1>1, <1>2, <1>4, <1>5, <2>1
    DEF BusyList, AllocatedIsTaken, CommittedReady, DoneReady, ReadyProduced,
        FlightWrites
<1>7. CASE e.rd # NoReg /\ ~e.isExcp
  <2>1. g \in Producers /\ e.rd \in ArchReg /\ e.phyRd \in PhyReg
    BY <1>3, <1>7, Owners DEF Producers
  <2>2. e.LphyRd = commitMap[e.rd]
    <3>1. \A i : i \notin 0..(0 - 1)
      OBVIOUS
    <3>2. Maps(0, e.rd, e.LphyRd)
      BY <1>3, <1>7 DEF Registers, Chain, Writes
    <3>3. QED
      BY <3>1, <3>2 DEF Maps
  <2>3. e.LphyRd \in Phy /\ commitMap \in [ArchReg -> Phy]
    BY <2>1, <2>2 DEF Control, TypeOK
  <2>4. commitMap' = [commitMap EXCEPT ![e.rd] = e.phyRd]
    BY <1>7 DEF CommitInsn
  <2>5. /\ e.phyRd \in ready /\ e.phyRd # e.LphyRd
        /\ \A r \in ArchReg : r # e.rd /\ e.LphyRd # ZeroPhy =>
             commitMap[r] # e.LphyRd
        /\ \A t \in Producers : rob[t].phyRd # e.LphyRd
    BY <1>3, <2>1, <2>2, Owners DEF BusyList, DoneReady
  <2>6. CASE e.LphyRd = ZeroPhy
    <3>1. UNCHANGED <<free, allocated, ready>>
      BY <1>7, <2>6 DEF CommitInsn
    <3>2. CommittedReady'
      BY <2>1, <2>3, <2>4, <2>5, <3>1 DEF BusyList, CommittedReady
    <3>3. QED
      BY <1>1, <1>2, <1>4, <1>5, <3>1, <3>2
      DEF BusyList, AllocatedIsTaken, DoneReady, ReadyProduced, FlightWrites
  <2>7. CASE e.LphyRd # ZeroPhy
    <3>1. /\ free' = [free EXCEPT ![e.LphyRd] = @ + 1]
          /\ allocated' = allocated \ {e.LphyRd}
          /\ ready' = ready \ {e.LphyRd}
      BY <1>7, <2>7 DEF CommitInsn, Freed
    <3>2. e.LphyRd \in PhyReg /\ free[e.LphyRd] = 0
      BY <2>1, <2>2, <2>3, <2>7, Owners DEF Phy
    <3>3. AllocatedIsTaken'
      BY <3>1, <3>2, Owners DEF BusyList, AllocatedIsTaken
    <3>4. CommittedReady'
      BY <2>1, <2>3, <2>4, <2>5, <2>7, <3>1 DEF BusyList, CommittedReady
    <3>5. DoneReady'
      BY <1>2, <1>4, <2>5, <3>1 DEF BusyList, DoneReady
    <3>6. ReadyProduced' /\ FlightWrites'
      BY <1>1, <1>5, <3>1 DEF BusyList, ReadyProduced, FlightWrites
    <3>7. QED
      BY <3>3, <3>4, <3>5, <3>6 DEF BusyList
  <2>8. QED
    BY <2>6, <2>7
<1>8. QED
  BY <1>6, <1>7

(* What a rollback frees was held, by the entry it frees it for.           *)
LEMMA FreedIsHeld ==
  ASSUME FreedOnce, Control, Registers, RollBackStep,
         NEW g, g = Rob!GetLastest, ReleaseResource(g), rob[g].rd # NoReg
  PROVE  /\ g \in LiveSlots /\ rob[g].phyRd \in PhyReg
         /\ free[rob[g].phyRd] = 0
         /\ \A r \in ArchReg : commitMap[r] # rob[g].phyRd
         /\ \A t \in Producers : t # g => rob[t].phyRd # rob[g].phyRd
<1> PICK u : u = usage - 1
  OBVIOUS
<1>1. Rob!Live(rollBackTag) /\ rollBackTag \in Slots /\ Shape
  BY DEF Control, TypeOK, Shape, Target, RollBackStep, RollsBack
<1>2. usage > 0 /\ u \in Index /\ g = Rob!SlotAt(u) /\ At(u) = rob[g]
  BY <1>1, Window, Geometry DEF Index, At
<1>3. g \in LiveSlots /\ Writes(u) /\ rob[g].phyRd \in PhyReg
  BY <1>2, Window DEF LiveSlots, Writes, Registers, EntriesWrite
<1>4. ~Released
  <2>1. TraceOn => free[rob[g].phyRd] = 0
    BY DEF ReleaseResource, Freed
  <2>2. NoFaultingRd => ~(At(u).isExcp /\ Writes(u))
    BY <1>2 DEF Registers, EntriesWrite
  <2>3. QED
    BY <1>2, <2>1, <2>2 DEF FreedOnce, Released
<1>5. Holds(u) /\ OwnedByLive(rob[g].phyRd)
  BY <1>2, <1>3, <1>4, NoneReleased DEF OwnedByLive
<1>6. free[rob[g].phyRd] = 0 /\ ~OwnedByArch(rob[g].phyRd)
  BY <1>3, <1>5 DEF Registers, FreeIffUnowned, OneOwner
<1>7. ASSUME NEW t \in Producers, t # g
      PROVE  rob[t].phyRd # rob[g].phyRd
  <2>1. PICK i \in Index : t = Rob!SlotAt(i)
    BY <1>7, Window, Owners DEF LiveSlots
  <2>2. i # u /\ Writes(i) /\ At(i) = rob[t]
    BY <1>2, <1>7, <2>1 DEF Producers, Writes, At
  <2>3. Holds(i)
    BY <1>4, <2>2, NoneReleased
  <2>4. QED
    BY <1>2, <1>5, <2>2, <2>3 DEF Registers, OneOwner
<1>8. QED
  BY <1>3, <1>6, <1>7 DEF OwnedByArch

(* Freeing it, whether or not its entry leaves the buffer.                 *)
LEMMA BusyListRelease ==
  ASSUME FreedOnce, Control, Registers, BusyList, RollBackStep,
         NEW g, g = Rob!GetLastest, ReleaseResource(g),
         iew' = iew, commitMap' = commitMap, rob' = rob,
         \A t \in Slots : Rob!Live(t)' => Rob!Live(t),
         Producers' \subseteq Producers \ {g}
  PROVE  BusyList'
<1> PICK e : e = rob[g]
  OBVIOUS
<1>1. \A y \in iew : Rob!Live(y.tag)' => Rob!Live(y.tag)
  BY DEF Control, TypeOK, InFlight
<1>2. CASE e.rd = NoReg
  <2>1. UNCHANGED <<free, allocated, ready>>
    BY <1>2 DEF ReleaseResource, regVars
  <2>2. QED
    BY <1>1, <2>1
    DEF BusyList, AllocatedIsTaken, CommittedReady, DoneReady, ReadyProduced,
        FlightWrites
<1>3. CASE e.rd # NoReg
  <2>1. /\ free' = [free EXCEPT ![e.phyRd] = @ + 1]
        /\ allocated' = allocated \ {e.phyRd}
        /\ ready' = ready \ {e.phyRd}
    BY <1>3 DEF ReleaseResource, Freed
  <2>2. /\ e.phyRd \in PhyReg /\ free[e.phyRd] = 0
        /\ \A r \in ArchReg : commitMap[r] # e.phyRd
        /\ \A t \in Producers : t # g => rob[t].phyRd # e.phyRd
    BY <1>3, FreedIsHeld
  <2>3. AllocatedIsTaken'
    BY <2>1, <2>2, Owners DEF BusyList, AllocatedIsTaken
  <2>4. CommittedReady'
    BY <2>1, <2>2 DEF BusyList, CommittedReady
  <2>5. DoneReady'
    BY <2>1, <2>2 DEF BusyList, DoneReady
  <2>6. ReadyProduced' /\ FlightWrites'
    BY <1>1, <2>1 DEF BusyList, ReadyProduced, FlightWrites
  <2>7. QED
    BY <2>3, <2>4, <2>5, <2>6 DEF BusyList
<1>4. QED
  BY <1>2, <1>3

LEMMA BusyListRollBackStep ==
  ASSUME FreedOnce, Control, Registers, BusyList, RollBackStep
  PROVE  BusyList'
<1> PICK g : g = Rob!GetLastest
  OBVIOUS
<1>1. iew' = iew /\ commitMap' = commitMap /\ usage > 0
  <2>1. Rob!Live(rollBackTag) /\ rollBackTag \in Slots
    BY DEF Control, TypeOK, Target, RollBackStep, RollsBack
  <2>2. QED
    BY <2>1, Window DEF RollBackStep, history, Index
<1>2. CASE g = rollBackTag
  <2>1. UNCHANGED <<rob, header, tail, usage>>
    BY <1>2 DEF RollBackStep, robVars
  <2>2. /\ \A t : Rob!Live(t)' <=> Rob!Live(t)
        /\ Producers' = Producers
    BY <2>1 DEF Rob!Live, Rob!Age, Producers, LiveSlots
  <2>3. CASE rob[g].isExcp
    <3>1. ReleaseResource(g) /\ g \notin Producers
      BY <1>2, <2>3 DEF RollBackStep, Producers
    <3>2. QED
      BY <1>1, <2>1, <2>2, <3>1, BusyListRelease
  <2>4. CASE ~rob[g].isExcp
    <3>1. UNCHANGED <<free, allocated, ready>>
      BY <1>2, <2>4 DEF RollBackStep, regVars
    <3>2. QED
      BY <1>1, <2>1, <2>2, <3>1
      DEF BusyList, AllocatedIsTaken, CommittedReady, DoneReady,
          ReadyProduced, FlightWrites
  <2>5. QED
    BY <2>3, <2>4
<1>3. CASE g # rollBackTag
  <2>1. Rob!RollBack /\ ReleaseResource(g)
    BY <1>3 DEF RollBackStep
  <2>2. /\ rob' = rob
        /\ \A t \in Slots : Rob!Live(t)' <=> Rob!Live(t) /\ t # g
    BY <2>1, Owners, RollBackGeometry
  <2>3. Producers' = Producers \ {g}
    BY <2>2, Owners DEF Producers, LiveSlots
  <2>4. QED
    BY <1>1, <2>1, <2>2, <2>3, BusyListRelease
<1>4. QED
  BY <1>2, <1>3

LEMMA BusyListNext ==
  ASSUME FreedOnce
  PROVE  Control /\ Program /\ Registers /\ BusyList /\ [Next]_vars
         => BusyList'
<1> SUFFICES ASSUME Control, Program, Registers, BusyList, [Next]_vars
             PROVE  BusyList'
  OBVIOUS
<1>1. ASSUME NEW y \in iew, AddrGen(y) \/ Execute(y) \/ WriteBack(y)
      PROVE  BusyList'
  BY <1>1, BusyListAddrGen, BusyListExecute, BusyListWriteBack
<1>2. ASSUME NEW i \in Insn, NEW p \in Phy, AllocateInsn(i, p)
      PROVE  BusyList'
  BY <1>2, BusyListAllocateInsn
<1>3. CASE CommitInsn
  BY <1>3, BusyListCommitInsn
<1>4. CASE RollBackStep
  BY <1>4, BusyListRollBackStep
<1>5. CASE EndIEW \/ EndDispatch \/ SendCommitReq \/ EndTick \/ UNCHANGED vars
  <2>1. /\ UNCHANGED <<rob, header, tail, usage, free, allocated, ready,
                       commitMap>>
        /\ iew' \subseteq iew
    BY <1>5 DEF EndIEW, EndDispatch, SendCommitReq, EndTick, vars, robVars,
                regVars, history
  <2>2. QED
    BY <2>1
    DEF BusyList, AllocatedIsTaken, CommittedReady, DoneReady, ReadyProduced,
        FlightWrites, Producers, LiveSlots, Rob!Live, Rob!Age
<1>6. QED
  BY <1>1, <1>2, <1>3, <1>4, <1>5 DEF Next

-----------------------------------------------------------------------------
(* The theorem.                                                            *)

(* The done bits of the busy list never mislead a reader: a committed      *)
(* register is done whatever squashed instructions still write, and a live *)
(* destination only once its own instruction has its result; and the       *)
(* allocated bits are those of the registers out of the free list.         *)
THEOREM BusyListCorrect ==
  ASSUME FreedOnce
  PROVE  Spec => []BusyListSound
<1>1. Control /\ Registers /\ BusyList => BusyListSound
  <2> SUFFICES ASSUME Control, Registers, BusyList,
                      NEW t \in LiveWriters, rob[t].phyRd \in ready,
                      NEW y \in iew, y.tag = t
               PROVE  y.stage = "wb"
    BY DEF BusyListSound, BusyList, AllocatedIsTaken, CommittedReady
  <2>1. Rob!Live(y.tag) /\ y.rd # NoReg /\ y.phyRd \in ready
    BY DEF Control, FlightMatches, LiveWriters, LiveSlots
  <2>2. QED
    BY <2>1 DEF BusyList, ReadyProduced
<1>2. QED
  BY <1>1, ControlInit, ControlNext, ProgramInit, ProgramNext,
     RegistersInit, RegistersNext, BusyListInit, BusyListNext, PTL DEF Spec

=============================================================================

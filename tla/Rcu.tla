--------------------------------- MODULE Rcu ---------------------------------
(***************************************************************************)
(* The register and re-order control unit (src/Processor/Component/Rcu.cc) *)
(* with the callers that drive it in one tick of the processor, in the     *)
(* order Processor::Tick runs them: IEW (execution and write back),        *)
(* Dispatch, Commit, then Rcu::Evaulate and the flush of IEW's latches.    *)
(*                                                                         *)
(* phase is the position in the tick.  The loops of the handlers (over the *)
(* instructions of a package, over the entries to roll back) take one step *)
(* per iteration; nothing of another phase can come in between.            *)
(*                                                                         *)
(* Abstracted: register values, addresses and program counters; the order  *)
(* of FreeList (pop may return any free register, a superset of its FIFO); *)
(* the schedulers and functional units (an instruction in IEW may take its *)
(* next step in any tick); the entries of Lsq, which the module Lsq        *)
(* models.  RenameRegister and ForwardResult are true, as they are in      *)
(* every file of config/.  Rob entries that are live always have           *)
(* valid = true: packages never hold a null instruction.                   *)
(***************************************************************************)
EXTENDS Integers

CONSTANTS
  RobSize,       \* RobEntryCount
  AllocWidth,    \* m_AllocWidth: allocated, and rolled back, per tick
  DeallocWidth,  \* m_DeallocWidth: committed per tick
  ArchReg,       \* the architectural registers other than x0
  NoReg,         \* RdType NONE; the decoder turns x0 into it
  PhyReg,        \* what FreeList::Reset pushes: 1 .. IntRegCount - 2
  ZeroPhy,       \* physical register 0
  Kind,          \* the kinds of instruction of this instance
  Speculation,   \* m_doSpeculation
  LoadFaults,    \* whether the memory may answer a load with an exception
  FaultingRd,    \* destinations a faulting instruction may have
  TraceOn        \* TRACE_ON: FreeList::push asserts, and a failure throws

AllKinds == {"ALU", "BRU", "LDU", "STU", "CSR", "FENCEI", "MRET", "FENCE"}

ASSUME SizesAssumption ==
  /\ RobSize \in Nat \ {0}
  /\ AllocWidth \in Nat \ {0}
  /\ DeallocWidth \in Nat \ {0}
ASSUME RegsAssumption ==
  /\ NoReg \notin ArchReg
  /\ ZeroPhy \notin PhyReg
  /\ FaultingRd \subseteq ArchReg \union {NoReg}
ASSUME KindAssumption ==
  /\ Kind \subseteq AllKinds
  /\ Speculation \in BOOLEAN
  /\ LoadFaults \in BOOLEAN
  /\ TraceOn \in BOOLEAN

VARIABLES
  rob, header, tail, usage,  \* m_Rob
  robState,                  \* m_RobState
  rollBackTag,               \* m_RollBackTag
  free,                      \* m_IntFreelist: how often each register is in it
  renameTable,               \* m_IntRenameTable
  allocated, ready,          \* m_IntBusylist: allocated and done bits
  iew,                       \* instructions between Dispatch and WriteBack
  toCommit,                  \* size of the package in Commit's latch
  phase, budget,             \* position in the tick; iterations left
  commitMap,                 \* history: where the committed registers live
  path                       \* history: is the front end on the program's path

robVars == <<rob, header, tail, usage>>
regVars == <<free, renameTable, allocated, ready>>
tickVars == <<phase, budget>>
history == <<commitMap, path>>
vars == <<robVars, robState, rollBackTag, regVars, iew, toCommit, tickVars,
          history>>

-----------------------------------------------------------------------------
(* Instructions and entries.                                               *)

Rd == ArchReg \union {NoReg}
Phy == PhyReg \union {ZeroPhy}
Writers == {"ALU", "BRU", "LDU", "CSR"}

(* A decoded instruction.  excp: it reaches Dispatch with an exception;    *)
(* bad: the branch will turn out mispredicted, the load will fault.        *)
Insn ==
  {i \in [kind : Kind, rd : Rd, excp : BOOLEAN, bad : BOOLEAN] :
     /\ i.rd # NoReg => i.kind \in Writers
     /\ i.bad => ~i.excp /\ (i.kind = "BRU" \/ (i.kind = "LDU" /\ LoadFaults))
     /\ (i.excp \/ (i.bad /\ i.kind = "LDU")) => i.rd \in FaultingRd}

ControlFlow(i) == i.kind \in {"FENCEI", "MRET"} \/ (i.kind = "BRU" /\ ~Speculation)

(* Done when created, and never sent to a scheduler.                       *)
DoneAtDispatch(i) ==
  \/ i.excp
  \/ i.kind = "ALU" /\ i.rd = NoReg
  \/ i.kind \in {"FENCE", "MRET"}

(* Rob_entry_t; bad and wrongPath are history, never read by a guard.      *)
Entry == [kind : AllKinds, rd : Rd, phyRd : Phy, LphyRd : Phy,
          done : BOOLEAN, isStable : BOOLEAN, isExcp : BOOLEAN,
          bad : BOOLEAN, wrongPath : BOOLEAN]

BlankEntry == [kind |-> "ALU", rd |-> NoReg, phyRd |-> ZeroPhy,
               LphyRd |-> ZeroPhy, done |-> FALSE, isStable |-> FALSE,
               isExcp |-> FALSE, bad |-> FALSE, wrongPath |-> FALSE]

Rob == INSTANCE LoopQueue WITH Size <- RobSize, Data <- Entry,
         Blank <- BlankEntry, dataVec <- rob

Slots == 0..(RobSize - 1)

(* An instruction in IEW: "fu" before and "mem" between the two stages of  *)
(* a memory access, "wb" once its result is in the write-back latch.       *)
InFlight == [tag : Slots, kind : AllKinds, rd : Rd, phyRd : Phy,
             bad : BOOLEAN, stage : {"fu", "mem", "wb"}]

RobStates == {"Idle", "Undo", "WaitForResume", "FlushBackend"}
Phases == {"IEW", "Dispatch", "Commit", "Evaluate"}

-----------------------------------------------------------------------------
Init ==
  /\ rob = [t \in Slots |-> BlankEntry]
  /\ header = 0 /\ tail = 0 /\ usage = 0
  /\ robState = "Idle"
  /\ rollBackTag = 0
  /\ free = [p \in PhyReg |-> 1]
  /\ renameTable = [r \in ArchReg |-> ZeroPhy]
  /\ allocated = {}
  /\ ready = {}
  /\ iew = {}
  /\ toCommit = 0
  /\ phase = "IEW"
  /\ budget = 0
  /\ commitMap = [r \in ArchReg |-> ZeroPhy]
  /\ path = "right"

-----------------------------------------------------------------------------
(* Execution and write back.                                               *)

(* Variants whose names begin with Bad are injected faults: each breaks    *)
(* one definition the way a slip in the code would, to see a property fail.*)
BadScan(tag, kinds) ==
  \E i \in 0..(DeallocWidth - 1) :
    /\ i < usage
    /\ Rob!SlotAt(i) = tag
    /\ \A j \in 0..(i - 1) : LET e == rob[Rob!SlotAt(j)]
                            IN  e.isStable \/ e.kind \notin kinds

BadReadyForCommitBranches(tag) ==
  IF robState = "Idle" \/ Rob!IsOlder(tag, rollBackTag)
  THEN BadScan(tag, {"LDU", "STU"})
  ELSE robState = "WaitForResume" /\ rollBackTag = tag

BadReadyForCommitState(tag) == BadScan(tag, {"LDU", "STU", "BRU"})

BadReadyForCommitTarget(tag) ==
  /\ robState = "Idle" \/ Rob!IsOlder(tag, rollBackTag)
  /\ BadScan(tag, {"LDU", "STU", "BRU"})

(* Every LDU, STU and BRU ahead of the tag within the commit window has    *)
(* resolved, or the tag is the one the recovery waits for.                 *)
ReadyForCommit(tag) ==
  IF robState = "Idle" \/ Rob!IsOlder(tag, rollBackTag)
  THEN \E i \in 0..(DeallocWidth - 1) :
         /\ i < usage
         /\ Rob!SlotAt(i) = tag
         /\ \A j \in 0..(i - 1) :
              LET e == rob[Rob!SlotAt(j)]
              IN  e.isStable \/ e.kind \notin {"LDU", "STU", "BRU"}
  ELSE robState = "WaitForResume" /\ rollBackTag = tag

(* Func_LSU::Evaluate: address generation.  AGUFastDetect does not look    *)
(* whether the tag is still live; AddrGen never raises an exception.       *)
AddrGen(y) ==
  /\ phase = "IEW"
  /\ y.kind \in {"LDU", "STU"} /\ y.stage = "fu"
  /\ rob' = [rob EXCEPT ![y.tag] =
               [@ EXCEPT !.isStable = TRUE,
                         !.done = rob[y.tag].done \/ y.kind = "STU"]]
  /\ iew' = (iew \ {y}) \union
              (IF y.kind = "STU" THEN {} ELSE {[y EXCEPT !.stage = "mem"]})
  /\ UNCHANGED <<header, tail, usage, robState, rollBackTag, regVars,
                 toCommit, tickVars, history>>

(* A functional unit puts its result in a write-back port, whose           *)
(* Forwarding marks the destination done at once.  The CSR unit is issued  *)
(* by a Commit scheduler, which asks ReadyForCommit.                       *)
Execute(y) ==
  /\ phase = "IEW"
  /\ y.stage = (IF y.kind = "LDU" THEN "mem" ELSE "fu")
  /\ y.kind # "STU"
  /\ y.kind \in {"CSR", "FENCEI"} => ReadyForCommit(y.tag)
  /\ iew' = (iew \ {y}) \union {[y EXCEPT !.stage = "wb"]}
  /\ ready' = IF y.rd = NoReg THEN ready ELSE ready \union {y.phyRd}
  /\ UNCHANGED <<robVars, robState, rollBackTag, free, renameTable, allocated,
                 toCommit, tickVars, history>>

(* The tag test of Rcu::WriteBack.                                         *)
Accepted(tag) ==
  ~Rob!Empty /\ (Rob!IsOlder(tag, Rob!GetLastest) \/ tag = Rob!GetLastest)

BadTakesOver(y) ==
  \/ robState = "Idle"
  \/ Rob!IsOlder(y.tag, rollBackTag)
  \/ y.kind = "BRU" /\ y.tag = rollBackTag

(* A mispredicted branch takes over the recovery unless an older one is    *)
(* under way; an exception must be strictly older.                         *)
TakesOver(y) ==
  /\ y.bad
  /\ \/ robState = "Idle"
     \/ Rob!IsOlder(y.tag, rollBackTag)
     \/ y.kind = "BRU" /\ y.tag = rollBackTag

WriteBack(y) ==
  /\ phase = "IEW"
  /\ y.stage = "wb"
  /\ iew' = iew \ {y}
  /\ IF ~Accepted(y.tag)
     THEN UNCHANGED <<rob, robState, rollBackTag, ready, path>>
     ELSE LET fault == y.bad /\ y.kind = "LDU"
              resumes == /\ y.kind = "BRU" /\ ~y.bad /\ ~Speculation
                         /\ robState = "WaitForResume"
                         /\ y.tag = rollBackTag
              redirects == TakesOver(y) /\ y.kind = "BRU"
          IN  /\ rob' = [rob EXCEPT ![y.tag] =
                           [@ EXCEPT !.done = TRUE, !.isStable = TRUE,
                                     !.isExcp = rob[y.tag].isExcp \/ fault]]
              /\ ready' = IF y.rd = NoReg \/ fault THEN ready
                          ELSE ready \union {y.phyRd}
              /\ robState' = IF TakesOver(y) THEN "Undo"
                             ELSE IF resumes THEN "Idle" ELSE robState
              /\ rollBackTag' = IF TakesOver(y) THEN y.tag ELSE rollBackTag
              /\ path' = IF redirects /\ ~rob[y.tag].wrongPath
                         THEN "right" ELSE path
  /\ UNCHANGED <<header, tail, usage, free, renameTable, allocated, toCommit,
                 tickVars, commitMap>>

EndIEW ==
  /\ phase = "IEW"
  /\ phase' = "Dispatch"
  /\ budget' = IF robState = "Idle" THEN AllocWidth ELSE 0
  /\ UNCHANGED <<robVars, robState, rollBackTag, regVars, iew, toCommit,
                 history>>

-----------------------------------------------------------------------------
BadTakeRegister(r, p) ==
  /\ free' = [free EXCEPT ![p] = @ - 1]
  /\ renameTable' = [renameTable EXCEPT ![r] = p]
  /\ allocated' = allocated \union {p}
  /\ UNCHANGED ready

(* Rename, and the busy-list update of CreateRobEntry.                     *)
TakeRegister(r, p) ==
  /\ free' = [free EXCEPT ![p] = @ - 1]
  /\ renameTable' = [renameTable EXCEPT ![r] = p]
  /\ allocated' = allocated \union {p}
  /\ ready' = ready \ {p}

(* Dispatch: Rename, Allocate, ResovleDependancy and CreateRobEntry for    *)
(* the next instruction of the package.  TryDispatch ends the package      *)
(* after an exception or a control-flow instruction.                       *)
AllocateInsn(i, p) ==
  /\ phase = "Dispatch" /\ budget > 0
  /\ ~Rob!Full
  /\ IF i.rd = NoReg THEN p = ZeroPhy ELSE p \in PhyReg /\ free[p] > 0
  /\ LET lp == IF i.rd = NoReg THEN ZeroPhy ELSE renameTable[i.rd]
         done == DoneAtDispatch(i)
     IN  /\ Rob!Push([kind |-> i.kind, rd |-> i.rd, phyRd |-> p,
                      LphyRd |-> lp, done |-> done, isStable |-> done,
                      isExcp |-> i.excp, bad |-> i.bad \/ i.excp,
                      wrongPath |-> path = "wrong"])
         /\ iew' = IF done THEN iew
                   ELSE iew \union {[tag |-> tail, kind |-> i.kind,
                                     rd |-> i.rd, phyRd |-> p,
                                     bad |-> i.bad, stage |-> "fu"]}
  /\ IF i.rd = NoReg
     THEN UNCHANGED regVars
     ELSE TakeRegister(i.rd, p)
  /\ IF i.excp \/ ControlFlow(i)
     THEN /\ robState' = IF ~i.excp /\ i.kind = "MRET" THEN "Idle" ELSE "Undo"
          /\ rollBackTag' = tail
          /\ budget' = 0
     ELSE UNCHANGED <<robState, rollBackTag>> /\ budget' = budget - 1
  /\ path' = IF i.bad \/ i.excp THEN "wrong" ELSE path
  /\ UNCHANGED <<toCommit, phase, commitMap>>

EndDispatch ==
  /\ phase = "Dispatch"
  /\ phase' = "Commit"
  /\ budget' = 0
  /\ UNCHANGED <<robVars, robState, rollBackTag, regVars, iew, toCommit,
                 history>>

-----------------------------------------------------------------------------
(* Commit.                                                                 *)

(* FreeList::push and the busy list.  Nothing catches what the assertion   *)
(* throws: a build that asserts ends instead of taking the step.           *)
Freed(p) ==
  /\ TraceOn => free[p] = 0
  /\ free' = [free EXCEPT ![p] = @ + 1]
  /\ allocated' = allocated \ {p}
  /\ ready' = ready \ {p}

(* One iteration of Rcu::CommitInsn, which only uses the package's size.   *)
CommitInsn ==
  LET e == rob[header]
      writes == ~e.isExcp /\ e.rd # NoReg
      resume == robState = "WaitForResume" /\ header = rollBackTag
  IN  /\ phase = "Commit" /\ toCommit > 0
      /\ Rob!Pop
      /\ toCommit' = toCommit - 1
      /\ IF writes /\ e.LphyRd # ZeroPhy
         THEN Freed(e.LphyRd)
         ELSE UNCHANGED <<free, allocated, ready>>
      /\ commitMap' = IF writes THEN [commitMap EXCEPT ![e.rd] = e.phyRd]
                      ELSE commitMap
      /\ robState' = IF resume THEN "FlushBackend" ELSE robState
      /\ path' = IF resume /\ e.isExcp /\ ~e.wrongPath THEN "right" ELSE path
      /\ UNCHANGED <<rollBackTag, renameTable, iew, tickVars>>

BadCommittable(k) ==
  /\ k <= DeallocWidth /\ k <= usage
  /\ \A j \in 0..(k - 1) : rob[Rob!SlotAt(j)].done

(* The package Commit::SendCommitReq puts in the latch for the next tick.  *)
Committable(k) ==
  /\ k <= DeallocWidth /\ k <= usage
  /\ \A j \in 0..(k - 1) :
       rob[Rob!SlotAt(j)].done /\ ReadyForCommit(Rob!SlotAt(j))

SendCommitReq ==
  /\ phase = "Commit" /\ toCommit = 0
  /\ \E k \in 0..DeallocWidth :
       Committable(k) /\ ~Committable(k + 1) /\ toCommit' = k
  /\ phase' = "Evaluate"
  /\ budget' = AllocWidth
  /\ UNCHANGED <<robVars, robState, rollBackTag, regVars, iew, history>>

-----------------------------------------------------------------------------
(* Rcu::Evaulate, and the flush of IEW when the processor advances.        *)

BadReleaseLeaks(t) ==
  /\ renameTable' = (IF rob[t].rd = NoReg THEN renameTable
                     ELSE [renameTable EXCEPT ![rob[t].rd] = rob[t].LphyRd])
  /\ UNCHANGED <<free, allocated, ready>>

BadReleaseForgets(t) ==
  /\ IF rob[t].rd = NoReg THEN UNCHANGED <<free, allocated, ready>>
     ELSE Freed(rob[t].phyRd)
  /\ UNCHANGED renameTable

(* ReleaseResource; KillLoadEntry and KillStoreEntry belong to Lsq.        *)
ReleaseResource(t) ==
  IF rob[t].rd = NoReg
  THEN UNCHANGED regVars
  ELSE Freed(rob[t].phyRd)
       /\ renameTable' = [renameTable EXCEPT ![rob[t].rd] = rob[t].LphyRd]

BadRollsBackOnce ==
  /\ robState = "Undo"
  /\ \/ budget >= 0 /\ Rob!IsOlder(rollBackTag, Rob!GetLastest)
     \/ Rob!GetLastest = rollBackTag

BadRollsBackStops ==
  robState = "Undo" /\ budget > 0 /\ Rob!IsOlder(rollBackTag, Rob!GetLastest)

RollsBack ==
  /\ robState = "Undo"
  /\ \/ budget > 0 /\ Rob!IsOlder(rollBackTag, Rob!GetLastest)
     \/ Rob!GetLastest = rollBackTag

(* One iteration of Rcu::RollBack.                                         *)
RollBackStep ==
  LET t == Rob!GetLastest
  IN  /\ phase = "Evaluate" /\ RollsBack
      /\ IF t = rollBackTag
         THEN /\ robState' = "WaitForResume"
              /\ IF rob[t].isExcp THEN ReleaseResource(t) ELSE UNCHANGED regVars
              /\ UNCHANGED <<robVars, budget>>
         ELSE /\ ReleaseResource(t)
              /\ Rob!RollBack
              /\ budget' = budget - 1
              /\ UNCHANGED robState
      /\ UNCHANGED <<rollBackTag, iew, toCommit, phase, history>>

BadEndTickNoFlush ==
  /\ phase = "Evaluate" /\ ~RollsBack
  /\ robState' = IF robState = "FlushBackend" THEN "Idle" ELSE robState
  /\ phase' = "IEW"
  /\ budget' = 0
  /\ UNCHANGED <<robVars, rollBackTag, regVars, iew, toCommit, history>>

EndTick ==
  /\ phase = "Evaluate" /\ ~RollsBack
  /\ robState' = IF robState = "FlushBackend" THEN "Idle" ELSE robState
  /\ iew' = IF robState = "FlushBackend" THEN {} ELSE iew
  /\ phase' = "IEW"
  /\ budget' = 0
  /\ UNCHANGED <<robVars, rollBackTag, regVars, toCommit, history>>

-----------------------------------------------------------------------------
Next ==
  \/ \E y \in iew : AddrGen(y) \/ Execute(y) \/ WriteBack(y)
  \/ EndIEW
  \/ \E i \in Insn, p \in Phy : AllocateInsn(i, p)
  \/ EndDispatch
  \/ CommitInsn
  \/ SendCommitReq
  \/ RollBackStep
  \/ EndTick

Spec == Init /\ [][Next]_vars

(* The clock ticks; an instruction that may move in infinitely many ticks  *)
(* moves in one of them: the units have finite latency and the memory      *)
(* answers.                                                                *)
Tick ==
  EndIEW \/ EndDispatch \/ CommitInsn \/ SendCommitReq \/ RollBackStep \/ EndTick
Moves(t) ==
  \E y \in iew : y.tag = t /\ (AddrGen(y) \/ Execute(y) \/ WriteBack(y))

Fairness == WF_vars(Tick) /\ \A t \in Slots : SF_vars(Moves(t))

FairSpec == Spec /\ Fairness

-----------------------------------------------------------------------------
(* Properties.                                                             *)

TypeOK ==
  /\ Rob!TypeOK /\ Rob!CursorsAgree
  /\ robState \in RobStates
  /\ rollBackTag \in Slots
  /\ free \in [PhyReg -> Nat]
  /\ renameTable \in [ArchReg -> Phy]
  /\ allocated \subseteq PhyReg
  /\ ready \subseteq PhyReg
  /\ iew \subseteq InFlight
  /\ toCommit \in 0..DeallocWidth
  /\ phase \in Phases
  /\ budget \in Nat
  /\ commitMap \in [ArchReg -> Phy]
  /\ path \in {"right", "wrong"}

LiveSlots == {t \in Slots : Rob!Live(t)}
Before(s, t) == Rob!Age(s) < Rob!Age(t)

(* A fault the recovery has stopped at gave its destination back and stays *)
(* in the buffer until it commits or an older recovery squashes it: it is  *)
(* the youngest entry, and only the free list tells that it owns nothing.  *)
GaveUp(t) ==
  /\ robState \in {"Undo", "WaitForResume"}
  /\ t = Rob!GetLastest /\ rob[t].isExcp
  /\ rob[t].rd # NoReg => free[rob[t].phyRd] # 0

LiveWriters == {t \in LiveSlots : rob[t].rd # NoReg /\ ~GaveUp(t)}

(* The assertion of FreeList::push (FreeList.hh:58, "Push[{}] With the     *)
(* same regfile in queue"): no register is ever in the free list twice.    *)
NoDoubleFree == \A p \in PhyReg : free[p] <= 1

(* Registers are conserved through renaming, commit, rollback and          *)
(* exceptions: each is free, or holds the committed value of exactly one   *)
(* architectural register, or is the destination of exactly one live       *)
(* instruction; none leaks and none has two owners.                        *)
RegistersConserved ==
  \A p \in PhyReg :
    LET arch == {r \in ArchReg : commitMap[r] = p}
        live == {t \in LiveWriters : rob[t].phyRd = p}
    IN  /\ free[p] = IF arch \union live = {} THEN 1 ELSE 0
        /\ \A r, s \in arch : r = s
        /\ \A t, u \in live : t = u
        /\ arch = {} \/ live = {}

(* The rename table is the committed map overlaid with the live writers,   *)
(* youngest last: a rollback, however it is cut into ticks, gives the next *)
(* instruction the mapping its program order calls for.                    *)
RenameTableRestored ==
  \A r \in ArchReg :
    LET writers == {t \in LiveWriters : rob[t].rd = r}
    IN  IF writers = {}
        THEN renameTable[r] = commitMap[r]
        ELSE \E t \in writers :
               /\ \A u \in writers : u = t \/ Before(u, t)
               /\ renameTable[r] = rob[t].phyRd

(* The busy list agrees with the free list; a committed register is done,  *)
(* whatever squashed instructions still run; and a live destination is     *)
(* done only once its own instruction has produced the value.              *)
BusyListSound ==
  /\ \A p \in PhyReg : p \in allocated <=> free[p] = 0
  /\ \A r \in ArchReg : commitMap[r] \in ready \union {ZeroPhy}
  /\ \A t \in LiveWriters :
       rob[t].phyRd \in ready =>
         ~ \E y \in iew : y.tag = t /\ y.stage # "wb"

(* Commit never retires what is not done (the assertion of CommitInsn), an *)
(* instruction fetched past a mispredicted branch or a fault, or such a    *)
(* branch or fault before the recovery it starts has finished rolling back *)
(* to it, though the package was picked one tick earlier.                  *)
CommitsOnlyTheProgram ==
  \A j \in 0..(toCommit - 1) :
    LET t == Rob!SlotAt(j)
    IN  /\ Rob!Live(t) /\ rob[t].done /\ ~rob[t].wrongPath
        /\ (phase = "Commit" /\ rob[t].bad) =>
             robState = "WaitForResume" /\ rollBackTag = t

(* A tag in IEW that is live names the very instruction in its entry, and  *)
(* no two instructions in IEW share a tag: a late write back of a squashed *)
(* instruction can never complete another one.  What a squashed one may    *)
(* still write is a free register.                                         *)
LateWriteBackHarmless ==
  \A y \in iew :
    /\ \A z \in iew : z.tag = y.tag => z = y
    /\ Rob!Live(y.tag) =>
         /\ ~rob[y.tag].done
         /\ rob[y.tag].kind = y.kind /\ rob[y.tag].bad = y.bad
         /\ rob[y.tag].rd = y.rd /\ rob[y.tag].phyRd = y.phyRd
    /\ ~Rob!Live(y.tag) =>
         robState # "Idle" /\ (y.rd # NoReg => free[y.phyRd] > 0)

(* While the RCU recovers, the entry it recovers to is live, so the        *)
(* rollback stops there and never meets an empty buffer (the assertion of  *)
(* LoopQueue::RollBack).                                                   *)
RecoveryTargetLive ==
  robState \in {"Undo", "WaitForResume"} => Rob!Live(rollBackTag)

(* A CSR instruction, whose effect on the machine nothing undoes, runs     *)
(* only when it is on the program's path.                                  *)
CsrNotSpeculative ==
  \A y \in iew :
    y.kind = "CSR" /\ y.stage = "wb" =>
      Rob!Live(y.tag) /\ ~rob[y.tag].wrongPath

(* Only what was fetched past a mispredicted branch or a fault is rolled   *)
(* back.                                                                   *)
OnlyWrongPathSquashed ==
  [][tail' # tail /\ usage' < usage => rob[Rob!GetLastest].wrongPath]_vars

(* Every recovery ends and dispatch resumes.                               *)
RecoveryEnds == robState # "Idle" ~> robState = "Idle"

(* Every instruction that enters the re-order buffer leaves it, retired or *)
(* squashed: the head never waits for something that waits for it.         *)
EveryInsnLeaves == \A t \in Slots : Rob!Live(t) ~> ~Rob!Live(t)
=============================================================================

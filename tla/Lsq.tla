--------------------------------- MODULE Lsq ---------------------------------
(***************************************************************************)
(* The load and store queues (src/Processor/Component/Lsq.cc) with what    *)
(* drives them: the load and store units (Func_LSU.hh, Func_LDU.hh), the   *)
(* data cache port and memory behind them, and the recovery of the Rcu.    *)
(*                                                                         *)
(* window is the re-order buffer in program order, target the place in it  *)
(* a recovery goes back to; how the Rcu keeps them, and that it commits    *)
(* only what is done and resolved, is the module Rcu.  An instruction that *)
(* touches no memory stands for all of those: any may start a recovery.    *)
(*                                                                         *)
(* Abstracted: each access is one whole word (the units take bytes out of  *)
(* the aligned word); the steps of the ports and units of one tick come in *)
(* any order; several ports answer in any order (each alone is first in    *)
(* first out); a reset.                                                    *)
(***************************************************************************)
EXTENDS Integers, Sequences, FiniteSets

CONSTANTS
  LdqSize,      \* LDQEntryCount
  StqSize,      \* STQEntryCount
  WindowSize,   \* RobEntryCount
  Addr,         \* addresses of aligned words
  NoAddr,       \* the address field before address generation
  Value,        \* contents of a word
  NoValue,      \* the data and result fields before there is a value
  Speculation,  \* m_doSpeculation
  LoadFaults,   \* whether the memory may answer a load with an exception
  ExcpOps       \* kinds that may reach Dispatch with an exception

Ops == {"LDU", "STU", "BRU"}

ASSUME LsqSizes ==
  /\ LdqSize \in Nat \ {0}
  /\ StqSize \in Nat \ {0}
  /\ WindowSize \in Nat \ {0}
ASSUME LsqData ==
  /\ NoAddr \notin Addr
  /\ NoValue \notin Value
ASSUME LsqOptions ==
  /\ Speculation \in BOOLEAN
  /\ LoadFaults \in BOOLEAN
  /\ ExcpOps \subseteq Ops

VARIABLES
  ldq, ldqHeader, ldqTail, ldqUsage,  \* m_LoadQueue
  stq, stqHeader, stqTail, stqUsage,  \* m_StoreQueue
  mem,       \* m_baseDRAM
  inflight,  \* m_dCacheRespLatch of every port: answers on their way
  iew,       \* loads and stores between Dispatch and address generation
  window,    \* the re-order buffer, oldest first
  target,    \* the place in window a recovery goes back to; 0: Rob_Idle
  waiting    \* Rob_WaitForResume rather than Rob_Undo

ldqVars == <<ldq, ldqHeader, ldqTail, ldqUsage>>
stqVars == <<stq, stqHeader, stqTail, stqUsage>>
robVars == <<window, target, waiting>>
vars == <<ldqVars, stqVars, mem, inflight, iew, robVars>>

-----------------------------------------------------------------------------
States == {"WaitSend", "Inflight", "Executed"}
AnyAddr == Addr \union {NoAddr}
AnyValue == Value \union {NoValue}

(* LDQ_entry_t; result is RdResult of its insnPtr.                         *)
LoadEntry ==
  [state : States, killed : BOOLEAN, commited : BOOLEAN,
   hasDependancy : BOOLEAN, oldestStqTag : 0..(StqSize - 1),
   addressReady : BOOLEAN, address : AnyAddr, result : AnyValue]

(* STQ_entry_t.                                                            *)
StoreEntry ==
  [state : States, commited : BOOLEAN, addressReady : BOOLEAN,
   address : AnyAddr, data : AnyValue]

NewLoad ==
  [state |-> "WaitSend", killed |-> FALSE, commited |-> FALSE,
   hasDependancy |-> FALSE, oldestStqTag |-> 0, addressReady |-> FALSE,
   address |-> NoAddr, result |-> NoValue]

NewStore ==
  [state |-> "WaitSend", commited |-> FALSE, addressReady |-> FALSE,
   address |-> NoAddr, data |-> NoValue]

Ldq == INSTANCE LoopQueue WITH Size <- LdqSize, Data <- LoadEntry,
         Blank <- NewLoad, dataVec <- ldq, header <- ldqHeader,
         tail <- ldqTail, usage <- ldqUsage

Stq == INSTANCE LoopQueue WITH Size <- StqSize, Data <- StoreEntry,
         Blank <- NewStore, dataVec <- stq, header <- stqHeader,
         tail <- stqTail, usage <- stqUsage

LdqSlots == 0..(LdqSize - 1)
StqSlots == 0..(StqSize - 1)

(* An instruction as the program has it.                                   *)
Insn ==
  [op : {"BRU"}, addr : {NoAddr}, data : {NoValue}]
    \union [op : {"LDU"}, addr : Addr, data : {NoValue}]
    \union [op : {"STU"}, addr : Addr, data : Value]

(* An entry of the re-order buffer; tag is its LSQtag.                     *)
WindowEntry ==
  [op : Ops, addr : AnyAddr, data : AnyValue,
   tag : LdqSlots \union StqSlots, result : AnyValue,
   done : BOOLEAN, isExcp : BOOLEAN]

Pending == [op : {"LDU", "STU"}, tag : LdqSlots \union StqSlots,
            addr : Addr, data : AnyValue]

Answers == [op : {"LDU", "STU"}, tag : LdqSlots \union StqSlots,
            value : AnyValue]

-----------------------------------------------------------------------------
Init ==
  /\ Ldq!Init
  /\ Stq!Init
  /\ mem \in [Addr -> Value]
  /\ inflight = {}
  /\ iew = {}
  /\ window = << >>
  /\ target = 0
  /\ waiting = FALSE

-----------------------------------------------------------------------------
(* Dispatch.                                                               *)

(* Variants whose names begin with Bad are injected faults: each breaks    *)
(* one definition the way a slip in the code would, to see a property fail.*)
BadCreateLdqEntry ==
  [NewLoad EXCEPT !.hasDependancy = ~Stq!Empty, !.oldestStqTag = stqHeader]

CreateLdqEntry ==
  [NewLoad EXCEPT !.hasDependancy = ~Stq!Empty,
                  !.oldestStqTag = Stq!GetLastest]

(* One instruction of the package, in TryAllocate, Allocate and            *)
(* CreateRobEntry.  An exception, or a branch without speculation, starts  *)
(* a recovery to itself.                                                   *)
Allocate(i, excp) ==
  /\ target = 0
  /\ Len(window) < WindowSize
  /\ IF i.op = "LDU" THEN Ldq!Push(CreateLdqEntry) ELSE UNCHANGED ldqVars
  /\ IF i.op = "STU" THEN Stq!Push(NewStore) ELSE UNCHANGED stqVars
  /\ LET tag == CASE i.op = "LDU" -> ldqTail
                  [] i.op = "STU" -> stqTail
                  [] OTHER -> 0
     IN  /\ window' = Append(window,
              [op |-> i.op, addr |-> i.addr, data |-> i.data, tag |-> tag,
               result |-> NoValue, done |-> excp, isExcp |-> excp])
         /\ iew' = IF excp \/ i.op = "BRU" THEN iew
                   ELSE iew \union {[op |-> i.op, tag |-> tag,
                                     addr |-> i.addr, data |-> i.data]}
  /\ target' = IF excp \/ (i.op = "BRU" /\ ~Speculation)
               THEN Len(window) + 1 ELSE 0
  /\ UNCHANGED <<mem, inflight, waiting>>

-----------------------------------------------------------------------------
(* The units.                                                              *)

(* Evaluate of a unit: AGUFastDetect and Lsq::WriteBack, for an            *)
(* instruction that may have been squashed since.                          *)
WriteBack(y) ==
  /\ iew' = iew \ {y}
  /\ IF y.op = "LDU"
     THEN /\ Ldq!Write(y.tag, [ldq[y.tag] EXCEPT !.addressReady = TRUE,
                                                 !.address = y.addr])
          /\ UNCHANGED <<stqVars, window>>
     ELSE /\ Stq!Write(y.tag, [stq[y.tag] EXCEPT !.addressReady = TRUE,
                                                 !.address = y.addr,
                                                 !.data = y.data])
          /\ window' = [k \in DOMAIN window |->
                          IF window[k].op = "STU" /\ window[k].tag = y.tag
                          THEN [window[k] EXCEPT !.done = TRUE]
                          ELSE window[k]]
          /\ UNCHANGED ldqVars
  /\ UNCHANGED <<mem, inflight, target, waiting>>

(* dCachePort::ReceiveMemReq for an address in memory: it is read, or      *)
(* written, as the request comes, and the answer takes its time.           *)
ReceiveLoad(t, a) ==
  /\ inflight' = inflight \union
                   {[op |-> "LDU", tag |-> t, value |-> mem[a]]}
  /\ UNCHANGED mem

ReceiveStore(t, a, d) ==
  /\ mem' = [mem EXCEPT ![a] = d]
  /\ inflight' = inflight \union
                   {[op |-> "STU", tag |-> t, value |-> NoValue]}

MaySend(e) == e.state = "WaitSend" /\ ~e.killed

BadLoadGoes(e) == e.addressReady
LoadGoes(e) == e.addressReady /\ ~e.hasDependancy

(* The oldest load still to be sent goes, or none.                         *)
TryIssueLoad ==
  \E k \in 0..(ldqUsage - 1) :
    LET t == Ldq!SlotAt(k)
    IN  /\ MaySend(ldq[t])
        /\ \A j \in 0..(k - 1) : ~MaySend(ldq[Ldq!SlotAt(j)])
        /\ LoadGoes(ldq[t])
        /\ Ldq!Write(t, [ldq[t] EXCEPT !.state = "Inflight"])
        /\ ReceiveLoad(t, ldq[t].address)
        /\ UNCHANGED <<stqVars, iew, robVars>>

StoreGoes(e) == e.commited

(* The oldest store still to be sent goes once it is committed.            *)
TryIssueStore ==
  \E k \in 0..(stqUsage - 1) :
    LET t == Stq!SlotAt(k)
    IN  /\ stq[t].state = "WaitSend" /\ StoreGoes(stq[t])
        /\ \A j \in 0..(k - 1) : stq[Stq!SlotAt(j)].state # "WaitSend"
        /\ Stq!Write(t, [stq[t] EXCEPT !.state = "Inflight"])
        /\ ReceiveStore(t, stq[t].address, stq[t].data)
        /\ UNCHANGED <<ldqVars, iew, robVars>>

(* The answer, by the slot that was sent as transaction number.            *)
ReceiveResponse(r) ==
  /\ inflight' = inflight \ {r}
  /\ IF r.op = "LDU"
     THEN /\ Ldq!Write(r.tag,
               [ldq[r.tag] EXCEPT
                  !.state = "Executed",
                  !.result = IF ldq[r.tag].killed THEN @ ELSE r.value])
          /\ UNCHANGED stqVars
     ELSE /\ Stq!Write(r.tag, [stq[r.tag] EXCEPT !.state = "Executed"])
          /\ UNCHANGED ldqVars
  /\ UNCHANGED <<mem, iew, robVars>>

-----------------------------------------------------------------------------
(* The effects of Rcu::WriteBack on entry k that matter here; the results  *)
(* of squashed instructions are dropped there.                             *)

TakesOver(k) == target = 0 \/ k < target

LoadDone(k, refused) ==
  LET e == window[k]
  IN  /\ e.op = "LDU" /\ ~e.done
      /\ Ldq!Live(e.tag) /\ ldq[e.tag].state = "Executed"
      /\ refused => LoadFaults
      /\ window' = [window EXCEPT ![k] =
                      [@ EXCEPT !.done = TRUE, !.isExcp = refused,
                                !.result = IF refused THEN e.result
                                           ELSE ldq[e.tag].result]]
      /\ IF refused /\ TakesOver(k)
         THEN target' = k /\ waiting' = FALSE
         ELSE UNCHANGED <<target, waiting>>
      /\ UNCHANGED <<ldqVars, stqVars, mem, inflight, iew>>

BranchDone(k, mispredicted) ==
  /\ window[k].op = "BRU" /\ ~window[k].done
  /\ window' = [window EXCEPT ![k] = [@ EXCEPT !.done = TRUE]]
  /\ LET resumes == ~mispredicted /\ ~Speculation /\ waiting /\ k = target
     IN  CASE mispredicted /\ (TakesOver(k) \/ k = target) ->
                target' = k /\ waiting' = FALSE
           [] resumes -> target' = 0 /\ waiting' = FALSE
           [] OTHER -> UNCHANGED <<target, waiting>>
  /\ UNCHANGED <<ldqVars, stqVars, mem, inflight, iew>>

-----------------------------------------------------------------------------
(* Rollback and commit.                                                    *)

BadReleaseResource(e) ==
  /\ UNCHANGED ldqVars
  /\ IF e.op = "STU" THEN Stq!RollBack ELSE UNCHANGED stqVars

(* KillLoadEntry, or KillStoreEntry, which ignores the tag it is given.    *)
ReleaseResource(e) ==
  /\ IF e.op = "LDU"
     THEN Ldq!Write(e.tag, [ldq[e.tag] EXCEPT !.killed = TRUE])
     ELSE UNCHANGED ldqVars
  /\ IF e.op = "STU" THEN Stq!RollBack ELSE UNCHANGED stqVars

(* One iteration of Rcu::RollBack: the youngest entry goes, or the target  *)
(* is reached and released if it has an exception.                         *)
RollBack ==
  /\ target # 0 /\ ~waiting
  /\ LET e == window[Len(window)]
     IN  IF Len(window) > target \/ e.isExcp
         THEN ReleaseResource(e)
         ELSE UNCHANGED <<ldqVars, stqVars>>
  /\ IF Len(window) > target
     THEN window' = SubSeq(window, 1, Len(window) - 1) /\ UNCHANGED waiting
     ELSE waiting' = TRUE /\ UNCHANGED window
  /\ UNCHANGED <<mem, inflight, iew, target>>

BadTargetAfterCommit == target
TargetAfterCommit == IF target = 0 THEN 0 ELSE target - 1

BadLeftInPipe == iew
LeftInPipe == IF target = 1 THEN {} ELSE iew

(* Rcu::CommitInsn for the oldest entry; at the target of a recovery it    *)
(* also flushes what is left in the execution pipe and resumes.            *)
CommitInsn ==
  /\ window # << >> /\ window[1].done
  /\ target # 1 \/ waiting
  /\ LET e == window[1]
         commits(op) == e.op = op /\ ~e.isExcp
     IN  /\ IF commits("LDU")
            THEN Ldq!Write(e.tag, [ldq[e.tag] EXCEPT !.commited = TRUE])
            ELSE UNCHANGED ldqVars
         /\ IF commits("STU")
            THEN Stq!Write(e.tag, [stq[e.tag] EXCEPT !.commited = TRUE])
            ELSE UNCHANGED stqVars
  /\ window' = Tail(window)
  /\ target' = TargetAfterCommit
  /\ waiting' = (waiting /\ target # 1)
  /\ iew' = LeftInPipe
  /\ UNCHANGED <<mem, inflight>>

-----------------------------------------------------------------------------
(* Lsq::Evaulate.                                                          *)

BadLeaves(e) == e.commited \/ e.killed
Leaves(e) == e.commited \/ (e.killed /\ e.state # "Inflight")

BadClearDependancy(performed) ==
  [t \in LdqSlots |->
     IF Ldq!Live(t) /\ Ldq!Age(t) > 0 /\ ldq[t].hasDependancy
        /\ ldq[t].oldestStqTag \in performed
     THEN [ldq[t] EXCEPT !.hasDependancy = FALSE]
     ELSE ldq[t]]

ClearDependancy(performed) ==
  [t \in LdqSlots |->
     IF Ldq!Live(t) /\ ldq[t].hasDependancy
        /\ ldq[t].oldestStqTag \in performed
     THEN [ldq[t] EXCEPT !.hasDependancy = FALSE]
     ELSE ldq[t]]

(* The performed stores at the head leave and wake the loads that wait for *)
(* them; then the loads at the head that are committed, or killed and not  *)
(* waiting for an answer.  n and m are how often the two loops run.        *)
Evaulate ==
  \E n \in 0..stqUsage, m \in 0..ldqUsage :
    /\ n + m > 0
    /\ \A j \in 0..(n - 1) : stq[Stq!SlotAt(j)].state = "Executed"
    /\ n < stqUsage => stq[Stq!SlotAt(n)].state # "Executed"
    /\ \A j \in 0..(m - 1) : Leaves(ldq[Ldq!SlotAt(j)])
    /\ m < ldqUsage => ~Leaves(ldq[Ldq!SlotAt(m)])
    /\ stqHeader' = Stq!SlotAt(n) /\ stqUsage' = stqUsage - n
    /\ ldqHeader' = Ldq!SlotAt(m) /\ ldqUsage' = ldqUsage - m
    /\ ldq' = ClearDependancy({Stq!SlotAt(j) : j \in 0..(n - 1)})
    /\ UNCHANGED <<ldqTail, stq, stqTail, mem, inflight, iew, robVars>>

-----------------------------------------------------------------------------
Next ==
  \/ \E i \in Insn : Allocate(i, FALSE)
  \/ \E i \in Insn : i.op \in ExcpOps /\ Allocate(i, TRUE)
  \/ \E y \in iew : WriteBack(y)
  \/ TryIssueLoad
  \/ TryIssueStore
  \/ \E r \in inflight : ReceiveResponse(r)
  \/ \E k \in DOMAIN window, refused \in BOOLEAN : LoadDone(k, refused)
  \/ \E k \in DOMAIN window, mispredicted \in BOOLEAN :
       BranchDone(k, mispredicted)
  \/ RollBack
  \/ CommitInsn
  \/ Evaulate

Spec == Init /\ [][Next]_vars

(* Every tick the ports issue, the units take an instruction, the Rcu      *)
(* rolls back and commits and Lsq::Evaulate runs; a port answers each      *)
(* request after its latency.                                              *)
Answer(op, t) == \E r \in inflight : r.op = op /\ r.tag = t /\ ReceiveResponse(r)
Resolve ==
  \E k \in DOMAIN window, b \in BOOLEAN : LoadDone(k, b) \/ BranchDone(k, b)

Fairness ==
  /\ WF_vars(\E y \in iew : WriteBack(y))
  /\ WF_vars(TryIssueLoad) /\ WF_vars(TryIssueStore)
  /\ \A op \in {"LDU", "STU"}, t \in LdqSlots \union StqSlots :
       WF_vars(Answer(op, t))
  /\ WF_vars(Resolve)
  /\ WF_vars(RollBack) /\ WF_vars(CommitInsn) /\ WF_vars(Evaulate)

FairSpec == Spec /\ Fairness

-----------------------------------------------------------------------------
(* Properties.                                                             *)

TypeOK ==
  /\ Ldq!TypeOK /\ Ldq!CursorsAgree
  /\ Stq!TypeOK /\ Stq!CursorsAgree
  /\ mem \in [Addr -> Value]
  /\ inflight \subseteq Answers
  /\ iew \subseteq Pending
  /\ window \in Seq(WindowEntry) /\ Len(window) <= WindowSize
  /\ target \in 0..Len(window)
  /\ waiting \in BOOLEAN

InWindow(op) == {k \in DOMAIN window : window[k].op = op}
LiveLoads == {t \in LdqSlots : Ldq!Live(t)}
LiveStores == {t \in StqSlots : Stq!Live(t)}
Uncommitted == {t \in LiveStores : ~stq[t].commited}

(* The store queue is what committed and was not yet performed, then the   *)
(* stores of the re-order buffer in program order; a live load that is     *)
(* neither killed nor committed is a load of the buffer, each with an      *)
(* entry of its own.  So a kill, which drops the youngest store whatever   *)
(* its tag, always drops the right one, and a commit finds its entry.      *)
QueuesMatchWindow ==
  /\ Uncommitted = {window[k].tag : k \in InWindow("STU")}
  /\ \A s \in Uncommitted, t \in LiveStores \ Uncommitted :
       Stq!Age(t) < Stq!Age(s)
  /\ \A j, k \in InWindow("STU") :
       j < k => Stq!Age(window[j].tag) < Stq!Age(window[k].tag)
  /\ \A j, k \in InWindow("LDU") :
       j # k => window[j].tag # window[k].tag
  /\ {t \in LiveLoads : ~ldq[t].killed /\ ~ldq[t].commited}
       \subseteq {window[k].tag : k \in InWindow("LDU")}
  /\ \A k \in InWindow("LDU") :
       LET t == window[k].tag
       IN  ~window[k].isExcp =>
             t \in LiveLoads /\ ~ldq[t].killed /\ ~ldq[t].commited

(* A load of the program waits exactly as long as a store before it has    *)
(* not been performed, and the tag it waits for is that of the youngest    *)
(* one, although slots are reused and rolled back while it waits.          *)
WaitsForYoungestOlderStore ==
  \A k \in InWindow("LDU") :
    LET e == ldq[window[k].tag]
        older == (LiveStores \ Uncommitted) \union
                   {window[j].tag : j \in {i \in InWindow("STU") : i < k}}
    IN  ~window[k].isExcp =>
          /\ e.hasDependancy <=> older # {}
          /\ e.hasDependancy =>
               /\ e.oldestStqTag \in older
               /\ \A t \in older : Stq!Age(t) <= Stq!Age(e.oldestStqTag)

(* The answer of the memory finds the entry that asked for it, still       *)
(* waiting, killed or not: its slot has not been given to another.         *)
AnswersFindTheirEntry ==
  \A r \in inflight :
    /\ \A s \in inflight : s.op = r.op /\ s.tag = r.tag => s = r
    /\ r.op = "LDU" => Ldq!Live(r.tag) /\ ldq[r.tag].state = "Inflight"
    /\ r.op = "STU" => Stq!Live(r.tag) /\ stq[r.tag].state = "Inflight"

(* An address generated late, for an instruction squashed meanwhile, falls *)
(* into an entry that is dead or killed; otherwise it is the entry's own.  *)
LateAddressHarmless ==
  \A y \in iew :
    LET own == \E k \in InWindow(y.op) :
                 /\ window[k].tag = y.tag /\ ~window[k].done
                 /\ window[k].addr = y.addr /\ window[k].data = y.data
    IN  IF y.op = "STU"
        THEN Stq!Live(y.tag) => own /\ ~stq[y.tag].addressReady
        ELSE Ldq!Live(y.tag) /\ ~ldq[y.tag].killed =>
               own /\ ~ldq[y.tag].addressReady

(* The memory as the retired instructions left it: stores that committed   *)
(* and are still to be sent count, the youngest last.                      *)
Unsent(a) ==
  {t \in LiveStores : stq[t].commited /\ stq[t].state = "WaitSend"
                        /\ stq[t].address = a}

ArchMem ==
  [a \in Addr |->
     IF Unsent(a) = {} THEN mem[a]
     ELSE stq[CHOOSE t \in Unsent(a) :
                \A s \in Unsent(a) : Stq!Age(s) <= Stq!Age(t)].data]

UnderWay ==
  [k \in DOMAIN window |->
     [op |-> window[k].op, addr |-> window[k].addr, data |-> window[k].data,
      result |-> window[k].result, isExcp |-> window[k].isExcp]]

M == INSTANCE InOrderMemory WITH Capacity <- WindowSize, mem <- ArchMem,
       live <- UnderWay

(* Loads sent early and answered late and stores performed after they      *)
(* retire cannot be told from a memory that every instruction accesses at  *)
(* the moment it retires: no load that retires has read around an older    *)
(* store or seen a younger or a squashed one, and nothing but a retiring   *)
(* store changes memory, in program order.                                 *)
ImplementsInOrderMemory == M!Spec

(* Every entry of the two queues is freed again, whether its instruction   *)
(* retires or is squashed, so that dispatch never waits for ever.          *)
EntriesLeave ==
  /\ \A t \in LdqSlots : Ldq!Live(t) ~> ~Ldq!Live(t)
  /\ \A t \in StqSlots : Stq!Live(t) ~> ~Stq!Live(t)
=============================================================================

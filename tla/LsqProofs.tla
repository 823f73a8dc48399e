------------------------------- MODULE LsqProofs -------------------------------
(***************************************************************************)
(* Proofs about Lsq for every size of the queues and of the window, every  *)
(* set of addresses and values, with and without speculation and with and  *)
(* without faults of loads.                                                *)
(*                                                                         *)
(* They assume that no store reaches Dispatch with an exception.  One that *)
(* does is dropped from the store queue when the rollback reaches it, and  *)
(* dropped again when an older recovery rolls it back: the queue then      *)
(* loses a store of the program, and none of this holds.                   *)
(***************************************************************************)
EXTENDS Lsq, TLAPS, WellFoundedInduction

NoStoreExcepted == "STU" \notin ExcpOps

-----------------------------------------------------------------------------
(* The inductive invariant.                                                *)

(* An instruction on its way has the fields of its kind.                   *)
Fields(i) ==
  /\ i.op = "LDU" => i.tag \in LdqSlots /\ i.addr \in Addr /\ i.data = NoValue
  /\ i.op = "STU" => i.tag \in StqSlots /\ i.addr \in Addr /\ i.data \in Value

Kinds ==
  /\ \A k \in DOMAIN window : Fields(window[k])
  /\ \A y \in iew : Fields(y)
  /\ \A r \in inflight : /\ r.op = "LDU" => r.tag \in LdqSlots
                         /\ r.op = "STU" => r.tag \in StqSlots

(* What has an address has one in memory; a load is sent with one.         *)
Addresses ==
  /\ \A t \in LdqSlots :
       /\ ldq[t].addressReady => ldq[t].address \in Addr
       /\ ldq[t].state # "WaitSend" => ldq[t].addressReady
  /\ \A t \in StqSlots : stq[t].addressReady =>
                           stq[t].address \in Addr /\ stq[t].data \in Value

(* Where the recovery stands: what is behind the target may be squashed    *)
(* and only there are exceptions; while it waits the target is youngest    *)
(* and, if it is a load, one that was refused, its entry is killed.        *)
Recovery ==
  /\ waiting => target # 0 /\ Len(window) = target
  /\ target # 0 /\ Len(window) > target => window[target].done
  /\ \A k \in DOMAIN window : window[k].isExcp =>
       /\ window[k].op # "STU" /\ window[k].done
       /\ target # 0 /\ k >= target
  /\ target # 0 /\ window[target].op = "LDU" =>
       /\ window[target].isExcp
       /\ waiting => ldq[window[target].tag].killed

(* A load is answered before it is done and committed only when done.      *)
LoadsAnswered ==
  /\ \A k \in InWindow("LDU") : window[k].done /\ ~window[k].isExcp =>
       ldq[window[k].tag].state = "Executed"
  /\ \A t \in LiveLoads : ldq[t].commited => ldq[t].state = "Executed"

(* A store is sent only after it committed, which it does with an address. *)
StoresCommit ==
  /\ \A t \in Uncommitted : stq[t].state = "WaitSend"
  /\ \A t \in LiveStores : stq[t].commited => stq[t].addressReady
  /\ \A k \in InWindow("STU") : window[k].done =>
       stq[window[k].tag].addressReady

(* What is left in the pipe is the program's own unless a recovery has     *)
(* squashed something; then the flush at its end is still to come.         *)
Own(y) ==
  \E k \in InWindow(y.op) :
    /\ window[k].tag = y.tag /\ ~window[k].done
    /\ window[k].addr = y.addr /\ window[k].data = y.data

PipeIsOwn ==
  target = 0 \/ ~window[target].done => \A y \in iew : Own(y)

Entries ==
  /\ TypeOK
  /\ Kinds
  /\ Addresses
  /\ Recovery
  /\ QueuesMatchWindow
  /\ LoadsAnswered
  /\ StoresCommit
  /\ WaitsForYoungestOlderStore
  /\ AnswersFindTheirEntry
  /\ LateAddressHarmless
  /\ PipeIsOwn

-----------------------------------------------------------------------------
(* The geometry of the two queues: a slot and its age determine each       *)
(* other; what a write, a push and pops change of ages and of who is live. *)

LdqShape == Ldq!TypeOK /\ Ldq!CursorsAgree
StqShape == Stq!TypeOK /\ Stq!CursorsAgree

LEMMA LdqGeometry ==
  ASSUME LdqShape
  PROVE  /\ ldq \in [LdqSlots -> LoadEntry] /\ ldqHeader \in LdqSlots
         /\ ldqTail \in LdqSlots /\ ldqUsage \in 0..LdqSize
         /\ \A i \in LdqSlots : Ldq!SlotAt(i) \in LdqSlots
                                /\ Ldq!Age(Ldq!SlotAt(i)) = i
         /\ \A t \in LdqSlots : Ldq!Age(t) \in LdqSlots
                                /\ Ldq!SlotAt(Ldq!Age(t)) = t
         /\ \A s, t \in LdqSlots : Ldq!Age(s) = Ldq!Age(t) => s = t
         /\ \A t \in LdqSlots : Ldq!Live(t) <=> Ldq!Age(t) < ldqUsage
         /\ ldqUsage > 0 => Ldq!GetLastest = Ldq!SlotAt(ldqUsage - 1)
         /\ ldqUsage < LdqSize => ldqTail = Ldq!SlotAt(ldqUsage)
  BY LsqSizes
  DEF LdqShape, Ldq!TypeOK, Ldq!CursorsAgree, Ldq!SlotAt, Ldq!Age, LdqSlots,
      Ldq!Slots, Ldq!GetLastest, Ldq!GetLastPtr, Ldq!Live

LEMMA LdqStill ==
  ASSUME LdqShape, ldq' \in [LdqSlots -> LoadEntry],
         UNCHANGED <<ldqHeader, ldqTail, ldqUsage>>
  PROVE  /\ LdqShape'
         /\ \A t \in LdqSlots : /\ Ldq!Age(t)' = Ldq!Age(t)
                                /\ Ldq!Live(t)' <=> Ldq!Live(t)
  BY DEF LdqShape, Ldq!TypeOK, Ldq!CursorsAgree, Ldq!SlotAt, Ldq!Age,
         LdqSlots, Ldq!Slots, Ldq!Live

LEMMA LdqPush ==
  ASSUME LdqShape, NEW d \in LoadEntry, Ldq!Push(d)
  PROVE  /\ LdqShape'
         /\ ldq' = [ldq EXCEPT ![ldqTail] = d]
         /\ ldqTail \in LdqSlots /\ ~Ldq!Live(ldqTail)
         /\ Ldq!Age(ldqTail) = ldqUsage
         /\ \A t \in LdqSlots :
              /\ Ldq!Age(t)' = Ldq!Age(t)
              /\ Ldq!Live(t)' <=> Ldq!Live(t) \/ t = ldqTail
<1> USE LsqSizes DEF LdqShape, Ldq!TypeOK, Ldq!Slots, LdqSlots, Ldq!Push
<1>1. ldq' \in [LdqSlots -> LoadEntry]
  OBVIOUS
<1>2. QED
  BY <1>1 DEF Ldq!CursorsAgree, Ldq!SlotAt, Ldq!Age, Ldq!Live, Ldq!Full,
              Ldq!TailInc, Ldq!GetNextPtr

LEMMA LdqPops ==
  ASSUME LdqShape, ldq' \in [LdqSlots -> LoadEntry], NEW n \in 0..ldqUsage,
         ldqHeader' = Ldq!SlotAt(n), ldqUsage' = ldqUsage - n,
         ldqTail' = ldqTail
  PROVE  /\ LdqShape'
         /\ \A t \in LdqSlots :
              /\ Ldq!Live(t)' <=> Ldq!Live(t) /\ Ldq!Age(t) >= n
              /\ Ldq!Live(t)' => Ldq!Age(t)' = Ldq!Age(t) - n
<1> USE LsqSizes DEF LdqShape, Ldq!TypeOK, Ldq!Slots, LdqSlots
<1>1. /\ ldqHeader \in 0..(LdqSize - 1) /\ ldqUsage \in 0..LdqSize
      /\ ldqTail \in 0..(LdqSize - 1) /\ LdqSize \in Nat \ {0}
      /\ n \in Nat /\ n <= ldqUsage
  OBVIOUS
<1>2. ldqHeader' \in 0..(LdqSize - 1) /\ ldqUsage' \in 0..LdqSize
  BY <1>1 DEF Ldq!SlotAt
<1>3. Ldq!CursorsAgree'
  BY <1>1, <1>2 DEF Ldq!CursorsAgree, Ldq!SlotAt
<1>4. QED
  BY <1>1, <1>2, <1>3 DEF Ldq!SlotAt, Ldq!Age, Ldq!Live

LEMMA StqGeometry ==
  ASSUME StqShape
  PROVE  /\ stq \in [StqSlots -> StoreEntry] /\ stqHeader \in StqSlots
         /\ stqTail \in StqSlots /\ stqUsage \in 0..StqSize
         /\ \A i \in StqSlots : Stq!SlotAt(i) \in StqSlots
                                /\ Stq!Age(Stq!SlotAt(i)) = i
         /\ \A t \in StqSlots : Stq!Age(t) \in StqSlots
                                /\ Stq!SlotAt(Stq!Age(t)) = t
         /\ \A s, t \in StqSlots : Stq!Age(s) = Stq!Age(t) => s = t
         /\ \A t \in StqSlots : Stq!Live(t) <=> Stq!Age(t) < stqUsage
         /\ stqUsage > 0 => Stq!GetLastest = Stq!SlotAt(stqUsage - 1)
         /\ stqUsage < StqSize => stqTail = Stq!SlotAt(stqUsage)
  BY LsqSizes
  DEF StqShape, Stq!TypeOK, Stq!CursorsAgree, Stq!SlotAt, Stq!Age, StqSlots,
      Stq!Slots, Stq!GetLastest, Stq!GetLastPtr, Stq!Live

LEMMA StqStill ==
  ASSUME StqShape, stq' \in [StqSlots -> StoreEntry],
         UNCHANGED <<stqHeader, stqTail, stqUsage>>
  PROVE  /\ StqShape'
         /\ \A t \in StqSlots : /\ Stq!Age(t)' = Stq!Age(t)
                                /\ Stq!Live(t)' <=> Stq!Live(t)
  BY DEF StqShape, Stq!TypeOK, Stq!CursorsAgree, Stq!SlotAt, Stq!Age,
         StqSlots, Stq!Slots, Stq!Live

LEMMA StqPush ==
  ASSUME StqShape, NEW d \in StoreEntry, Stq!Push(d)
  PROVE  /\ StqShape'
         /\ stq' = [stq EXCEPT ![stqTail] = d]
         /\ stqTail \in StqSlots /\ ~Stq!Live(stqTail)
         /\ Stq!Age(stqTail) = stqUsage
         /\ \A t \in StqSlots :
              /\ Stq!Age(t)' = Stq!Age(t)
              /\ Stq!Live(t)' <=> Stq!Live(t) \/ t = stqTail
<1> USE LsqSizes DEF StqShape, Stq!TypeOK, Stq!Slots, StqSlots, Stq!Push
<1>1. stq' \in [StqSlots -> StoreEntry]
  OBVIOUS
<1>2. QED
  BY <1>1 DEF Stq!CursorsAgree, Stq!SlotAt, Stq!Age, Stq!Live, Stq!Full,
              Stq!TailInc, Stq!GetNextPtr

LEMMA StqPops ==
  ASSUME StqShape, stq' \in [StqSlots -> StoreEntry], NEW n \in 0..stqUsage,
         stqHeader' = Stq!SlotAt(n), stqUsage' = stqUsage - n,
         stqTail' = stqTail
  PROVE  /\ StqShape'
         /\ \A t \in StqSlots :
              /\ Stq!Live(t)' <=> Stq!Live(t) /\ Stq!Age(t) >= n
              /\ Stq!Live(t)' => Stq!Age(t)' = Stq!Age(t) - n
<1> USE LsqSizes DEF StqShape, Stq!TypeOK, Stq!Slots, StqSlots
<1>1. /\ stqHeader \in 0..(StqSize - 1) /\ stqUsage \in 0..StqSize
      /\ stqTail \in 0..(StqSize - 1) /\ StqSize \in Nat \ {0}
      /\ n \in Nat /\ n <= stqUsage
  OBVIOUS
<1>2. stqHeader' \in 0..(StqSize - 1) /\ stqUsage' \in 0..StqSize
  BY <1>1 DEF Stq!SlotAt
<1>3. Stq!CursorsAgree'
  BY <1>1, <1>2 DEF Stq!CursorsAgree, Stq!SlotAt
<1>4. QED
  BY <1>1, <1>2, <1>3 DEF Stq!SlotAt, Stq!Age, Stq!Live

LEMMA StqRollBack ==
  ASSUME StqShape, Stq!RollBack
  PROVE  /\ StqShape' /\ stq' = stq /\ stqUsage > 0
         /\ \A t \in StqSlots :
              /\ Stq!Age(t)' = Stq!Age(t)
              /\ Stq!Live(t)' <=> Stq!Live(t) /\ Stq!Age(t) # stqUsage - 1
  BY LsqSizes
  DEF StqShape, Stq!TypeOK, Stq!Slots, StqSlots, Stq!RollBack,
      Stq!CursorsAgree, Stq!SlotAt, Stq!Age, Stq!Live, Stq!Empty

-----------------------------------------------------------------------------
(* What the lemmas below read in the types.                                *)

LEMMA Typed ==
  ASSUME TypeOK
  PROVE  /\ LdqShape /\ StqShape
         /\ ldq \in [LdqSlots -> LoadEntry]
         /\ stq \in [StqSlots -> StoreEntry]
         /\ window \in Seq(WindowEntry) /\ Len(window) \in Nat
         /\ DOMAIN window = 1..Len(window)
         /\ \A k \in DOMAIN window : window[k] \in WindowEntry
         /\ target \in Nat /\ target <= Len(window)
         /\ target # 0 => target \in DOMAIN window
         /\ waiting \in BOOLEAN
         /\ iew \subseteq Pending /\ inflight \subseteq Answers
BY DEF TypeOK, LdqShape, StqShape, Ldq!TypeOK, Stq!TypeOK, Ldq!Slots,
       Stq!Slots, LdqSlots, StqSlots

(* A load of the program has an entry of its own, still in use; so has a   *)
(* store, and nothing else in the store queue is uncommitted.              *)
LEMMA Entered ==
  ASSUME Entries
  PROVE  /\ \A k \in InWindow("LDU") :
              /\ k \in DOMAIN window /\ window[k].tag \in LdqSlots
              /\ ~window[k].isExcp =>
                   LET t == window[k].tag
                   IN  /\ Ldq!Live(t) /\ t \in LiveLoads
                       /\ ~ldq[t].killed /\ ~ldq[t].commited
         /\ \A k \in InWindow("STU") :
              /\ k \in DOMAIN window /\ window[k].tag \in StqSlots
              /\ Stq!Live(window[k].tag) /\ ~stq[window[k].tag].commited
              /\ window[k].tag \in Uncommitted
              /\ ~window[k].isExcp
         /\ \A j, k \in InWindow("STU") : window[j].tag = window[k].tag => j = k
         /\ \A j, k \in InWindow("LDU") : window[j].tag = window[k].tag => j = k
<1>1. /\ StqShape
      /\ DOMAIN window = 1..Len(window) /\ Len(window) \in Nat
  BY Typed DEF Entries
<1>2. \A k \in InWindow("STU") :
        /\ k \in DOMAIN window /\ window[k].tag \in StqSlots
        /\ Stq!Live(window[k].tag) /\ ~stq[window[k].tag].commited
        /\ window[k].tag \in Uncommitted
        /\ ~window[k].isExcp
  BY DEF Entries, QueuesMatchWindow, InWindow, Uncommitted, LiveStores,
         Recovery
<1>3. \A j, k \in InWindow("STU") :
        j < k => Stq!Age(window[j].tag) < Stq!Age(window[k].tag)
  BY DEF Entries, QueuesMatchWindow
<1>4. \A t \in StqSlots : Stq!Age(t) \in Int
  BY <1>1, StqGeometry DEF StqSlots
<1>5. \A j, k \in InWindow("STU") : window[j].tag = window[k].tag => j = k
  <2> SUFFICES ASSUME NEW j \in InWindow("STU"), NEW k \in InWindow("STU"),
                      window[j].tag = window[k].tag, j # k
               PROVE  FALSE
    OBVIOUS
  <2>1. j \in Int /\ k \in Int /\ Stq!Age(window[j].tag) \in Int
    BY <1>1, <1>2, <1>4
  <2>2. Stq!Age(window[j].tag) < Stq!Age(window[j].tag)
    BY <1>3, <2>1
  <2>3. QED
    BY <2>1, <2>2
<1>6. QED
  BY <1>2, <1>5
  DEF Entries, QueuesMatchWindow, Kinds, Fields, InWindow, LiveLoads

(* No two addresses are under way for one entry that still needs one.      *)
LEMMA Alone ==
  ASSUME Entries, NEW y \in iew, NEW z \in iew, z.op = y.op, z.tag = y.tag,
         IF y.op = "STU" THEN Stq!Live(y.tag)
                         ELSE Ldq!Live(y.tag) /\ ~ldq[y.tag].killed
  PROVE  z = y
<1>1. y \in Pending /\ z \in Pending
  BY DEF Entries, TypeOK
<1>2. Own(y) /\ Own(z)
  BY <1>1 DEF Entries, LateAddressHarmless, Own, Pending
<1>3. y.addr = z.addr /\ y.data = z.data
  BY <1>1, <1>2, Entered DEF Own, Pending
<1>4. QED
  BY <1>1, <1>3 DEF Pending

(* The stores a load has to wait for, and WaitsForYoungestOlderStore for   *)
(* one load.                                                               *)
Older(k) ==
  (LiveStores \ Uncommitted) \union
    {window[j].tag : j \in {i \in InWindow("STU") : i < k}}

Waits(k) ==
  LET e == ldq[window[k].tag]
  IN  /\ e.hasDependancy <=> Older(k) # {}
      /\ e.hasDependancy =>
           /\ e.oldestStqTag \in Older(k)
           /\ \A t \in Older(k) : Stq!Age(t) <= Stq!Age(e.oldestStqTag)

LEMMA WaitsMeans ==
  WaitsForYoungestOlderStore <=>
    \A k \in InWindow("LDU") : ~window[k].isExcp => Waits(k)
BY DEF WaitsForYoungestOlderStore, Waits, Older

LEMMA OlderAreStores ==
  ASSUME Entries, NEW k
  PROVE  /\ Older(k) \subseteq LiveStores /\ LiveStores \subseteq StqSlots
         /\ \A t \in Older(k) : t \in StqSlots /\ Stq!Live(t)
BY Entered DEF Older, LiveStores, Uncommitted

LEMMA HarmlessMeans ==
  ASSUME Entries
  PROVE  \A y \in iew :
           /\ y.op = "STU" => /\ y.tag \in StqSlots
                              /\ Stq!Live(y.tag) =>
                                   Own(y) /\ ~stq[y.tag].addressReady
           /\ y.op = "LDU" => /\ y.tag \in LdqSlots
                              /\ Ldq!Live(y.tag) /\ ~ldq[y.tag].killed =>
                                   Own(y) /\ ~ldq[y.tag].addressReady
BY DEF Entries, LateAddressHarmless, Own, Kinds, Fields

(* What writes to entries that leave alone what says whether and for what  *)
(* they wait, and to the results in the window, preserve.                  *)
LEMMA Frame ==
  ASSUME Entries,
         ldq' \in [LdqSlots -> LoadEntry], stq' \in [StqSlots -> StoreEntry],
         UNCHANGED <<ldqHeader, ldqTail, ldqUsage,
                     stqHeader, stqTail, stqUsage>>,
         \A t \in LdqSlots :
           /\ ldq'[t].killed = ldq[t].killed
           /\ ldq'[t].commited = ldq[t].commited
           /\ ldq'[t].hasDependancy = ldq[t].hasDependancy
           /\ ldq'[t].oldestStqTag = ldq[t].oldestStqTag,
         \A t \in StqSlots : stq'[t].commited = stq[t].commited,
         DOMAIN window' = DOMAIN window,
         \A k \in DOMAIN window :
           /\ window'[k].op = window[k].op /\ window'[k].tag = window[k].tag
           /\ window[k].isExcp => window'[k].isExcp
  PROVE  /\ LdqShape' /\ StqShape'
         /\ \A t \in LdqSlots : Ldq!Live(t)' <=> Ldq!Live(t)
         /\ \A t \in StqSlots : /\ Stq!Age(t)' = Stq!Age(t)
                                /\ Stq!Live(t)' <=> Stq!Live(t)
         /\ LiveLoads' = LiveLoads /\ LiveStores' = LiveStores
         /\ Uncommitted' = Uncommitted
         /\ \A op : InWindow(op)' = InWindow(op)
         /\ QueuesMatchWindow' /\ WaitsForYoungestOlderStore'
<1> USE DEF Entries
<1>1. /\ LdqShape'
      /\ \A t \in LdqSlots : Ldq!Live(t)' <=> Ldq!Live(t)
  BY Typed, LdqStill
<1>2. /\ StqShape'
      /\ \A t \in StqSlots : /\ Stq!Age(t)' = Stq!Age(t)
                             /\ Stq!Live(t)' <=> Stq!Live(t)
  BY Typed, StqStill
<1>3. /\ LiveLoads' = LiveLoads /\ LiveStores' = LiveStores
      /\ Uncommitted' = Uncommitted
  BY <1>1, <1>2 DEF LiveLoads, LiveStores, Uncommitted
<1>4. \A op : InWindow(op)' = InWindow(op)
  BY DEF InWindow
<1>5. \A op : \A k \in InWindow(op) :
        k \in DOMAIN window /\ window'[k].tag = window[k].tag
  BY DEF InWindow
<1>6. QueuesMatchWindow'
  <2>1. {window[k].tag : k \in InWindow("STU")}'
          = {window[k].tag : k \in InWindow("STU")}
    BY <1>4, <1>5
  <2>2. \A s \in Uncommitted', t \in LiveStores' \ Uncommitted' :
          (Stq!Age(t) < Stq!Age(s))'
    BY <1>2, <1>3 DEF QueuesMatchWindow, Uncommitted, LiveStores
  <2>3. \A j, k \in InWindow("STU") :
          j < k => (Stq!Age(window[j].tag) < Stq!Age(window[k].tag))'
    BY <1>2, <1>5, Entered DEF QueuesMatchWindow
  <2>4. {window[k].tag : k \in InWindow("LDU")}'
          = {window[k].tag : k \in InWindow("LDU")}
    BY <1>4, <1>5
  <2>5. {t \in LiveLoads : ~ldq[t].killed /\ ~ldq[t].commited}'
          = {t \in LiveLoads : ~ldq[t].killed /\ ~ldq[t].commited}
    BY <1>3 DEF LiveLoads
  <2>6. \A k \in InWindow("LDU") : ~window'[k].isExcp =>
          /\ window'[k].tag \in LiveLoads'
          /\ ~ldq'[window'[k].tag].killed /\ ~ldq'[window'[k].tag].commited
    BY <1>3, <1>5, Entered
  <2>7. \A j, k \in InWindow("LDU") :
          j # k => window'[j].tag # window'[k].tag
    BY <1>5 DEF QueuesMatchWindow
  <2>8. QED
    BY <1>3, <1>4, <2>1, <2>2, <2>3, <2>4, <2>5, <2>6, <2>7
    DEF QueuesMatchWindow
<1>7. WaitsForYoungestOlderStore'
  <2>1. \A k : Older(k)' = Older(k)
    BY <1>3, <1>4, <1>5 DEF Older
  <2>2. ASSUME NEW k \in InWindow("LDU"), ~window'[k].isExcp
        PROVE  Waits(k)'
    BY <1>2, <1>5, <2>1, <2>2, Entered, OlderAreStores, WaitsMeans DEF Waits
  <2>3. QED
    BY <1>4, <2>2 DEF WaitsForYoungestOlderStore, Waits, Older
<1>8. QED
  BY <1>1, <1>2, <1>3, <1>4, <1>6, <1>7

-----------------------------------------------------------------------------
(* Entries is inductive: one lemma per action.                             *)

LEMMA EntriesWriteBackLoad ==
  ASSUME Entries, NEW y \in iew, y.op = "LDU", WriteBack(y)
  PROVE  Entries'
<1> USE DEF Entries
<1>0. /\ y \in Pending /\ y.tag \in LdqSlots /\ y.addr \in Addr
      /\ ldq \in [LdqSlots -> LoadEntry] /\ LdqShape /\ StqShape
  BY Typed DEF Kinds, Fields
<1>1. /\ ldq' = [ldq EXCEPT ![y.tag] =
                   [ldq[y.tag] EXCEPT !.addressReady = TRUE,
                                      !.address = y.addr]]
      /\ iew' = iew \ {y}
      /\ UNCHANGED <<ldqHeader, ldqTail, ldqUsage, stq, stqHeader, stqTail,
                     stqUsage, mem, inflight, window, target, waiting>>
  BY DEF WriteBack, Ldq!Write, stqVars
<1>2. /\ ldq' \in [LdqSlots -> LoadEntry]
      /\ \A t \in LdqSlots :
           /\ ldq'[t].state = ldq[t].state /\ ldq'[t].killed = ldq[t].killed
           /\ ldq'[t].commited = ldq[t].commited
           /\ ldq'[t].hasDependancy = ldq[t].hasDependancy
           /\ ldq'[t].oldestStqTag = ldq[t].oldestStqTag
           /\ t # y.tag => ldq'[t] = ldq[t]
      /\ ldq'[y.tag].addressReady /\ ldq'[y.tag].address = y.addr
  <2>1. ldq[y.tag] \in LoadEntry
    BY <1>0
  <2>2. [ldq[y.tag] EXCEPT !.addressReady = TRUE, !.address = y.addr]
           \in LoadEntry
    BY <1>0, <2>1 DEF LoadEntry, AnyAddr
  <2>3. QED
    BY <1>0, <1>1, <2>1, <2>2 DEF LoadEntry
<1>3. /\ LdqShape' /\ StqShape'
      /\ \A t \in LdqSlots : Ldq!Live(t)' <=> Ldq!Live(t)
      /\ \A t \in StqSlots : Stq!Live(t)' <=> Stq!Live(t)
      /\ LiveLoads' = LiveLoads /\ LiveStores' = LiveStores
      /\ Uncommitted' = Uncommitted
      /\ \A op : InWindow(op)' = InWindow(op)
      /\ QueuesMatchWindow' /\ WaitsForYoungestOlderStore'
  BY <1>1, <1>2, Typed, Frame
<1>4. TypeOK'
  BY <1>1, <1>3 DEF TypeOK, LdqShape, StqShape
<1>5. Kinds' /\ Addresses'
  BY <1>0, <1>1, <1>2 DEF Kinds, Fields, Addresses
<1>6. Recovery'
  BY <1>1, <1>2, Typed DEF Recovery, Kinds, Fields
<1>7. LoadsAnswered' /\ StoresCommit'
  BY <1>1, <1>2, <1>3, Entered, SMTT(40) DEF LoadsAnswered, StoresCommit, LiveLoads
<1>8. AnswersFindTheirEntry'
  BY <1>1, <1>2, <1>3 DEF AnswersFindTheirEntry, Kinds, LiveStores
<1>9. PipeIsOwn'
  BY <1>1, <1>3 DEF PipeIsOwn, Own
<1>10. LateAddressHarmless'
  <2>1. \A z \in iew : Own(z)' <=> Own(z)
    BY <1>1, <1>3 DEF Own
  <2>2. \A z \in iew' : z.op = "LDU" =>
          z.tag \in LdqSlots /\ ldq'[z.tag].killed = ldq[z.tag].killed
    BY <1>1, <1>2, HarmlessMeans
  <2>3. \A z \in iew' :
          z.op = "LDU" /\ Ldq!Live(z.tag) /\ ~ldq[z.tag].killed =>
            z.tag # y.tag
    BY <1>1, Alone
  <2>4. \A z \in iew' :
          /\ z.op = "STU" /\ Stq!Live(z.tag)' =>
               Own(z)' /\ ~stq'[z.tag].addressReady
          /\ z.op = "LDU" /\ Ldq!Live(z.tag)' /\ ~ldq'[z.tag].killed =>
               Own(z)' /\ ~ldq'[z.tag].addressReady
    BY <1>1, <1>2, <1>3, <2>1, <2>2, <2>3, HarmlessMeans
  <2>5. iew' \subseteq Pending
    BY <1>1, Typed
  <2>6. QED
    BY <2>4, <2>5 DEF LateAddressHarmless, Own, Pending
<1>11. QED
  BY <1>3, <1>4, <1>5, <1>6, <1>7, <1>8, <1>9, <1>10

LEMMA EntriesWriteBackStore ==
  ASSUME Entries, NEW y \in iew, y.op = "STU", WriteBack(y)
  PROVE  Entries'
<1> USE DEF Entries
<1>0. /\ y \in Pending /\ y.tag \in StqSlots
      /\ y.addr \in Addr /\ y.data \in Value
      /\ stq \in [StqSlots -> StoreEntry] /\ ldq \in [LdqSlots -> LoadEntry]
      /\ DOMAIN window = 1..Len(window) /\ Len(window) \in Nat
      /\ \A k \in DOMAIN window : window[k] \in WindowEntry
  BY Typed DEF Kinds, Fields
<1>1. /\ stq' = [stq EXCEPT ![y.tag] =
                   [stq[y.tag] EXCEPT !.addressReady = TRUE,
                                      !.address = y.addr, !.data = y.data]]
      /\ iew' = iew \ {y}
      /\ window' = [k \in DOMAIN window |->
                      IF window[k].op = "STU" /\ window[k].tag = y.tag
                      THEN [window[k] EXCEPT !.done = TRUE]
                      ELSE window[k]]
      /\ UNCHANGED <<ldq, ldqHeader, ldqTail, ldqUsage, stqHeader, stqTail,
                     stqUsage, mem, inflight, target, waiting>>
  BY DEF WriteBack, Stq!Write, ldqVars
<1>2. /\ stq' \in [StqSlots -> StoreEntry]
      /\ \A t \in StqSlots :
           /\ stq'[t].state = stq[t].state
           /\ stq'[t].commited = stq[t].commited
           /\ stq[t].addressReady => stq'[t].addressReady
           /\ t # y.tag => stq'[t] = stq[t]
      /\ stq'[y.tag].addressReady
      /\ stq'[y.tag].address = y.addr /\ stq'[y.tag].data = y.data
  <2>1. stq[y.tag] \in StoreEntry
    BY <1>0
  <2>2. [stq[y.tag] EXCEPT !.addressReady = TRUE, !.address = y.addr,
                           !.data = y.data] \in StoreEntry
    BY <1>0, <2>1 DEF StoreEntry, AnyAddr, AnyValue
  <2>3. QED
    BY <1>0, <1>1, <2>1, <2>2 DEF StoreEntry
<1>3. /\ window' \in Seq(WindowEntry) /\ Len(window') = Len(window)
      /\ DOMAIN window' = DOMAIN window
      /\ \A k \in DOMAIN window :
           /\ window'[k].op = window[k].op /\ window'[k].tag = window[k].tag
           /\ window'[k].addr = window[k].addr
           /\ window'[k].data = window[k].data
           /\ window'[k].isExcp = window[k].isExcp
           /\ window'[k].done <=>
                window[k].done \/ (window[k].op = "STU" /\ window[k].tag = y.tag)
  <2>1. \A k \in DOMAIN window : window'[k] \in WindowEntry
    BY <1>0, <1>1 DEF WindowEntry
  <2>2. DOMAIN window' = 1..Len(window)
    BY <1>0, <1>1
  <2>3. window' \in [1..Len(window) -> WindowEntry]
    BY <1>0, <1>1, <2>1
  <2>4. window' \in Seq(WindowEntry) /\ Len(window') = Len(window)
    BY <1>0, <2>3
  <2>5. QED
    BY <1>0, <1>1, <2>2, <2>4 DEF WindowEntry
<1>4. /\ LdqShape' /\ StqShape'
      /\ \A t \in LdqSlots : Ldq!Live(t)' <=> Ldq!Live(t)
      /\ \A t \in StqSlots : Stq!Live(t)' <=> Stq!Live(t)
      /\ LiveLoads' = LiveLoads /\ LiveStores' = LiveStores
      /\ Uncommitted' = Uncommitted
      /\ \A op : InWindow(op)' = InWindow(op)
      /\ QueuesMatchWindow' /\ WaitsForYoungestOlderStore'
  BY <1>0, <1>1, <1>2, <1>3, Frame
<1>5. TypeOK'
  BY <1>1, <1>3, <1>4 DEF TypeOK, LdqShape, StqShape
<1>6. Kinds' /\ Addresses'
  BY <1>0, <1>1, <1>2, <1>3 DEF Kinds, Fields, Addresses
<1>7. Recovery'
  BY <1>0, <1>1, <1>3, Typed, SMTT(40) DEF Recovery
<1>8. LoadsAnswered'
  BY <1>1, <1>3, <1>4, Entered DEF LoadsAnswered, LiveLoads, InWindow
<1>9. StoresCommit'
  <2>1. \A k \in InWindow("STU") : window'[k].done =>
          stq'[window'[k].tag].addressReady
    BY <1>2, <1>3, Entered DEF StoresCommit
  <2>2. QED
    BY <1>2, <1>4, <2>1 DEF StoresCommit, Uncommitted, LiveStores
<1>10. AnswersFindTheirEntry'
  BY <1>1, <1>2, <1>4 DEF AnswersFindTheirEntry, Kinds, LiveStores
<1>11. \A z \in iew' :
         z.op = "LDU" \/ (z.op = "STU" /\ z.tag # y.tag) =>
           (Own(z)' <=> Own(z))
  BY <1>1, <1>3, <1>4 DEF Own, InWindow
<1>12. \A z \in iew' :
         z.op = "STU" /\ Stq!Live(z.tag) => z.tag # y.tag
  BY <1>0, <1>1, Alone
<1>13. PipeIsOwn'
  <2>1. target # 0 => target \in DOMAIN window
    BY Typed
  <2>2. ASSUME (target = 0 \/ ~window[target].done)', NEW z \in iew'
        PROVE  Own(z)'
    <3>1. Own(z) /\ z \in Pending
      BY <1>0, <1>1, <1>3, <2>1, <2>2, Typed DEF PipeIsOwn
    <3>2. z.op = "STU" => Stq!Live(z.tag)
      BY <3>1, Entered DEF Own
    <3>3. QED
      BY <1>11, <1>12, <2>2, <3>1, <3>2 DEF Pending
  <2>3. QED
    BY <2>2 DEF PipeIsOwn
<1>14. LateAddressHarmless'
  <2>1. \A z \in iew' :
          /\ z.op = "STU" /\ Stq!Live(z.tag)' =>
               Own(z)' /\ ~stq'[z.tag].addressReady
          /\ z.op = "LDU" /\ Ldq!Live(z.tag)' /\ ~ldq'[z.tag].killed =>
               Own(z)' /\ ~ldq'[z.tag].addressReady
    BY <1>1, <1>2, <1>4, <1>11, <1>12, HarmlessMeans
  <2>2. iew' \subseteq Pending
    BY <1>1, Typed
  <2>3. QED
    BY <2>1, <2>2 DEF LateAddressHarmless, Own, Pending
<1>15. QED
  BY <1>4, <1>5, <1>6, <1>7, <1>8, <1>9, <1>10, <1>13, <1>14

(* The ports and the memory change the state of entries, and who waits for *)
(* an answer; nothing else of the invariant reads either.                  *)
LEMMA Transfer ==
  ASSUME Entries,
         ldq' \in [LdqSlots -> LoadEntry], stq' \in [StqSlots -> StoreEntry],
         UNCHANGED <<ldqHeader, ldqTail, ldqUsage, stqHeader, stqTail,
                     stqUsage, iew, window, target, waiting>>,
         \A t \in LdqSlots :
           /\ ldq'[t].killed = ldq[t].killed
           /\ ldq'[t].commited = ldq[t].commited
           /\ ldq'[t].hasDependancy = ldq[t].hasDependancy
           /\ ldq'[t].oldestStqTag = ldq[t].oldestStqTag
           /\ ldq'[t].addressReady = ldq[t].addressReady
           /\ ldq'[t].address = ldq[t].address,
         \A t \in StqSlots :
           /\ stq'[t].commited = stq[t].commited
           /\ stq'[t].addressReady = stq[t].addressReady
           /\ stq'[t].address = stq[t].address
           /\ stq'[t].data = stq[t].data,
         mem' \in [Addr -> Value], inflight' \subseteq Answers,
         \A r \in inflight' : /\ r.op = "LDU" => r.tag \in LdqSlots
                              /\ r.op = "STU" => r.tag \in StqSlots,
         \A t \in Uncommitted : stq'[t].state = stq[t].state,
         \A t \in LdqSlots :
           /\ ldq[t].state = "Executed" => ldq'[t].state = "Executed"
           /\ ldq'[t].state # "WaitSend" => ldq[t].addressReady,
         AnswersFindTheirEntry'
  PROVE  Entries'
<1> USE DEF Entries
<1>1. /\ LdqShape' /\ StqShape'
      /\ \A t \in LdqSlots : Ldq!Live(t)' <=> Ldq!Live(t)
      /\ \A t \in StqSlots : Stq!Live(t)' <=> Stq!Live(t)
      /\ LiveLoads' = LiveLoads /\ LiveStores' = LiveStores
      /\ Uncommitted' = Uncommitted
      /\ \A op : InWindow(op)' = InWindow(op)
      /\ QueuesMatchWindow' /\ WaitsForYoungestOlderStore'
  BY Frame
<1>2. TypeOK'
  BY <1>1 DEF TypeOK, LdqShape, StqShape
<1>3. Kinds' /\ Addresses'
  BY DEF Kinds, Fields, Addresses
<1>4. Recovery'
  BY Typed DEF Recovery, Kinds, Fields
<1>5. LoadsAnswered' /\ StoresCommit'
  BY <1>1, Entered
  DEF LoadsAnswered, StoresCommit, LiveLoads, LiveStores, Uncommitted
<1>6. \A z \in iew : Own(z)' <=> Own(z)
  BY <1>1 DEF Own
<1>7. PipeIsOwn'
  BY <1>6 DEF PipeIsOwn
<1>8. LateAddressHarmless'
  <2>1. \A z \in iew :
          /\ z.op = "STU" /\ Stq!Live(z.tag)' =>
               Own(z)' /\ ~stq'[z.tag].addressReady
          /\ z.op = "LDU" /\ Ldq!Live(z.tag)' /\ ~ldq'[z.tag].killed =>
               Own(z)' /\ ~ldq'[z.tag].addressReady
    BY <1>1, <1>6, HarmlessMeans
  <2>2. QED
    BY <2>1, Typed DEF LateAddressHarmless, Own, Pending
<1>9. QED
  BY <1>1, <1>2, <1>3, <1>4, <1>5, <1>7, <1>8

LEMMA EntriesTryIssueLoad ==
  ASSUME Entries, TryIssueLoad
  PROVE  Entries'
<1> USE DEF Entries
<1>1. PICK k \in 0..(ldqUsage - 1) :
        /\ MaySend(ldq[Ldq!SlotAt(k)]) /\ LoadGoes(ldq[Ldq!SlotAt(k)])
        /\ Ldq!Write(Ldq!SlotAt(k),
                     [ldq[Ldq!SlotAt(k)] EXCEPT !.state = "Inflight"])
        /\ ReceiveLoad(Ldq!SlotAt(k), ldq[Ldq!SlotAt(k)].address)
        /\ UNCHANGED <<stqVars, iew, robVars>>
  BY DEF TryIssueLoad
<1>2. PICK t \in LdqSlots : t = Ldq!SlotAt(k) /\ Ldq!Live(t)
  <2>1. ldqUsage \in 0..LdqSize /\ LdqSize \in Nat
    BY Typed, LdqGeometry, LsqSizes
  <2>2. k \in LdqSlots /\ k < ldqUsage
    BY <2>1 DEF LdqSlots
  <2>3. QED
    BY <2>2, Typed, LdqGeometry, ZenonT(40)
<1>3. /\ ldq[t] \in LoadEntry /\ ldq[t].state = "WaitSend"
      /\ ldq[t].address \in Addr /\ mem[ldq[t].address] \in Value
  BY <1>1, <1>2, Typed DEF MaySend, LoadGoes, Addresses, TypeOK
<1>4. /\ ldq' = [ldq EXCEPT ![t] = [ldq[t] EXCEPT !.state = "Inflight"]]
      /\ inflight' = inflight \union
           {[op |-> "LDU", tag |-> t, value |-> mem[ldq[t].address]]}
      /\ UNCHANGED <<ldqHeader, ldqTail, ldqUsage, stq, stqHeader, stqTail,
                     stqUsage, mem, iew, window, target, waiting>>
  BY <1>1, <1>2 DEF Ldq!Write, ReceiveLoad, stqVars, robVars
<1>5. /\ ldq' \in [LdqSlots -> LoadEntry]
      /\ ldq'[t].state = "Inflight"
      /\ \A s \in LdqSlots :
           /\ ldq'[s].killed = ldq[s].killed
           /\ ldq'[s].commited = ldq[s].commited
           /\ ldq'[s].hasDependancy = ldq[s].hasDependancy
           /\ ldq'[s].oldestStqTag = ldq[s].oldestStqTag
           /\ ldq'[s].addressReady = ldq[s].addressReady
           /\ ldq'[s].address = ldq[s].address
           /\ s # t => ldq'[s] = ldq[s]
  <2>1. [ldq[t] EXCEPT !.state = "Inflight"] \in LoadEntry
    BY <1>3 DEF LoadEntry, States
  <2>2. QED
    BY <1>3, <1>4, <2>1, Typed DEF LoadEntry
<1>6. /\ inflight' \subseteq Answers
      /\ \A r \in inflight' : /\ r.op = "LDU" => r.tag \in LdqSlots
                              /\ r.op = "STU" => r.tag \in StqSlots
  BY <1>3, <1>4, Typed DEF Answers, AnyValue, Kinds
<1>7. /\ \A s \in LdqSlots : Ldq!Live(s)' <=> Ldq!Live(s)
      /\ \A s \in StqSlots : Stq!Live(s)' <=> Stq!Live(s)
  BY <1>4, <1>5, Typed, LdqStill, StqStill
<1>8. \A r \in inflight : ~(r.op = "LDU" /\ r.tag = t)
  BY <1>3 DEF AnswersFindTheirEntry
<1>9. AnswersFindTheirEntry'
  <2>1. ASSUME NEW r \in inflight', NEW s \in inflight',
               s.op = r.op, s.tag = r.tag
        PROVE  s = r
    BY <1>4, <1>8, <2>1 DEF AnswersFindTheirEntry
  <2>2. ASSUME NEW r \in inflight'
        PROVE  /\ r.op = "LDU" =>
                    Ldq!Live(r.tag)' /\ ldq'[r.tag].state = "Inflight"
               /\ r.op = "STU" =>
                    Stq!Live(r.tag)' /\ stq'[r.tag].state = "Inflight"
    BY <1>2, <1>4, <1>5, <1>6, <1>7 DEF AnswersFindTheirEntry
  <2>3. QED
    BY <2>1, <2>2 DEF AnswersFindTheirEntry
<1>10. \A s \in LdqSlots :
         /\ ldq[s].state = "Executed" => ldq'[s].state = "Executed"
         /\ ldq'[s].state # "WaitSend" => ldq[s].addressReady
  BY <1>1, <1>2, <1>3, <1>5 DEF LoadGoes, Addresses
<1>11. mem' \in [Addr -> Value] /\ stq' \in [StqSlots -> StoreEntry]
  BY <1>4, Typed DEF TypeOK
<1>12. QED
  BY <1>4, <1>5, <1>6, <1>9, <1>10, <1>11, Transfer

LEMMA EntriesTryIssueStore ==
  ASSUME Entries, TryIssueStore
  PROVE  Entries'
<1> USE DEF Entries
<1>1. PICK k \in 0..(stqUsage - 1) :
        /\ stq[Stq!SlotAt(k)].state = "WaitSend" /\ stq[Stq!SlotAt(k)].commited
        /\ Stq!Write(Stq!SlotAt(k),
                     [stq[Stq!SlotAt(k)] EXCEPT !.state = "Inflight"])
        /\ ReceiveStore(Stq!SlotAt(k), stq[Stq!SlotAt(k)].address,
                        stq[Stq!SlotAt(k)].data)
        /\ UNCHANGED <<ldqVars, iew, robVars>>
  BY DEF TryIssueStore, StoreGoes
<1>2. PICK t \in StqSlots : t = Stq!SlotAt(k) /\ Stq!Live(t)
  <2>1. stqUsage \in 0..StqSize /\ StqSize \in Nat
    BY Typed, StqGeometry, LsqSizes
  <2>2. k \in StqSlots /\ k < stqUsage
    BY <2>1 DEF StqSlots
  <2>3. QED
    BY <2>2, Typed, StqGeometry
<1>3. /\ stq[t] \in StoreEntry
      /\ stq[t].state = "WaitSend" /\ stq[t].commited
      /\ stq[t].address \in Addr /\ stq[t].data \in Value
  BY <1>1, <1>2, Typed DEF StoresCommit, LiveStores, Addresses
<1>4. /\ stq' = [stq EXCEPT ![t] = [stq[t] EXCEPT !.state = "Inflight"]]
      /\ inflight' = inflight \union
           {[op |-> "STU", tag |-> t, value |-> NoValue]}
      /\ mem' = [mem EXCEPT ![stq[t].address] = stq[t].data]
      /\ UNCHANGED <<ldq, ldqHeader, ldqTail, ldqUsage, stqHeader, stqTail,
                     stqUsage, iew, window, target, waiting>>
  BY <1>1, <1>2 DEF Stq!Write, ReceiveStore, ldqVars, robVars
<1>5. /\ stq' \in [StqSlots -> StoreEntry]
      /\ stq'[t].state = "Inflight"
      /\ \A s \in StqSlots :
           /\ stq'[s].commited = stq[s].commited
           /\ stq'[s].addressReady = stq[s].addressReady
           /\ stq'[s].address = stq[s].address
           /\ stq'[s].data = stq[s].data
           /\ s # t => stq'[s] = stq[s]
  <2>1. [stq[t] EXCEPT !.state = "Inflight"] \in StoreEntry
    BY <1>3 DEF StoreEntry, States
  <2>2. QED
    BY <1>3, <1>4, <2>1, Typed DEF StoreEntry
<1>6. /\ inflight' \subseteq Answers
      /\ \A r \in inflight' : /\ r.op = "LDU" => r.tag \in LdqSlots
                              /\ r.op = "STU" => r.tag \in StqSlots
  BY <1>4, Typed DEF Answers, AnyValue, Kinds
<1>7. /\ \A s \in LdqSlots : Ldq!Live(s)' <=> Ldq!Live(s)
      /\ \A s \in StqSlots : Stq!Live(s)' <=> Stq!Live(s)
  BY <1>4, <1>5, Typed, LdqStill, StqStill
<1>8. \A r \in inflight : ~(r.op = "STU" /\ r.tag = t)
  BY <1>3 DEF AnswersFindTheirEntry
<1>9. AnswersFindTheirEntry'
  <2>1. ASSUME NEW r \in inflight', NEW s \in inflight',
               s.op = r.op, s.tag = r.tag
        PROVE  s = r
    BY <1>4, <1>8, <2>1 DEF AnswersFindTheirEntry
  <2>2. ASSUME NEW r \in inflight'
        PROVE  /\ r.op = "LDU" =>
                    Ldq!Live(r.tag)' /\ ldq'[r.tag].state = "Inflight"
               /\ r.op = "STU" =>
                    Stq!Live(r.tag)' /\ stq'[r.tag].state = "Inflight"
    BY <1>2, <1>4, <1>5, <1>6, <1>7 DEF AnswersFindTheirEntry
  <2>3. QED
    BY <2>1, <2>2 DEF AnswersFindTheirEntry
<1>10. \A s \in Uncommitted : stq'[s].state = stq[s].state
  BY <1>3, <1>5 DEF Uncommitted, LiveStores
<1>11. mem' \in [Addr -> Value] /\ ldq' \in [LdqSlots -> LoadEntry]
  BY <1>3, <1>4, Typed DEF TypeOK
<1>12. \A s \in LdqSlots : ldq'[s].state # "WaitSend" => ldq[s].addressReady
  BY <1>4 DEF Addresses
<1>13. QED
  BY <1>4, <1>5, <1>6, <1>9, <1>10, <1>11, <1>12, Transfer

LEMMA EntriesReceiveResponse ==
  ASSUME Entries, NEW r \in inflight, ReceiveResponse(r)
  PROVE  Entries'
<1> USE DEF Entries
<1>0. /\ r \in Answers /\ inflight' = inflight \ {r}
      /\ UNCHANGED <<ldqHeader, ldqTail, ldqUsage, stqHeader, stqTail,
                     stqUsage, mem, iew, window, target, waiting>>
  BY Typed DEF ReceiveResponse, Ldq!Write, Stq!Write, ldqVars, stqVars, robVars
<1>1. /\ ldq' \in [LdqSlots -> LoadEntry]
      /\ \A s \in LdqSlots :
           /\ ldq'[s].killed = ldq[s].killed
           /\ ldq'[s].commited = ldq[s].commited
           /\ ldq'[s].hasDependancy = ldq[s].hasDependancy
           /\ ldq'[s].oldestStqTag = ldq[s].oldestStqTag
           /\ ldq'[s].addressReady = ldq[s].addressReady
           /\ ldq'[s].address = ldq[s].address
           /\ ldq[s].state = "Executed" => ldq'[s].state = "Executed"
           /\ s # r.tag \/ r.op # "LDU" => ldq'[s] = ldq[s]
  <2>1. CASE r.op = "LDU"
    <3>1. r.tag \in LdqSlots /\ ldq[r.tag] \in LoadEntry /\ r.value \in AnyValue
      BY <1>0, <2>1, Typed DEF Kinds, Answers
    <3>2. PICK v \in AnyValue :
            ldq' = [ldq EXCEPT ![r.tag] =
                      [ldq[r.tag] EXCEPT !.state = "Executed", !.result = v]]
      BY <2>1, <3>1 DEF ReceiveResponse, Ldq!Write, LoadEntry
    <3>3. [ldq[r.tag] EXCEPT !.state = "Executed", !.result = v] \in LoadEntry
      BY <3>1 DEF LoadEntry, States
    <3>4. QED
      BY <2>1, <3>1, <3>2, <3>3, Typed DEF LoadEntry
  <2>2. CASE r.op # "LDU"
    BY <2>2, Typed DEF ReceiveResponse, ldqVars
  <2>3. QED
    BY <2>1, <2>2
<1>2. /\ stq' \in [StqSlots -> StoreEntry]
      /\ \A s \in StqSlots :
           /\ stq'[s].commited = stq[s].commited
           /\ stq'[s].addressReady = stq[s].addressReady
           /\ stq'[s].address = stq[s].address
           /\ stq'[s].data = stq[s].data
           /\ s # r.tag \/ r.op # "STU" => stq'[s] = stq[s]
  <2>1. CASE r.op = "STU"
    <3>1. r.tag \in StqSlots /\ stq[r.tag] \in StoreEntry
      BY <2>1, Typed DEF Kinds
    <3>2. stq' = [stq EXCEPT ![r.tag] =
                    [stq[r.tag] EXCEPT !.state = "Executed"]]
      BY <2>1 DEF ReceiveResponse, Stq!Write
    <3>3. [stq[r.tag] EXCEPT !.state = "Executed"] \in StoreEntry
      BY <3>1 DEF StoreEntry, States
    <3>4. QED
      BY <2>1, <3>1, <3>2, <3>3, Typed DEF StoreEntry
  <2>2. CASE r.op # "STU"
    BY <1>0, <2>2, Typed DEF ReceiveResponse, stqVars, Answers
  <2>3. QED
    BY <2>1, <2>2
<1>3. /\ \A s \in LdqSlots : Ldq!Live(s)' <=> Ldq!Live(s)
      /\ \A s \in StqSlots : Stq!Live(s)' <=> Stq!Live(s)
  BY <1>0, <1>1, <1>2, Typed, LdqStill, StqStill
<1>4. /\ inflight' \subseteq Answers
      /\ \A s \in inflight' : /\ s.op = "LDU" => s.tag \in LdqSlots
                              /\ s.op = "STU" => s.tag \in StqSlots
  BY <1>0, Typed DEF Kinds
<1>5. \A s \in inflight' : s.op # r.op \/ s.tag # r.tag
  BY <1>0 DEF AnswersFindTheirEntry
<1>6. AnswersFindTheirEntry'
  <2>1. ASSUME NEW s \in inflight'
        PROVE  /\ s.op = "LDU" =>
                    Ldq!Live(s.tag)' /\ ldq'[s.tag].state = "Inflight"
               /\ s.op = "STU" =>
                    Stq!Live(s.tag)' /\ stq'[s.tag].state = "Inflight"
    BY <1>0, <1>1, <1>2, <1>3, <1>4, <1>5 DEF AnswersFindTheirEntry
  <2>2. QED
    BY <1>0, <2>1 DEF AnswersFindTheirEntry
<1>7. \A s \in Uncommitted : stq'[s].state = stq[s].state
  BY <1>2 DEF Uncommitted, LiveStores, StoresCommit, AnswersFindTheirEntry
<1>8. \A s \in LdqSlots :
        /\ ldq[s].state = "Executed" => ldq'[s].state = "Executed"
        /\ ldq'[s].state # "WaitSend" => ldq[s].addressReady
  BY <1>1 DEF Addresses, AnswersFindTheirEntry
<1>9. mem' \in [Addr -> Value]
  BY <1>0 DEF TypeOK
<1>10. QED
  BY <1>0, <1>1, <1>2, <1>4, <1>6, <1>7, <1>8, <1>9, Transfer

(* A result marks an entry of the window done.                             *)
LEMMA EntriesDone ==
  ASSUME Entries, NEW k \in DOMAIN window, NEW refused \in BOOLEAN,
         window[k].op # "STU", ~window[k].done,
         window[k].op = "LDU" => ldq[window[k].tag].state = "Executed",
         window[k].op = "BRU" => ~refused,
         NEW v \in AnyValue,
         window' = [window EXCEPT ![k] =
                      [window[k] EXCEPT !.done = TRUE, !.isExcp = refused,
                                        !.result = v]],
         UNCHANGED <<ldqVars, stqVars, mem, inflight, iew>>,
         \/ UNCHANGED <<target, waiting>> /\ ~refused
         \/ UNCHANGED <<target, waiting>> /\ target # 0 /\ k >= target
         \/ (target = 0 \/ k <= target) /\ target' = k /\ waiting' = FALSE
               /\ (window[k].op = "LDU" => refused)
         \/ target' = 0 /\ waiting' = FALSE /\ ~refused /\ waiting /\ k = target
  PROVE  Entries'
<1> USE DEF Entries
<1>0. /\ Len(window) \in Nat /\ DOMAIN window = 1..Len(window)
      /\ window \in Seq(WindowEntry) /\ window[k] \in WindowEntry
      /\ \A j \in DOMAIN window : window[j] \in WindowEntry
      /\ target \in Nat /\ target <= Len(window)
      /\ target # 0 => target \in DOMAIN window
      /\ ldq \in [LdqSlots -> LoadEntry] /\ stq \in [StqSlots -> StoreEntry]
  BY Typed
<1>1. /\ window' \in Seq(WindowEntry) /\ Len(window') = Len(window)
      /\ DOMAIN window' = DOMAIN window
      /\ \A j \in DOMAIN window :
           /\ window'[j].op = window[j].op /\ window'[j].tag = window[j].tag
           /\ window'[j].addr = window[j].addr
           /\ window'[j].data = window[j].data
           /\ window[j].done => window'[j].done
           /\ j # k => window'[j] = window[j]
      /\ window'[k].done /\ window'[k].isExcp = refused
  <2>1. [window[k] EXCEPT !.done = TRUE, !.isExcp = refused, !.result = v]
          \in WindowEntry
    BY <1>0 DEF WindowEntry
  <2>2. QED
    BY <1>0, <2>1 DEF WindowEntry
<1>2. ~window[k].isExcp
  BY DEF Recovery
<1>3. /\ UNCHANGED <<ldq, ldqHeader, ldqTail, ldqUsage>>
      /\ UNCHANGED <<stq, stqHeader, stqTail, stqUsage>>
  BY DEF ldqVars, stqVars
<1>4. /\ LdqShape' /\ StqShape'
      /\ \A t \in LdqSlots : Ldq!Live(t)' <=> Ldq!Live(t)
      /\ \A t \in StqSlots : Stq!Live(t)' <=> Stq!Live(t)
      /\ LiveLoads' = LiveLoads /\ LiveStores' = LiveStores
      /\ Uncommitted' = Uncommitted
      /\ \A op : InWindow(op)' = InWindow(op)
      /\ QueuesMatchWindow' /\ WaitsForYoungestOlderStore'
  <2>1. \A j \in DOMAIN window : window[j].isExcp => window'[j].isExcp
    BY <1>1, <1>2
  <2>2. QED
    BY <1>0, <1>1, <1>3, <2>1, Frame
<1>5. target' \in 0..Len(window') /\ waiting' \in BOOLEAN
  <2>1. waiting' \in BOOLEAN
    BY Typed
  <2>2. k \in 0..Len(window) /\ target \in 0..Len(window)
    BY <1>0
  <2>3. QED
    BY <1>0, <1>1, <2>1, <2>2
<1>6. TypeOK'
  BY <1>1, <1>4, <1>5 DEF TypeOK, LdqShape, StqShape
<1>7. Kinds' /\ Addresses'
  BY <1>1, <1>3 DEF Kinds, Fields, Addresses
<1>8. Recovery'
  <2>1. waiting' => target' # 0 /\ Len(window') = target'
    BY <1>1 DEF Recovery
  <2>2. target' # 0 /\ Len(window') > target' => window'[target'].done
    BY <1>0, <1>1 DEF Recovery
  <2>3. ASSUME NEW j \in DOMAIN window, window'[j].isExcp
        PROVE  /\ window'[j].op # "STU" /\ window'[j].done
               /\ target' # 0 /\ j >= target'
    <3>1. CASE j = k
      BY <1>0, <1>1, <2>3, <3>1
    <3>2. CASE j # k
      <4>1. window[j].isExcp
        BY <1>1, <2>3, <3>2
      <4>2. /\ window[j].op # "STU" /\ window[j].done
            /\ target # 0 /\ j >= target
        BY <4>1 DEF Recovery
      <4>3. ~(target' = 0 /\ waiting /\ k = target)
        BY <1>0, <3>2, <4>2 DEF Recovery
      <4>4. QED
        BY <1>0, <1>1, <4>2, <4>3
    <3>3. QED
      BY <3>1, <3>2
  <2>4. target' # 0 /\ window'[target'].op = "LDU" =>
          /\ window'[target'].isExcp
          /\ waiting' => ldq'[window'[target'].tag].killed
    BY <1>0, <1>1, <1>2, <1>3 DEF Recovery
  <2>5. QED
    BY <1>1, <2>1, <2>2, <2>3, <2>4 DEF Recovery
<1>9. LoadsAnswered' /\ StoresCommit'
  BY <1>1, <1>3, <1>4, Entered
  DEF LoadsAnswered, StoresCommit, LiveLoads, InWindow
<1>10. AnswersFindTheirEntry'
  BY <1>3, <1>4 DEF AnswersFindTheirEntry, Kinds
<1>11. \A z \in iew :
         (z.op = "STU" \/ ldq[z.tag].state # "Executed") =>
           (Own(z) => Own(z)')
  BY <1>1, <1>4, Typed DEF Own, InWindow, Pending
<1>12. LateAddressHarmless'
  <2>1. \A z \in iew :
          /\ z.op = "STU" /\ Stq!Live(z.tag)' =>
               Own(z)' /\ ~stq'[z.tag].addressReady
          /\ z.op = "LDU" /\ Ldq!Live(z.tag)' /\ ~ldq'[z.tag].killed =>
               Own(z)' /\ ~ldq'[z.tag].addressReady
    BY <1>3, <1>4, <1>11, HarmlessMeans DEF Addresses
  <2>2. QED
    BY <2>1, Typed DEF LateAddressHarmless, Own, Pending
<1>13. PipeIsOwn'
  <2>1. ASSUME target' = 0 \/ ~window'[target'].done, NEW z \in iew
        PROVE  Own(z)'
    <3>1. Own(z)
      BY <1>0, <1>1, <2>1 DEF PipeIsOwn
    <3>2. z.op = "LDU" => ldq[z.tag].state # "Executed"
      <4>1. ASSUME z.op = "LDU"
            PROVE  Ldq!Live(z.tag) /\ ~ldq[z.tag].killed
        BY <3>1, <4>1, Entered DEF Own, Recovery
      <4>2. QED
        BY <4>1, HarmlessMeans DEF Addresses
    <3>3. QED
      BY <1>11, <3>1, <3>2, Typed DEF Pending
  <2>2. QED
    BY <2>1 DEF PipeIsOwn
<1>14. QED
  BY <1>4, <1>6, <1>7, <1>8, <1>9, <1>10, <1>12, <1>13

LEMMA EntriesLoadDone ==
  ASSUME Entries, NEW k \in DOMAIN window, NEW refused \in BOOLEAN,
         LoadDone(k, refused)
  PROVE  Entries'
<1>0. /\ window[k] \in WindowEntry /\ window[k].tag \in LdqSlots
      /\ ldq[window[k].tag] \in LoadEntry
      /\ k \in Nat /\ target \in Nat
  BY Typed, Entered DEF Entries, LoadDone, InWindow
<1>1. PICK v \in AnyValue :
        v = IF refused THEN window[k].result ELSE ldq[window[k].tag].result
  BY <1>0 DEF LoadEntry, WindowEntry
<1>4. window' = [window EXCEPT ![k] =
                   [window[k] EXCEPT !.done = TRUE, !.isExcp = refused,
                                     !.result = v]]
  BY <1>0, <1>1 DEF LoadDone
<1>2. \/ UNCHANGED <<target, waiting>> /\ ~refused
      \/ UNCHANGED <<target, waiting>> /\ target # 0 /\ k >= target
      \/ (target = 0 \/ k <= target) /\ target' = k /\ waiting' = FALSE
            /\ (window[k].op = "LDU" => refused)
      \/ target' = 0 /\ waiting' = FALSE /\ ~refused /\ waiting /\ k = target
  BY <1>0 DEF LoadDone, TakesOver
<1>5. /\ window[k].op = "LDU" /\ ~window[k].done
      /\ ldq[window[k].tag].state = "Executed"
      /\ UNCHANGED <<ldqVars, stqVars, mem, inflight, iew>>
  BY DEF LoadDone
<1>3. QED
  BY <1>1, <1>2, <1>4, <1>5, EntriesDone

LEMMA EntriesBranchDone ==
  ASSUME Entries, NEW k \in DOMAIN window, NEW mispredicted \in BOOLEAN,
         BranchDone(k, mispredicted)
  PROVE  Entries'
<1>0. /\ window[k] \in WindowEntry /\ ~window[k].isExcp
      /\ k \in Nat /\ target \in Nat
  BY Typed DEF Entries, BranchDone, Recovery
<1>1. PICK v \in AnyValue : v = window[k].result
  BY <1>0 DEF WindowEntry
<1>2. window' = [window EXCEPT ![k] =
                   [window[k] EXCEPT !.done = TRUE, !.isExcp = FALSE,
                                     !.result = v]]
  BY <1>0, <1>1 DEF BranchDone, WindowEntry
<1>3. \/ UNCHANGED <<target, waiting>>
      \/ (target = 0 \/ k <= target) /\ target' = k /\ waiting' = FALSE
      \/ target' = 0 /\ waiting' = FALSE /\ waiting /\ k = target
  BY <1>0 DEF BranchDone, TakesOver
<1>4. QED
  BY <1>0, <1>2, <1>3, EntriesDone DEF BranchDone

(* The store at the end of the window is the youngest of its queue: what   *)
(* KillStoreEntry drops whatever tag it is given.                          *)
LEMMA LastStoreIsYoungest ==
  ASSUME Entries, window # << >>, window[Len(window)].op = "STU"
  PROVE  Stq!Age(window[Len(window)].tag) = stqUsage - 1
<1> DEFINE n == Len(window)
           e == window[n]
<1> USE DEF Entries
<1>1. /\ n \in Nat /\ DOMAIN window = 1..n /\ n \in DOMAIN window
      /\ StqShape /\ stqUsage \in Nat
  BY Typed, StqGeometry
<1>2. n \in InWindow("STU") /\ e.tag \in StqSlots /\ Stq!Live(e.tag)
  BY <1>1, Entered DEF InWindow
<1>3. stqUsage <= StqSize /\ StqSize \in Nat
      /\ Stq!Age(e.tag) \in StqSlots /\ Stq!Age(e.tag) < stqUsage
  BY <1>1, <1>2, StqGeometry, LsqSizes
<1>4. PICK t \in StqSlots : t = Stq!SlotAt(stqUsage - 1)
  BY <1>1, <1>3, StqGeometry, SMTT(40) DEF StqSlots
<1>5. Stq!Age(t) = stqUsage - 1 /\ Stq!Live(t)
  <2>1. stqUsage - 1 \in StqSlots /\ stqUsage - 1 < stqUsage
    BY <1>1, <1>3 DEF StqSlots
  <2>2. Stq!Age(t) = stqUsage - 1
    BY <1>1, <1>4, <2>1, StqGeometry
  <2> QED
    BY <1>1, <1>4, <2>1, <2>2, StqGeometry
<1>6. CASE stq[t].commited
  <2>1. t \in LiveStores \ Uncommitted
    BY <1>5, <1>6 DEF LiveStores, Uncommitted
  <2>2. Stq!Age(t) < Stq!Age(e.tag)
    BY <1>2, <2>1, Entered DEF QueuesMatchWindow
  <2>3. QED
    BY <1>1, <1>3, <1>5, <2>2 DEF StqSlots
<1>7. CASE ~stq[t].commited
  <2>1. PICK j \in InWindow("STU") : window[j].tag = t
    BY <1>5, <1>7 DEF LiveStores, Uncommitted, QueuesMatchWindow
  <2>2. j \in 1..n
    BY <1>1, <2>1, Entered
  <2>3. j < n => Stq!Age(t) < Stq!Age(e.tag)
    BY <1>2, <2>1 DEF QueuesMatchWindow
  <2>4. QED
    BY <1>1, <1>3, <1>5, <2>1, <2>2, <2>3 DEF StqSlots
<1>8. QED
  BY <1>6, <1>7

LEMMA EntriesRollBack ==
  ASSUME Entries, RollBack
  PROVE  Entries'
<1> DEFINE n == Len(window)
           e == window[n]
           popped == n > target
           K == IF e.op = "LDU" /\ (popped \/ e.isExcp) THEN {e.tag} ELSE {}
           S == IF e.op = "STU" /\ popped THEN {e.tag} ELSE {}
           m == IF popped THEN n - 1 ELSE n
<1> USE DEF Entries
<1>0. /\ n \in Nat /\ DOMAIN window = 1..n /\ window \in Seq(WindowEntry)
      /\ target \in 1..n /\ n \in DOMAIN window /\ target \in DOMAIN window
      /\ ~waiting /\ window # << >>
      /\ e \in WindowEntry
      /\ \A k \in DOMAIN window : window[k] \in WindowEntry
      /\ ldq \in [LdqSlots -> LoadEntry] /\ stq \in [StqSlots -> StoreEntry]
      /\ LdqShape /\ StqShape
      /\ ~popped => n = target
  BY Typed DEF RollBack
<1>1. /\ e.isExcp => e.op # "STU"
      /\ popped => window[target].done
      /\ e.op = "LDU" => e.tag \in LdqSlots
      /\ e.op = "STU" => e.tag \in StqSlots
  BY <1>0 DEF Recovery, Kinds, Fields
<1>2. /\ UNCHANGED <<mem, inflight, iew, target>>
      /\ UNCHANGED <<ldqHeader, ldqTail, ldqUsage>>
      /\ waiting' \in BOOLEAN /\ (waiting' <=> ~popped)
      /\ window' = IF popped THEN SubSeq(window, 1, n - 1) ELSE window
  <2>1. waiting \in BOOLEAN
    BY Typed
  <2>2. CASE popped
    BY <1>0, <2>1, <2>2 DEF RollBack, ReleaseResource, Ldq!Write, ldqVars
  <2>3. CASE ~popped
    BY <1>0, <2>1, <2>3 DEF RollBack, ReleaseResource, Ldq!Write, ldqVars
  <2>4. QED
    BY <2>2, <2>3
<1>3. /\ window' \in Seq(WindowEntry) /\ Len(window') = m /\ m \in Nat
      /\ DOMAIN window' = 1..m /\ m >= target
      /\ \A k \in 1..m : window'[k] = window[k] /\ k \in DOMAIN window
  BY <1>0, <1>2
<1>4. /\ ldq' \in [LdqSlots -> LoadEntry]
      /\ \A t \in LdqSlots :
           /\ ldq'[t] = IF t \in K THEN [ldq[t] EXCEPT !.killed = TRUE]
                                   ELSE ldq[t]
           /\ ldq'[t].killed <=> ldq[t].killed \/ t \in K
           /\ ldq'[t].commited = ldq[t].commited
           /\ ldq'[t].state = ldq[t].state
           /\ ldq'[t].hasDependancy = ldq[t].hasDependancy
           /\ ldq'[t].oldestStqTag = ldq[t].oldestStqTag
           /\ ldq'[t].addressReady = ldq[t].addressReady
           /\ ldq'[t].address = ldq[t].address
  <2>1. CASE K = {}
    <3>1. ldq' = ldq
      BY <2>1 DEF RollBack, ReleaseResource, ldqVars
    <3>2. QED
      BY <1>0, <2>1, <3>1
  <2>2. CASE K # {}
    <3>1. K = {e.tag} /\ e.tag \in LdqSlots /\ ldq[e.tag] \in LoadEntry
      BY <1>0, <1>1, <2>2
    <3>2. ldq' = [ldq EXCEPT ![e.tag] = [ldq[e.tag] EXCEPT !.killed = TRUE]]
      BY <2>2 DEF RollBack, ReleaseResource, Ldq!Write
    <3>3. [ldq[e.tag] EXCEPT !.killed = TRUE] \in LoadEntry
      BY <3>1 DEF LoadEntry
    <3>4. QED
      BY <1>0, <3>1, <3>2, <3>3 DEF LoadEntry
  <2>3. QED
    BY <2>1, <2>2
<1>5. /\ LdqShape'
      /\ \A t \in LdqSlots : Ldq!Live(t)' <=> Ldq!Live(t)
      /\ LiveLoads' = LiveLoads
  <2>1. /\ LdqShape'
        /\ \A t \in LdqSlots : Ldq!Live(t)' <=> Ldq!Live(t)
    BY <1>0, <1>2, <1>4, LdqStill
  <2>2. QED
    BY <2>1 DEF LiveLoads
<1>6. /\ StqShape' /\ stq' = stq
      /\ \A t \in StqSlots : /\ Stq!Age(t)' = Stq!Age(t)
                             /\ Stq!Live(t)' <=> Stq!Live(t) /\ t \notin S
  <2>1. CASE S = {}
    <3>1. UNCHANGED <<stq, stqHeader, stqTail, stqUsage>>
      BY <1>1, <2>1 DEF RollBack, ReleaseResource, stqVars
    <3>2. QED
      BY <1>0, <2>1, <3>1, StqStill
  <2>2. CASE S # {}
    <3>1. S = {e.tag} /\ e.op = "STU" /\ popped
      BY <2>2
    <3>2. Stq!RollBack
      BY <3>1 DEF RollBack, ReleaseResource
    <3>3. Stq!Age(e.tag) = stqUsage - 1 /\ e.tag \in StqSlots
      BY <1>0, <1>1, <3>1, LastStoreIsYoungest
    <3>4. \A t \in StqSlots : Stq!Age(t) = stqUsage - 1 <=> t = e.tag
      BY <1>0, <3>3, StqGeometry
    <3>5. QED
      BY <1>0, <3>1, <3>2, <3>4, StqRollBack
  <2>3. QED
    BY <2>1, <2>2
<1>7. /\ \A op : \A k \in InWindow(op)' :
           k \in InWindow(op) /\ window'[k] = window[k] /\ k \in 1..m
      /\ \A op : \A k \in InWindow(op) : k \in InWindow(op)' \/ (popped /\ k = n)
  <2>1. \A k \in DOMAIN window : k \in 1..m \/ (popped /\ k = n)
    BY <1>0
  <2>2. QED
    BY <1>0, <1>3, <2>1 DEF InWindow
<1>8. /\ LiveStores' = LiveStores \ S
      /\ Uncommitted' = Uncommitted \ S
  BY <1>6 DEF LiveStores, Uncommitted
<1>9. S \subseteq Uncommitted
  BY <1>0, Entered DEF InWindow
<1>10. QueuesMatchWindow'
  <2>1. Uncommitted' = {window'[k].tag : k \in InWindow("STU")'}
    <3>1. \A t \in Uncommitted' : \E k \in InWindow("STU")' : t = window'[k].tag
      BY <1>7, <1>8 DEF QueuesMatchWindow, InWindow
    <3>2. \A k \in InWindow("STU")' : window'[k].tag \in Uncommitted'
      <4>1. S # {} => n \in InWindow("STU") /\ popped /\ S = {window[n].tag}
        BY <1>0 DEF InWindow
      <4>2. popped => n \notin 1..m
        BY <1>0
      <4>3. QED
        BY <1>7, <1>8, <4>1, <4>2, Entered
    <3>3. QED
      BY <3>1, <3>2
  <2>2. \A s \in Uncommitted', t \in LiveStores' \ Uncommitted' :
          (Stq!Age(t) < Stq!Age(s))'
    BY <1>6, <1>8 DEF QueuesMatchWindow, Uncommitted, LiveStores
  <2>3. \A j, k \in InWindow("STU")' :
          j < k => (Stq!Age(window[j].tag) < Stq!Age(window[k].tag))'
    BY <1>6, <1>7, Entered DEF QueuesMatchWindow
  <2>4. \A j, k \in InWindow("LDU")' :
          j # k => window'[j].tag # window'[k].tag
    BY <1>7, Entered
  <2>5. {t \in LiveLoads : ~ldq[t].killed /\ ~ldq[t].commited}'
          \subseteq {window'[k].tag : k \in InWindow("LDU")'}
    <3>1. ASSUME NEW t \in LiveLoads, ~ldq'[t].killed, ~ldq'[t].commited
          PROVE  \E k \in InWindow("LDU")' : t = window'[k].tag
      <4>1. t \in LdqSlots /\ ~ldq[t].killed /\ ~ldq[t].commited /\ t \notin K
        BY <1>4, <3>1 DEF LiveLoads
      <4>2. PICK k \in InWindow("LDU") : t = window[k].tag
        BY <3>1, <4>1 DEF QueuesMatchWindow
      <4>3. ~(popped /\ k = n)
        BY <4>1, <4>2 DEF InWindow
      <4>4. QED
        BY <1>7, <4>2, <4>3
    <3>2. QED
      BY <1>5, <3>1
  <2>6. \A k \in InWindow("LDU")' : ~window'[k].isExcp =>
          /\ window'[k].tag \in LiveLoads'
          /\ ~ldq'[window'[k].tag].killed /\ ~ldq'[window'[k].tag].commited
    <3>1. ASSUME NEW k \in InWindow("LDU")', ~window'[k].isExcp
          PROVE  window[k].tag \notin K
      <4>1. k \in InWindow("LDU") /\ window'[k] = window[k] /\ k \in 1..m
        BY <1>7
      <4>2. K # {} => n \in InWindow("LDU") /\ K = {window[n].tag}
        BY <1>0 DEF InWindow
      <4>3. K # {} /\ k = n => window[k].isExcp
        BY <1>0, <4>1
      <4>4. QED
        BY <3>1, <4>1, <4>2, <4>3, Entered
    <3>2. QED
      BY <1>4, <1>5, <1>7, <3>1, Entered
  <2>7. QED
    BY <2>1, <2>2, <2>3, <2>4, <2>5, <2>6 DEF QueuesMatchWindow
<1>11. WaitsForYoungestOlderStore'
  <2>1. ASSUME NEW k \in InWindow("LDU")'
        PROVE  Older(k)' = Older(k)
    <3>1. k \in 1..m
      BY <1>7
    <3>2. \A j : j \in InWindow("STU")' /\ j < k <=> j \in InWindow("STU") /\ j < k
      <4>1. \A j : j < k => ~(popped /\ j = n)
        BY <1>0, <3>1
      <4>2. QED
        BY <1>7, <4>1
    <3>3. {window[j].tag : j \in {i \in InWindow("STU") : i < k}}'
            = {window[j].tag : j \in {i \in InWindow("STU") : i < k}}
      BY <1>7, <3>2
    <3>4. LiveStores' \ Uncommitted' = LiveStores \ Uncommitted
      BY <1>8, <1>9
    <3>5. QED
      BY <3>3, <3>4 DEF Older
  <2>2. ASSUME NEW k \in InWindow("LDU")', ~window'[k].isExcp
        PROVE  Waits(k)'
    BY <1>4, <1>6, <1>7, <2>1, <2>2, Entered, OlderAreStores, WaitsMeans
    DEF Waits
  <2>3. QED
    BY <2>2 DEF WaitsForYoungestOlderStore, Waits, Older
<1>12. TypeOK'
  <2>1. target' \in 0..Len(window') /\ Len(window') <= WindowSize
    BY <1>0, <1>2, <1>3, LsqSizes DEF TypeOK
  <2>2. QED
    BY <1>2, <1>3, <1>5, <1>6, <2>1 DEF TypeOK, LdqShape, StqShape
<1>13. Kinds' /\ Addresses'
  BY <1>2, <1>3, <1>4, <1>6, SMTT(40) DEF Kinds, Fields, Addresses
<1>14. Recovery'
  <2>1. waiting' => target' # 0 /\ Len(window') = target'
    BY <1>0, <1>2, <1>3
  <2>2. target' # 0 /\ Len(window') > target' => window'[target'].done
    BY <1>0, <1>1, <1>2, <1>3
  <2>3. \A k \in DOMAIN window' : window'[k].isExcp =>
          /\ window'[k].op # "STU" /\ window'[k].done
          /\ target' # 0 /\ k >= target'
    BY <1>0, <1>2, <1>3 DEF Recovery
  <2>4. target' # 0 /\ window'[target'].op = "LDU" =>
          /\ window'[target'].isExcp
          /\ waiting' => ldq'[window'[target'].tag].killed
    <3>1. target' = target /\ window'[target] = window[target]
      BY <1>0, <1>2, <1>3
    <3>2. window[target].op = "LDU" => window[target].isExcp
      BY <1>0 DEF Recovery
    <3>3. waiting' => n = target
      BY <1>0, <1>2
    <3>4. QED
      BY <1>1, <1>4, <3>1, <3>2, <3>3
  <2>5. QED
    BY <2>1, <2>2, <2>3, <2>4 DEF Recovery
<1>15. LoadsAnswered' /\ StoresCommit'
  BY <1>4, <1>5, <1>6, <1>7, <1>8, Entered
  DEF LoadsAnswered, StoresCommit, LiveLoads
<1>16. AnswersFindTheirEntry'
  <2>1. \A r \in inflight : r.op = "STU" => r.tag \notin S
    BY <1>9 DEF AnswersFindTheirEntry, StoresCommit
  <2>2. QED
    BY <1>2, <1>4, <1>5, <1>6, <2>1 DEF AnswersFindTheirEntry, Kinds
<1>17. LateAddressHarmless'
  <2>1. ASSUME NEW z \in iew,
               \/ z.op = "STU" /\ Stq!Live(z.tag)'
               \/ z.op = "LDU" /\ Ldq!Live(z.tag)' /\ ~ldq'[z.tag].killed
        PROVE  /\ Own(z)'
               /\ z.op = "STU" => ~stq'[z.tag].addressReady
               /\ z.op = "LDU" => ~ldq'[z.tag].addressReady
    <3>1. /\ z.op = "STU" => z.tag \notin S /\ z.tag \in StqSlots
          /\ z.op = "LDU" => z.tag \notin K /\ z.tag \in LdqSlots
      BY <1>4, <1>6, <2>1, HarmlessMeans
    <3>2. /\ Own(z)
          /\ z.op = "STU" => ~stq'[z.tag].addressReady
          /\ z.op = "LDU" => ~ldq'[z.tag].addressReady
      BY <1>4, <1>5, <1>6, <2>1, <3>1, HarmlessMeans
    <3>3. PICK k \in InWindow(z.op) :
            /\ window[k].tag = z.tag /\ ~window[k].done
            /\ window[k].addr = z.addr /\ window[k].data = z.data
      BY <3>2 DEF Own
    <3>4. ~(popped /\ k = n)
      BY <2>1, <3>1, <3>3 DEF InWindow
    <3>5. k \in InWindow(z.op)' /\ window'[k] = window[k]
      BY <1>7, <3>3, <3>4
    <3>6. QED
      BY <3>2, <3>3, <3>5 DEF Own
  <2>2. iew' = iew /\ iew \subseteq Pending
    BY <1>2, Typed
  <2>3. QED
    BY <2>1, <2>2 DEF LateAddressHarmless, Own, Pending
<1>18. PipeIsOwn'
  <2>1. ASSUME target' = 0 \/ ~window'[target'].done
        PROVE  /\ ~popped /\ window' = window /\ target' = target
               /\ \A z \in iew : Own(z)
    <3>1. target' = target /\ window'[target] = window[target] /\ target # 0
      BY <1>0, <1>2, <1>3
    <3>2. ~window[target].done
      BY <2>1, <3>1
    <3>3. ~popped
      BY <1>1, <3>2
    <3>4. QED
      BY <1>2, <3>1, <3>2, <3>3 DEF PipeIsOwn
  <2>2. QED
    BY <1>2, <2>1 DEF PipeIsOwn, Own, InWindow
<1>19. QED
  BY <1>10, <1>11, <1>12, <1>13, <1>14, <1>15, <1>16, <1>17, <1>18

LEMMA EntriesCommitInsn ==
  ASSUME Entries, CommitInsn
  PROVE  Entries'
<1> DEFINE n == Len(window)
           e == window[1]
           K == IF e.op = "LDU" /\ ~e.isExcp THEN {e.tag} ELSE {}
           S == IF e.op = "STU" THEN {e.tag} ELSE {}
<1> USE DEF Entries
<1>0. /\ n \in Nat /\ n >= 1 /\ DOMAIN window = 1..n /\ 1 \in DOMAIN window
      /\ window \in Seq(WindowEntry) /\ window # << >>
      /\ target \in 0..n /\ (target # 0 => target \in DOMAIN window)
      /\ e \in WindowEntry /\ e.done
      /\ \A k \in DOMAIN window : window[k] \in WindowEntry
      /\ ldq \in [LdqSlots -> LoadEntry] /\ stq \in [StqSlots -> StoreEntry]
      /\ LdqShape /\ StqShape
  BY Typed DEF CommitInsn
<1>1. /\ e.isExcp => e.op # "STU" /\ target = 1
      /\ target = 1 => n = 1 /\ waiting
      /\ e.op = "LDU" => e.tag \in LdqSlots
      /\ e.op = "STU" => e.tag \in StqSlots
  BY <1>0 DEF Recovery, Kinds, Fields, CommitInsn
<1>2. /\ UNCHANGED <<mem, inflight>>
      /\ UNCHANGED <<ldqHeader, ldqTail, ldqUsage>>
      /\ UNCHANGED <<stqHeader, stqTail, stqUsage>>
      /\ window' = Tail(window)
      /\ target' = IF target = 0 THEN 0 ELSE target - 1
      /\ iew' = IF target = 1 THEN {} ELSE iew
  BY DEF CommitInsn, Ldq!Write, Stq!Write, ldqVars, stqVars,
         TargetAfterCommit, LeftInPipe
<1>3. waiting' \in BOOLEAN /\ (waiting' <=> waiting /\ target # 1)
  BY Typed DEF CommitInsn
<1>4. /\ window' \in Seq(WindowEntry) /\ Len(window') = n - 1
      /\ DOMAIN window' = 1..(n - 1)
      /\ \A k \in 1..(n - 1) : window'[k] = window[k + 1]
                               /\ k + 1 \in DOMAIN window
  BY <1>0, <1>2
<1>5. /\ ldq' \in [LdqSlots -> LoadEntry]
      /\ \A t \in LdqSlots :
           /\ ldq'[t].commited <=> ldq[t].commited \/ t \in K
           /\ ldq'[t].killed = ldq[t].killed
           /\ ldq'[t].state = ldq[t].state
           /\ ldq'[t].hasDependancy = ldq[t].hasDependancy
           /\ ldq'[t].oldestStqTag = ldq[t].oldestStqTag
           /\ ldq'[t].addressReady = ldq[t].addressReady
           /\ ldq'[t].address = ldq[t].address
  <2>1. CASE K = {}
    <3>1. ldq' = ldq
      BY <2>1 DEF CommitInsn, ldqVars
    <3>2. QED
      BY <1>0, <2>1, <3>1
  <2>2. CASE K # {}
    <3>1. K = {e.tag} /\ e.tag \in LdqSlots /\ ldq[e.tag] \in LoadEntry
      BY <1>0, <1>1, <2>2
    <3>2. ldq' = [ldq EXCEPT ![e.tag] = [ldq[e.tag] EXCEPT !.commited = TRUE]]
      BY <2>2 DEF CommitInsn, Ldq!Write
    <3>3. [ldq[e.tag] EXCEPT !.commited = TRUE] \in LoadEntry
      BY <3>1 DEF LoadEntry
    <3>4. QED
      BY <1>0, <3>1, <3>2, <3>3 DEF LoadEntry
  <2>3. QED
    BY <2>1, <2>2
<1>6. /\ stq' \in [StqSlots -> StoreEntry]
      /\ \A t \in StqSlots :
           /\ stq'[t].commited <=> stq[t].commited \/ t \in S
           /\ stq'[t].state = stq[t].state
           /\ stq'[t].addressReady = stq[t].addressReady
           /\ stq'[t].address = stq[t].address
           /\ stq'[t].data = stq[t].data
  <2>1. CASE S = {}
    <3>1. stq' = stq
      BY <2>1 DEF CommitInsn, stqVars
    <3>2. QED
      BY <1>0, <2>1, <3>1
  <2>2. CASE S # {}
    <3>1. /\ S = {e.tag} /\ e.tag \in StqSlots /\ stq[e.tag] \in StoreEntry
          /\ ~e.isExcp
      BY <1>0, <1>1, <2>2
    <3>2. stq' = [stq EXCEPT ![e.tag] = [stq[e.tag] EXCEPT !.commited = TRUE]]
      BY <2>2, <3>1 DEF CommitInsn, Stq!Write
    <3>3. [stq[e.tag] EXCEPT !.commited = TRUE] \in StoreEntry
      BY <3>1 DEF StoreEntry
    <3>4. QED
      BY <1>0, <3>1, <3>2, <3>3 DEF StoreEntry
  <2>3. QED
    BY <2>1, <2>2
<1>7. /\ LdqShape' /\ StqShape'
      /\ \A t \in LdqSlots : Ldq!Live(t)' <=> Ldq!Live(t)
      /\ \A t \in StqSlots : /\ Stq!Age(t)' = Stq!Age(t)
                             /\ Stq!Live(t)' <=> Stq!Live(t)
  BY <1>0, <1>2, <1>5, <1>6, LdqStill, StqStill
<1>8. /\ LiveLoads' = LiveLoads /\ LiveStores' = LiveStores
      /\ Uncommitted' = Uncommitted \ S
  BY <1>6, <1>7 DEF LiveLoads, LiveStores, Uncommitted
<1>9. /\ \A op : \A k \in InWindow(op)' :
           /\ k \in 1..(n - 1) /\ k + 1 \in InWindow(op)
           /\ window'[k] = window[k + 1]
      /\ \A op : \A k \in InWindow(op) :
           k # 1 => k - 1 \in InWindow(op)' /\ window'[k - 1] = window[k]
  <2>1. \A k \in DOMAIN window :
          k # 1 => k - 1 \in 1..(n - 1) /\ (k - 1) + 1 = k
    BY <1>0
  <2>2. QED
    BY <1>0, <1>4, <2>1 DEF InWindow
<1>10. /\ S # {} => 1 \in InWindow("STU") /\ S = {window[1].tag}
       /\ K # {} => 1 \in InWindow("LDU") /\ K = {window[1].tag}
       /\ S \subseteq Uncommitted
  BY <1>0, Entered DEF InWindow
<1>11. QueuesMatchWindow'
  <2>1. Uncommitted' = {window'[k].tag : k \in InWindow("STU")'}
    <3>1. \A t \in Uncommitted' : \E k \in InWindow("STU")' : t = window'[k].tag
      <4>1. ASSUME NEW t \in Uncommitted'
            PROVE  \E k \in InWindow("STU")' : t = window'[k].tag
        <5>1. PICK k \in InWindow("STU") : t = window[k].tag
          BY <1>8, <4>1 DEF QueuesMatchWindow
        <5>2. k # 1
          BY <1>8, <4>1, <5>1 DEF InWindow
        <5>3. QED
          BY <1>9, <5>1, <5>2
      <4>2. QED
        BY <4>1
    <3>2. \A k \in InWindow("STU")' : window'[k].tag \in Uncommitted'
      <4>1. ASSUME NEW k \in InWindow("STU")'
            PROVE  window'[k].tag \in Uncommitted'
        <5>1. /\ k + 1 \in InWindow("STU") /\ window'[k] = window[k + 1]
              /\ k + 1 # 1
          BY <1>9
        <5>2. window[k + 1].tag \notin S
          BY <1>10, <5>1, Entered
        <5>3. QED
          BY <1>8, <5>1, <5>2, Entered
      <4>2. QED
        BY <4>1
    <3>3. QED
      BY <3>1, <3>2
  <2>2. \A s \in Uncommitted', t \in LiveStores' \ Uncommitted' :
          (Stq!Age(t) < Stq!Age(s))'
    <3>1. ASSUME NEW s \in Uncommitted', NEW t \in LiveStores' \ Uncommitted'
          PROVE  Stq!Age(t) < Stq!Age(s)
      <4>1. s \in Uncommitted /\ s \notin S
        BY <1>8
      <4>2. CASE t \notin Uncommitted
        BY <1>8, <4>1, <4>2 DEF QueuesMatchWindow
      <4>3. CASE t \in Uncommitted
        <5>1. 1 \in InWindow("STU") /\ t = window[1].tag
          BY <1>8, <1>10, <4>3
        <5>2. PICK k \in InWindow("STU") : s = window[k].tag
          BY <4>1 DEF QueuesMatchWindow
        <5>3. k # 1 /\ k \in 1..n
          BY <1>0, <1>10, <4>1, <5>1, <5>2, Entered
             DEF InWindow
        <5>4. QED
          BY <5>1, <5>2, <5>3 DEF QueuesMatchWindow
      <4>4. QED
        BY <4>2, <4>3
    <3>2. QED
      BY <1>7, <1>8, <3>1 DEF Uncommitted, LiveStores
  <2>3. \A j, k \in InWindow("STU")' :
          j < k => (Stq!Age(window[j].tag) < Stq!Age(window[k].tag))'
    <3>1. ASSUME NEW j \in InWindow("STU")', NEW k \in InWindow("STU")', j < k
          PROVE  (Stq!Age(window[j].tag) < Stq!Age(window[k].tag))'
      <4>1. /\ j + 1 \in InWindow("STU") /\ window'[j] = window[j + 1]
            /\ k + 1 \in InWindow("STU") /\ window'[k] = window[k + 1]
            /\ j + 1 < k + 1
        BY <1>9, <3>1
      <4>2. Stq!Age(window[j + 1].tag) < Stq!Age(window[k + 1].tag)
        BY <4>1 DEF QueuesMatchWindow
      <4>3. QED
        BY <1>7, <4>1, <4>2, Entered
    <3>2. QED
      BY <3>1
  <2>4. \A j, k \in InWindow("LDU")' :
          j # k => window'[j].tag # window'[k].tag
    <3>1. ASSUME NEW j \in InWindow("LDU")', NEW k \in InWindow("LDU")', j # k
          PROVE  window'[j].tag # window'[k].tag
      <4>1. /\ j + 1 \in InWindow("LDU") /\ window'[j] = window[j + 1]
            /\ k + 1 \in InWindow("LDU") /\ window'[k] = window[k + 1]
            /\ j \in 1..(n - 1) /\ k \in 1..(n - 1)
        BY <1>9
      <4>2. j + 1 # k + 1
        BY <1>0, <3>1, <4>1
      <4>3. QED
        BY <4>1, <4>2, Entered
    <3>2. QED
      BY <3>1
  <2>5. {t \in LiveLoads : ~ldq[t].killed /\ ~ldq[t].commited}'
          \subseteq {window'[k].tag : k \in InWindow("LDU")'}
    <3>1. ASSUME NEW t \in LiveLoads, ~ldq'[t].killed, ~ldq'[t].commited
          PROVE  \E k \in InWindow("LDU")' : t = window'[k].tag
      <4>1. t \in LdqSlots /\ ~ldq[t].killed /\ ~ldq[t].commited /\ t \notin K
        BY <1>5, <3>1 DEF LiveLoads
      <4>2. PICK k \in InWindow("LDU") : t = window[k].tag
        BY <3>1, <4>1 DEF QueuesMatchWindow
      <4>3. k # 1
        BY <1>1, <4>1, <4>2 DEF InWindow, Recovery
      <4>4. QED
        BY <1>9, <4>2, <4>3
    <3>2. QED
      BY <1>8, <3>1
  <2>6. \A k \in InWindow("LDU")' : ~window'[k].isExcp =>
          /\ window'[k].tag \in LiveLoads'
          /\ ~ldq'[window'[k].tag].killed /\ ~ldq'[window'[k].tag].commited
    <3>1. ASSUME NEW k \in InWindow("LDU")', ~window'[k].isExcp
          PROVE  /\ window'[k].tag \in LiveLoads'
                 /\ ~ldq'[window'[k].tag].killed
                 /\ ~ldq'[window'[k].tag].commited
      <4>1. /\ k + 1 \in InWindow("LDU") /\ window'[k] = window[k + 1]
            /\ k + 1 # 1
        BY <1>9
      <4>2. window[k + 1].tag \notin K
        BY <1>10, <4>1, Entered
      <4>3. QED
        BY <1>5, <1>8, <3>1, <4>1, <4>2, Entered
    <3>2. QED
      BY <3>1
  <2>7. QED
    BY <2>1, <2>2, <2>3, <2>4, <2>5, <2>6 DEF QueuesMatchWindow
<1>12. WaitsForYoungestOlderStore'
  <2>1. ASSUME NEW k \in InWindow("LDU")'
        PROVE  Older(k)' = Older(k + 1)
    <3>1. k \in 1..(n - 1)
      BY <1>9
    <3>2. \A t \in Older(k)' : t \in Older(k + 1)
      <4>1. ASSUME NEW t \in LiveStores' \ Uncommitted'
            PROVE  t \in Older(k + 1)
        <5>1. t \in LiveStores \ Uncommitted \/ t \in S
          BY <1>8
        <5>2. t \in S => 1 \in InWindow("STU") /\ t = window[1].tag /\ 1 < k + 1
          BY <1>10, <3>1
        <5>3. QED
          BY <5>1, <5>2 DEF Older
      <4>2. ASSUME NEW j \in InWindow("STU")', j < k
            PROVE  window'[j].tag \in Older(k + 1)
        <5>1. j + 1 \in InWindow("STU") /\ window'[j] = window[j + 1]
              /\ j + 1 < k + 1
          BY <1>9, <3>1, <4>2
        <5>2. QED
          BY <5>1 DEF Older
      <4>3. QED
        BY <4>1, <4>2 DEF Older
    <3>3. \A t \in Older(k + 1) : t \in Older(k)'
      <4>1. ASSUME NEW t \in LiveStores \ Uncommitted
            PROVE  t \in Older(k)'
        BY <1>8, <4>1 DEF Older
      <4>2. ASSUME NEW j \in InWindow("STU"), j < k + 1
            PROVE  window[j].tag \in Older(k)'
        <5>1. CASE j = 1
          <6>1. window[1].tag \in LiveStores' \ Uncommitted'
            BY <1>8, <5>1, Entered DEF InWindow, Uncommitted
          <6>2. QED
            BY <5>1, <6>1 DEF Older
        <5>2. CASE j # 1
          <6>1. j - 1 \in InWindow("STU")' /\ window'[j - 1] = window[j]
                /\ j - 1 < k
            BY <1>0, <1>9, <3>1, <4>2, <5>2, Entered
          <6>2. QED
            BY <6>1 DEF Older
        <5>3. QED
          BY <5>1, <5>2
      <4>3. QED
        BY <4>1, <4>2 DEF Older
    <3>4. QED
      BY <3>2, <3>3
  <2>2. ASSUME NEW k \in InWindow("LDU")', ~window'[k].isExcp
        PROVE  Waits(k)'
    <3>1. k + 1 \in InWindow("LDU") /\ window'[k] = window[k + 1]
      BY <1>9
    <3>2. Waits(k + 1) /\ window[k + 1].tag \in LdqSlots
      BY <2>2, <3>1, Entered, WaitsMeans
    <3>3. \A t \in Older(k + 1) : Stq!Age(t)' = Stq!Age(t)
      BY <1>7, OlderAreStores
    <3>4. QED
      BY <1>5, <1>7, <2>1, <3>1, <3>2, <3>3, OlderAreStores DEF Waits
  <2>3. QED
    BY <2>2 DEF WaitsForYoungestOlderStore, Waits, Older
<1>13. TypeOK'
  <2>1. target' \in 0..Len(window') /\ Len(window') <= WindowSize
    BY <1>0, <1>1, <1>2, <1>4, LsqSizes DEF TypeOK
  <2>2. QED
    BY <1>2, <1>3, <1>4, <1>7, <2>1 DEF TypeOK, LdqShape, StqShape
<1>14. Kinds' /\ Addresses'
  BY <1>2, <1>4, <1>5, <1>6 DEF Kinds, Fields, Addresses
<1>15. Recovery'
  <2>1. waiting' => target' # 0 /\ Len(window') = target'
    BY <1>0, <1>2, <1>3, <1>4 DEF Recovery
  <2>2. target' # 0 =>
          target' \in 1..(n - 1) /\ target' + 1 = target /\ target # 1
    BY <1>0, <1>1, <1>2
  <2>3. target' # 0 /\ Len(window') > target' => window'[target'].done
    <3>1. target' # 0 => window'[target'] = window[target]
      BY <1>4, <2>2
    <3>2. target' # 0 /\ Len(window') > target' => target # 0 /\ n > target
      BY <1>0, <1>2, <1>4, <2>2
    <3>3. QED
      BY <3>1, <3>2 DEF Recovery
  <2>4. \A k \in DOMAIN window' : window'[k].isExcp =>
          /\ window'[k].op # "STU" /\ window'[k].done
          /\ target' # 0 /\ k >= target'
    <3>1. ASSUME NEW k \in 1..(n - 1), window[k + 1].isExcp
          PROVE  /\ window[k + 1].op # "STU" /\ window[k + 1].done
                 /\ target # 0 /\ k + 1 >= target /\ target # 1
      <4>1. k + 1 \in DOMAIN window
        BY <1>4
      <4>2. /\ window[k + 1].op # "STU" /\ window[k + 1].done
            /\ target # 0 /\ k + 1 >= target
        BY <3>1, <4>1 DEF Recovery
      <4>3. n # 1
        BY <1>0
      <4>4. QED
        BY <1>1, <4>2, <4>3
    <3>2. QED
      BY <1>0, <1>2, <1>4, <3>1
  <2>5. target' # 0 /\ window'[target'].op = "LDU" =>
          /\ window'[target'].isExcp
          /\ waiting' => ldq'[window'[target'].tag].killed
    <3>1. target' # 0 => window'[target'] = window[target]
      BY <1>4, <2>2
    <3>2. target' # 0 /\ window[target].op = "LDU" =>
            window[target].tag \in LdqSlots
      BY <1>0, <1>2 DEF Kinds, Fields
    <3>3. QED
      BY <1>2, <1>3, <1>5, <3>1, <3>2 DEF Recovery
  <2>6. QED
    BY <2>1, <2>3, <2>4, <2>5 DEF Recovery
<1>16. LoadsAnswered'
  <2>1. \A t \in K : ldq[t].state = "Executed"
    BY <1>0, <1>10 DEF LoadsAnswered
  <2>2. \A k \in InWindow("LDU")' : window'[k].done /\ ~window'[k].isExcp =>
          ldq'[window'[k].tag].state = "Executed"
    BY <1>5, <1>9, Entered DEF LoadsAnswered
  <2>3. QED
    BY <1>5, <1>8, <2>1, <2>2 DEF LoadsAnswered, LiveLoads
<1>17. StoresCommit'
  <2>1. \A t \in S : stq[t].addressReady
    BY <1>0, <1>10 DEF StoresCommit
  <2>2. \A k \in InWindow("STU")' : window'[k].done =>
          stq'[window'[k].tag].addressReady
    BY <1>6, <1>9, Entered DEF StoresCommit
  <2>3. QED
    BY <1>6, <1>8, <2>1, <2>2 DEF StoresCommit, LiveStores, Uncommitted
<1>18. AnswersFindTheirEntry'
  BY <1>2, <1>5, <1>6, <1>7 DEF AnswersFindTheirEntry, Kinds
<1>19. \A z \in iew' : Own(z) => Own(z)'
  <2>1. ASSUME NEW z \in iew', Own(z)
        PROVE  Own(z)'
    <3>1. PICK k \in InWindow(z.op) :
            /\ window[k].tag = z.tag /\ ~window[k].done
            /\ window[k].addr = z.addr /\ window[k].data = z.data
      BY <2>1 DEF Own
    <3>2. k # 1
      BY <1>0, <3>1
    <3>3. k - 1 \in InWindow(z.op)' /\ window'[k - 1] = window[k]
      BY <1>9, <3>2
    <3>4. QED
      BY <3>1, <3>3 DEF Own
  <2>2. QED
    BY <2>1
<1>20. iew' \subseteq iew /\ (target = 1 => iew' = {})
  BY <1>2
<1>21. LateAddressHarmless'
  <2>1. \A z \in iew' :
          /\ z.op = "STU" /\ Stq!Live(z.tag)' =>
               Own(z)' /\ ~stq'[z.tag].addressReady
          /\ z.op = "LDU" /\ Ldq!Live(z.tag)' /\ ~ldq'[z.tag].killed =>
               Own(z)' /\ ~ldq'[z.tag].addressReady
    BY <1>5, <1>6, <1>7, <1>19, <1>20, HarmlessMeans
  <2>2. iew' \subseteq Pending
    BY <1>20, Typed
  <2>3. QED
    BY <2>1, <2>2 DEF LateAddressHarmless, Own, Pending
<1>22. PipeIsOwn'
  <2>1. ASSUME target' = 0 \/ ~window'[target'].done, NEW z \in iew'
        PROVE  Own(z)
    <3>1. target # 1 /\ z \in iew
      BY <1>20, <2>1
    <3>2. target # 0 => window'[target'] = window[target] /\ target' # 0
      BY <1>0, <1>2, <1>4, <3>1
    <3>3. QED
      BY <1>2, <2>1, <3>1, <3>2 DEF PipeIsOwn
  <2>2. QED
    BY <1>19, <2>1 DEF PipeIsOwn
<1>23. QED
  BY <1>11, <1>12, <1>13, <1>14, <1>15, <1>16, <1>17, <1>18, <1>21, <1>22

(* The performed stores that leave are the ones no load need wait for any  *)
(* longer; a load that waits for one of them waits for no other.           *)
LEMMA EntriesEvaulate ==
  ASSUME Entries, Evaulate
  PROVE  Entries'
<1> USE DEF Entries
<1>0. /\ ldq \in [LdqSlots -> LoadEntry] /\ stq \in [StqSlots -> StoreEntry]
      /\ LdqShape /\ StqShape
      /\ ldqUsage \in 0..LdqSize /\ LdqSize \in Nat
      /\ stqUsage \in 0..StqSize /\ StqSize \in Nat
  BY Typed, LdqGeometry, StqGeometry, LsqSizes
<1>1. PICK n \in 0..stqUsage, m \in 0..ldqUsage :
        /\ \A j \in 0..(n - 1) : stq[Stq!SlotAt(j)].state = "Executed"
        /\ \A j \in 0..(m - 1) : Leaves(ldq[Ldq!SlotAt(j)])
        /\ stqHeader' = Stq!SlotAt(n) /\ stqUsage' = stqUsage - n
        /\ ldqHeader' = Ldq!SlotAt(m) /\ ldqUsage' = ldqUsage - m
        /\ ldq' = ClearDependancy({Stq!SlotAt(j) : j \in 0..(n - 1)})
        /\ UNCHANGED <<ldqTail, stq, stqTail, mem, inflight, iew, robVars>>
  BY DEF Evaulate
<1> DEFINE P == {Stq!SlotAt(j) : j \in 0..(n - 1)}
<1>2. UNCHANGED <<window, target, waiting>>
  BY <1>1 DEF robVars
<1>3. \A t \in StqSlots : t \in P <=> Stq!Age(t) < n
  <2>1. \A j \in 0..(n - 1) : j \in StqSlots
    BY <1>0 DEF StqSlots
  <2>2. \A t \in P : t \in StqSlots /\ Stq!Age(t) < n
    BY <1>0, <2>1, StqGeometry DEF StqSlots
  <2>3. \A t \in StqSlots : Stq!Age(t) < n => t \in P
    BY <1>0, StqGeometry DEF StqSlots
  <2>4. QED
    BY <2>2, <2>3
<1>4. /\ \A t \in LiveStores : Stq!Age(t) < n => stq[t].state = "Executed"
      /\ \A t \in Uncommitted : Stq!Age(t) >= n
  <2>1. \A t \in StqSlots : Stq!Age(t) < n => stq[t].state = "Executed"
    <3>1. \A t \in P : stq[t].state = "Executed"
      BY <1>1
    <3>2. QED
      BY <1>3, <3>1
  <2>2. \A t \in StqSlots : Stq!Age(t) \in Int
    BY <1>0, StqGeometry DEF StqSlots
  <2>3. \A t \in Uncommitted : t \in StqSlots /\ stq[t].state # "Executed"
    BY DEF LiveStores, Uncommitted, StoresCommit
  <2>4. QED
    BY <1>0, <2>1, <2>2, <2>3 DEF LiveStores
<1>5. \A t \in LdqSlots : Ldq!Age(t) < m => Leaves(ldq[t])
  BY <1>0, <1>1, LdqGeometry DEF LdqSlots
<1>6. /\ ldq' \in [LdqSlots -> LoadEntry]
      /\ \A t \in LdqSlots :
           /\ ldq'[t].killed = ldq[t].killed
           /\ ldq'[t].commited = ldq[t].commited
           /\ ldq'[t].state = ldq[t].state
           /\ ldq'[t].oldestStqTag = ldq[t].oldestStqTag
           /\ ldq'[t].addressReady = ldq[t].addressReady
           /\ ldq'[t].address = ldq[t].address
           /\ Ldq!Live(t) => (ldq'[t].hasDependancy <=>
                ldq[t].hasDependancy /\ ldq[t].oldestStqTag \notin P)
  <2>1. \A t \in LdqSlots :
          ldq[t] \in LoadEntry /\ ldq[t].hasDependancy \in BOOLEAN
    BY <1>0 DEF LoadEntry
  <2>2. \A t \in LdqSlots :
          [ldq[t] EXCEPT !.hasDependancy = FALSE] \in LoadEntry
    BY <2>1 DEF LoadEntry
  <2>3. \A t \in LdqSlots :
          ldq'[t] = IF Ldq!Live(t) /\ ldq[t].hasDependancy
                       /\ ldq[t].oldestStqTag \in P
                    THEN [ldq[t] EXCEPT !.hasDependancy = FALSE]
                    ELSE ldq[t]
    BY <1>1 DEF ClearDependancy
  <2>4. ldq' \in [LdqSlots -> LoadEntry]
    BY <1>1, <2>1, <2>2 DEF ClearDependancy
  <2>5. QED
    BY <2>1, <2>3, <2>4 DEF LoadEntry
<1>7. /\ StqShape'
      /\ \A t \in StqSlots :
           /\ Stq!Live(t)' <=> Stq!Live(t) /\ Stq!Age(t) >= n
           /\ Stq!Live(t)' => Stq!Age(t)' = Stq!Age(t) - n
  BY <1>0, <1>1, StqPops
<1>8. /\ LdqShape'
      /\ \A t \in LdqSlots :
           Ldq!Live(t)' <=> Ldq!Live(t) /\ Ldq!Age(t) >= m
  BY <1>0, <1>1, <1>6, LdqPops
<1>9. /\ LiveStores' = {t \in LiveStores : Stq!Age(t) >= n}
      /\ Uncommitted' = Uncommitted
      /\ LiveLoads' = {t \in LiveLoads : Ldq!Age(t) >= m}
      /\ \A op : InWindow(op)' = InWindow(op)
  <2>1. LiveStores' = {t \in LiveStores : Stq!Age(t) >= n}
    BY <1>7 DEF LiveStores
  <2>2. Uncommitted' = {t \in LiveStores' : ~stq[t].commited}
    BY <1>1 DEF Uncommitted
  <2>3. Uncommitted' = Uncommitted
    BY <1>4, <2>1, <2>2 DEF Uncommitted
  <2>4. QED
    BY <1>2, <1>8, <2>1, <2>3 DEF LiveLoads, InWindow
<1>10. \A t \in LiveLoads : t \in LiveLoads' \/ Leaves(ldq[t])
  <2>1. \A t \in LdqSlots : Ldq!Age(t) \in Int
    BY <1>0, LdqGeometry DEF LdqSlots
  <2>2. QED
    BY <1>1, <1>5, <1>9, <2>1 DEF LiveLoads
<1>11. QueuesMatchWindow'
  <2>1. \A s \in LiveStores' : s \in LiveStores /\ s \in StqSlots
                              /\ Stq!Live(s)' /\ Stq!Age(s) \in Int
                              /\ Stq!Age(s)' = Stq!Age(s) - n
    BY <1>0, <1>7, <1>9, StqGeometry DEF LiveStores, StqSlots
  <2>2. Uncommitted' \subseteq LiveStores'
    BY DEF Uncommitted
  <2>3. \A s \in Uncommitted', t \in LiveStores' \ Uncommitted' :
          (Stq!Age(t) < Stq!Age(s))'
    BY <1>1, <1>9, <2>1, <2>2 DEF QueuesMatchWindow
  <2>4. \A j, k \in InWindow("STU") :
          j < k => (Stq!Age(window[j].tag) < Stq!Age(window[k].tag))'
    <3>1. \A k \in InWindow("STU") : window[k].tag \in LiveStores'
      BY <1>9, <2>2, Entered
    <3>2. QED
      BY <1>1, <1>2, <2>1, <3>1 DEF QueuesMatchWindow
  <2>5. {t \in LiveLoads : ~ldq[t].killed /\ ~ldq[t].commited}'
          \subseteq {window[k].tag : k \in InWindow("LDU")}
    BY <1>6, <1>9 DEF QueuesMatchWindow, LiveLoads
  <2>6. \A k \in InWindow("LDU") : ~window[k].isExcp =>
          /\ window[k].tag \in LiveLoads'
          /\ ~ldq'[window[k].tag].killed /\ ~ldq'[window[k].tag].commited
    BY <1>6, <1>10, Entered DEF Leaves
  <2>7. QED
    BY <1>2, <1>9, <2>3, <2>4, <2>5, <2>6 DEF QueuesMatchWindow
<1>12. WaitsForYoungestOlderStore'
  <2>1. \A k : Older(k)' = {t \in Older(k) : Stq!Age(t) >= n}
    <3>1. \A k \in InWindow("STU") : Stq!Age(window[k].tag) >= n
      BY <1>4, Entered
    <3>2. \A k : {window[j].tag : j \in {i \in InWindow("STU") : i < k}}'
                   = {window[j].tag : j \in {i \in InWindow("STU") : i < k}}
      BY <1>2, <1>9
    <3>3. LiveStores' \ Uncommitted'
            = {t \in LiveStores \ Uncommitted : Stq!Age(t) >= n}
      BY <1>9
    <3>4. \A k : {window[j].tag : j \in {i \in InWindow("STU") : i < k}}
                   = {t \in {window[j].tag : j \in {i \in InWindow("STU") : i < k}} :
                        Stq!Age(t) >= n}
      BY <3>1
    <3>5. QED
      BY <3>2, <3>3, <3>4 DEF Older
  <2>2. ASSUME NEW k \in InWindow("LDU"), ~window[k].isExcp
        PROVE  Waits(k)'
    <3>1. PICK l \in LdqSlots :
            l = window[k].tag /\ Waits(k) /\ Ldq!Live(l)
      BY <2>2, Entered, WaitsMeans
    <3>8. PICK d \in StqSlots : d = ldq[l].oldestStqTag
      BY <1>0 DEF LoadEntry, StqSlots
    <3>2. window' = window /\ d = ldq'[l].oldestStqTag
      BY <1>2, <1>6, <3>8
    <3>3. /\ \A t \in Older(k) : t \in StqSlots /\ Stq!Live(t)
                                 /\ Stq!Age(t) \in Int
      BY <1>0, OlderAreStores, StqGeometry DEF StqSlots
    <3>4. CASE ~ldq[l].hasDependancy
      <4>1. Older(k)' = {} /\ ~ldq'[l].hasDependancy
        BY <1>6, <2>1, <3>1, <3>8, <3>4 DEF Waits
      <4>2. QED
        BY <3>1, <3>2, <4>1 DEF Waits
    <3>5. CASE ldq[l].hasDependancy /\ d \in P
      <4>1. /\ d \in Older(k) /\ Stq!Age(d) < n
            /\ \A t \in Older(k) : Stq!Age(t) <= Stq!Age(d)
        BY <1>3, <3>1, <3>8, <3>3, <3>5 DEF Waits
      <4>2. Older(k)' = {} /\ ~ldq'[l].hasDependancy
        BY <1>1, <1>6, <2>1, <3>1, <3>8, <3>3, <3>5, <4>1
      <4>3. QED
        BY <3>1, <3>2, <4>2 DEF Waits
    <3>6. CASE ldq[l].hasDependancy /\ d \notin P
      <4>1. /\ d \in Older(k) /\ Stq!Age(d) >= n
            /\ \A t \in Older(k) : Stq!Age(t) <= Stq!Age(d)
        BY <1>1, <1>3, <3>1, <3>8, <3>3, <3>6 DEF Waits
      <4>2. d \in Older(k)' /\ ldq'[l].hasDependancy
        BY <1>6, <2>1, <3>1, <3>8, <3>6, <4>1
      <4>3. \A t \in Older(k)' : Stq!Age(t)' = Stq!Age(t) - n
                                 /\ t \in Older(k)
        BY <1>7, <2>1, <3>3
      <4>4. \A t \in Older(k)' : Stq!Age(t)' <= Stq!Age(d)'
        BY <1>1, <3>3, <3>8, <4>1, <4>2, <4>3
      <4>5. QED
        BY <3>1, <3>2, <4>2, <4>4 DEF Waits
    <3>7. QED
      BY <3>4, <3>5, <3>6
  <2>3. QED
    BY <1>2, <1>9, <2>2 DEF WaitsForYoungestOlderStore, Waits, Older
<1>13. TypeOK'
  BY <1>1, <1>2, <1>7, <1>8 DEF TypeOK, LdqShape, StqShape
<1>14. Kinds' /\ Addresses'
  BY <1>1, <1>2, <1>6 DEF Kinds, Fields, Addresses
<1>15. Recovery'
  BY <1>2, <1>6, Typed DEF Recovery, Kinds, Fields
<1>16. LoadsAnswered' /\ StoresCommit'
  BY <1>1, <1>2, <1>6, <1>9, Entered DEF LoadsAnswered, StoresCommit, LiveLoads
<1>17. AnswersFindTheirEntry'
  <2>1. \A r \in inflight : r.op = "LDU" =>
          /\ r.tag \in LdqSlots /\ Ldq!Live(r.tag)'
          /\ ldq'[r.tag].state = "Inflight"
    <3>1. \A r \in inflight : r.op = "LDU" =>
            r.tag \in LiveLoads /\ ~Leaves(ldq[r.tag])
      BY DEF AnswersFindTheirEntry, Kinds, LiveLoads, LoadsAnswered, Leaves
    <3>2. QED
      BY <1>6, <1>10, <3>1 DEF AnswersFindTheirEntry, LiveLoads
  <2>2. \A r \in inflight : r.op = "STU" =>
          /\ r.tag \in StqSlots /\ Stq!Live(r.tag)'
          /\ stq'[r.tag].state = "Inflight"
    <3>1. \A r \in inflight : r.op = "STU" =>
            /\ r.tag \in LiveStores /\ r.tag \in StqSlots
            /\ stq[r.tag].state = "Inflight"
      BY DEF AnswersFindTheirEntry, Kinds, LiveStores
    <3>2. \A t \in StqSlots : Stq!Age(t) \in Int
      BY <1>0, StqGeometry DEF StqSlots
    <3>3. QED
      BY <1>1, <1>4, <1>7, <3>1, <3>2 DEF LiveStores
  <2>3. QED
    BY <1>1, <2>1, <2>2 DEF AnswersFindTheirEntry
<1>18. \A z \in iew : Own(z)' <=> Own(z)
  BY <1>2, <1>9 DEF Own
<1>19. LateAddressHarmless'
  <2>1. \A z \in iew :
          /\ z.op = "STU" /\ Stq!Live(z.tag)' =>
               Own(z)' /\ ~stq'[z.tag].addressReady
          /\ z.op = "LDU" /\ Ldq!Live(z.tag)' /\ ~ldq'[z.tag].killed =>
               Own(z)' /\ ~ldq'[z.tag].addressReady
    BY <1>1, <1>6, <1>7, <1>8, <1>18, HarmlessMeans
  <2>2. iew' = iew /\ iew \subseteq Pending
    BY <1>1, Typed
  <2>3. QED
    BY <2>1, <2>2 DEF LateAddressHarmless, Own, Pending
<1>20. PipeIsOwn'
  BY <1>1, <1>2, <1>18 DEF PipeIsOwn
<1>21. QED
  BY <1>11, <1>12, <1>13, <1>14, <1>15, <1>16, <1>17, <1>19, <1>20

(* What a load is given at Dispatch.                                       *)
LEMMA FreshLoad ==
  ASSUME StqShape
  PROVE  /\ CreateLdqEntry \in LoadEntry
         /\ CreateLdqEntry.state = "WaitSend"
         /\ ~CreateLdqEntry.killed /\ ~CreateLdqEntry.commited
         /\ ~CreateLdqEntry.addressReady
         /\ CreateLdqEntry.hasDependancy <=> stqUsage # 0
         /\ CreateLdqEntry.oldestStqTag = Stq!GetLastest
<1>1. Stq!GetLastest \in StqSlots
  BY LsqSizes DEF StqShape, Stq!TypeOK, Stq!Slots, Stq!GetLastest,
                  Stq!GetLastPtr, StqSlots
<1>2. /\ NewLoad \in LoadEntry
      /\ NewLoad.state = "WaitSend" /\ NewLoad.killed = FALSE
      /\ NewLoad.commited = FALSE /\ NewLoad.addressReady = FALSE
  BY LsqSizes DEF NewLoad, LoadEntry, States, AnyAddr, AnyValue
<1>3. CreateLdqEntry \in LoadEntry
  BY <1>1, <1>2 DEF CreateLdqEntry, LoadEntry, StqSlots
<1>4. QED
  BY <1>2, <1>3 DEF CreateLdqEntry, LoadEntry, Stq!Empty

LEMMA EntriesAllocate ==
  ASSUME Entries, NEW i \in Insn, NEW excp \in BOOLEAN, Allocate(i, excp),
         excp => i.op # "STU"
  PROVE  Entries'
<1> PICK n : n = Len(window) + 1
  OBVIOUS
<1> PICK tag : tag = CASE i.op = "LDU" -> ldqTail
                       [] i.op = "STU" -> stqTail
                       [] OTHER -> 0
  OBVIOUS
<1> PICK w : w = [op |-> i.op, addr |-> i.addr, data |-> i.data, tag |-> tag,
                  result |-> NoValue, done |-> excp, isExcp |-> excp]
  OBVIOUS
<1> PICK y : y = [op |-> i.op, tag |-> tag, addr |-> i.addr, data |-> i.data]
  OBVIOUS
<1> PICK L : L = IF i.op = "LDU" THEN {ldqTail} ELSE {}
  OBVIOUS
<1> PICK S : S = IF i.op = "STU" THEN {stqTail} ELSE {}
  OBVIOUS
<1> USE DEF Entries
<1>0. /\ Len(window) \in Nat /\ DOMAIN window = 1..(n - 1) /\ n \in Nat
      /\ window \in Seq(WindowEntry)
      /\ target = 0 /\ ~waiting /\ Len(window) < WindowSize
      /\ ldq \in [LdqSlots -> LoadEntry] /\ stq \in [StqSlots -> StoreEntry]
      /\ LdqShape /\ StqShape
      /\ ldqTail \in LdqSlots /\ stqTail \in StqSlots /\ 0 \in LdqSlots
      /\ stqUsage \in 0..StqSize /\ StqSize \in Nat
  <2>1. target = 0 /\ Len(window) < WindowSize
    BY DEF Allocate
  <2>2. 0 \in LdqSlots
    BY LsqSizes DEF LdqSlots
  <2>3. QED
    BY <2>1, <2>2, Typed, LdqGeometry, StqGeometry, LsqSizes DEF Recovery
<1>1. /\ i.op \in Ops
      /\ i.op = "LDU" => i.addr \in Addr /\ i.data = NoValue
      /\ i.op = "STU" => i.addr \in Addr /\ i.data \in Value
      /\ i.op # "LDU" /\ i.op # "STU" => i.op = "BRU"
      /\ i.addr \in AnyAddr /\ i.data \in AnyValue
  BY DEF Insn, Ops, AnyAddr, AnyValue
<1>2. w \in WindowEntry /\ Fields(w)
  <2>1. CASE i.op = "LDU"
    BY <1>0, <1>1, <2>1 DEF WindowEntry, Fields, AnyValue
  <2>2. CASE i.op = "STU"
    BY <1>0, <1>1, <2>2 DEF WindowEntry, Fields, AnyValue
  <2>3. CASE i.op = "BRU"
    BY <1>0, <1>1, <2>3 DEF WindowEntry, Fields, AnyValue
  <2>4. QED
    BY <1>1, <2>1, <2>2, <2>3
<1>3. /\ window' = Append(window, w)
      /\ iew' = IF excp \/ i.op = "BRU" THEN iew ELSE iew \union {y}
      /\ target' = IF excp \/ (i.op = "BRU" /\ ~Speculation) THEN n ELSE 0
      /\ UNCHANGED <<mem, inflight, waiting>>
  BY DEF Allocate
<1>4. /\ window' \in Seq(WindowEntry) /\ Len(window') = n
      /\ DOMAIN window' = 1..n /\ window'[n] = w
      /\ \A k \in 1..(n - 1) : window'[k] = window[k] /\ k \in DOMAIN window
  BY <1>0, <1>2, <1>3
<1>5. /\ LdqShape' /\ \A t \in L : t \in LdqSlots /\ ~Ldq!Live(t)
      /\ \A t \in LdqSlots : Ldq!Live(t)' <=> Ldq!Live(t) \/ t \in L
      /\ \A t \in LdqSlots : t \notin L => ldq'[t] = ldq[t]
      /\ \A t \in L : ldq'[t] = CreateLdqEntry
  <2>1. CASE i.op = "LDU"
    <3>1. CreateLdqEntry \in LoadEntry
      BY <1>0, FreshLoad
    <3>2. Ldq!Push(CreateLdqEntry) /\ L = {ldqTail}
      BY <2>1 DEF Allocate
    <3>3. QED
      BY <1>0, <3>1, <3>2, LdqPush
  <2>2. CASE i.op # "LDU"
    <3>1. UNCHANGED <<ldq, ldqHeader, ldqTail, ldqUsage>> /\ L = {}
      BY <2>2 DEF Allocate, ldqVars
    <3>2. QED
      BY <1>0, <3>1, LdqStill
  <2>3. QED
    BY <2>1, <2>2
<1>6. /\ StqShape'
      /\ \A t \in S : /\ t \in StqSlots /\ ~Stq!Live(t)
                      /\ Stq!Age(t) = stqUsage
      /\ \A t \in StqSlots : /\ Stq!Age(t)' = Stq!Age(t)
                             /\ Stq!Live(t)' <=> Stq!Live(t) \/ t \in S
      /\ \A t \in StqSlots : t \notin S => stq'[t] = stq[t]
      /\ \A t \in S : stq'[t] = NewStore
  <2>1. CASE i.op = "STU"
    <3>1. NewStore \in StoreEntry
      BY DEF NewStore, StoreEntry, States, AnyAddr, AnyValue
    <3>2. Stq!Push(NewStore) /\ S = {stqTail}
      BY <2>1 DEF Allocate
    <3>3. QED
      BY <1>0, <3>1, <3>2, StqPush
  <2>2. CASE i.op # "STU"
    <3>1. UNCHANGED <<stq, stqHeader, stqTail, stqUsage>> /\ S = {}
      BY <2>2 DEF Allocate, stqVars
    <3>2. QED
      BY <1>0, <3>1, StqStill
  <2>3. QED
    BY <2>1, <2>2
<1>7. /\ LiveLoads' = LiveLoads \union L
      /\ LiveStores' = LiveStores \union S
      /\ Uncommitted' = Uncommitted \union S
      /\ \A t \in S : t \notin LiveStores
      /\ \A t \in L : t \notin LiveLoads
  <2>1. LiveLoads' = LiveLoads \union L /\ LiveStores' = LiveStores \union S
    BY <1>5, <1>6 DEF LiveLoads, LiveStores
  <2>2. /\ \A t \in S : t \notin LiveStores
        /\ \A t \in L : t \notin LiveLoads
    BY <1>5, <1>6 DEF LiveLoads, LiveStores
  <2>3. \A t \in S : ~stq'[t].commited
    BY <1>6 DEF NewStore
  <2>4. \A t \in LiveStores : stq'[t] = stq[t]
    BY <1>6, <2>2 DEF LiveStores
  <2>5. QED
    BY <2>1, <2>2, <2>3, <2>4 DEF Uncommitted
<1>8. /\ \A op : \A k \in InWindow(op) :
           /\ k \in InWindow(op)' /\ k \in 1..(n - 1)
           /\ window'[k] = window[k]
      /\ \A op : \A k \in InWindow(op)' :
           k \in InWindow(op) \/ (k = n /\ op = i.op)
      /\ n \in InWindow(i.op)'
      /\ n \notin 1..(n - 1)
  <2>1. \A k \in 1..n : k \in 1..(n - 1) \/ k = n
    BY <1>0
  <2>2. n \in 1..n /\ n \notin 1..(n - 1)
    BY <1>0
  <2>3. QED
    BY <1>0, <1>4, <2>1, <2>2 DEF InWindow
<1>9. /\ i.op = "LDU" => L = {window'[n].tag}
      /\ i.op = "STU" => S = {window'[n].tag}
      /\ S # {} => i.op = "STU"
      /\ L # {} => i.op = "LDU"
  BY <1>4
<1>10. \A k \in DOMAIN window : ~window[k].isExcp
  BY <1>0 DEF Recovery
<1>11. /\ \A k \in InWindow("LDU") :
            /\ window[k].tag \in LiveLoads /\ window[k].tag \notin L
            /\ window[k].tag \in LdqSlots
            /\ ldq'[window[k].tag] = ldq[window[k].tag]
       /\ \A k \in InWindow("STU") :
            /\ window[k].tag \in LiveStores /\ window[k].tag \notin S
            /\ window[k].tag \in StqSlots
            /\ stq'[window[k].tag] = stq[window[k].tag]
  BY <1>5, <1>6, <1>7, <1>10, Entered DEF Uncommitted
<1>12. QueuesMatchWindow'
  <2>1. Uncommitted' = {window'[k].tag : k \in InWindow("STU")'}
    <3>1. \A t \in Uncommitted' : \E k \in InWindow("STU")' : t = window'[k].tag
      BY <1>7, <1>8, <1>9 DEF QueuesMatchWindow
    <3>2. \A k \in InWindow("STU")' : window'[k].tag \in Uncommitted'
      BY <1>7, <1>8, <1>9, Entered
    <3>3. QED
      BY <3>1, <3>2
  <2>2. \A t \in LiveStores : /\ t \in StqSlots /\ Stq!Age(t) \in Int
                              /\ Stq!Age(t) < stqUsage
    BY <1>0, StqGeometry DEF LiveStores, StqSlots
  <2>3. \A s \in Uncommitted', t \in LiveStores' \ Uncommitted' :
          (Stq!Age(t) < Stq!Age(s))'
    <3>1. ASSUME NEW s \in Uncommitted', NEW t \in LiveStores' \ Uncommitted'
          PROVE  Stq!Age(t) < Stq!Age(s) /\ s \in StqSlots /\ t \in StqSlots
      BY <1>6, <1>7, <2>2 DEF QueuesMatchWindow, Uncommitted
    <3>2. QED
      BY <1>6, <3>1
  <2>4. \A j, k \in InWindow("STU")' :
          j < k => (Stq!Age(window[j].tag) < Stq!Age(window[k].tag))'
    <3>1. ASSUME NEW j \in InWindow("STU")', NEW k \in InWindow("STU")', j < k
          PROVE  (Stq!Age(window[j].tag) < Stq!Age(window[k].tag))'
      <4>1. j \in InWindow("STU") /\ window'[j] = window[j]
        <5>1. j # n
          BY <1>0, <1>8, <3>1
        <5>2. QED
          BY <1>8, <5>1
      <4>2. CASE k = n
        <5>1. window'[k].tag \in S
          BY <1>8, <1>9, <4>2
        <5>2. QED
          BY <1>6, <1>11, <2>2, <4>1, <5>1
      <4>3. CASE k # n
        <5>1. k \in InWindow("STU") /\ window'[k] = window[k]
          BY <1>8, <4>3
        <5>2. QED
          BY <1>6, <1>11, <3>1, <4>1, <5>1 DEF QueuesMatchWindow
      <4>4. QED
        BY <4>2, <4>3
    <3>2. QED
      BY <3>1
  <2>5. \A j, k \in InWindow("LDU")' :
          j # k => window'[j].tag # window'[k].tag
    BY <1>8, <1>9, <1>11, Entered
  <2>6. {t \in LiveLoads : ~ldq[t].killed /\ ~ldq[t].commited}'
          \subseteq {window'[k].tag : k \in InWindow("LDU")'}
    <3>1. ASSUME NEW t \in LiveLoads', ~ldq'[t].killed, ~ldq'[t].commited
          PROVE  \E k \in InWindow("LDU")' : t = window'[k].tag
      <4>1. CASE t \in L
        BY <1>8, <1>9, <4>1
      <4>2. CASE t \notin L
        <5>1. t \in LiveLoads /\ ldq'[t] = ldq[t]
          BY <1>5, <1>7, <4>2 DEF LiveLoads
        <5>2. QED
          BY <1>8, <3>1, <5>1 DEF QueuesMatchWindow
      <4>3. QED
        BY <4>1, <4>2
    <3>2. QED
      BY <3>1
  <2>7. \A k \in InWindow("LDU")' : ~window'[k].isExcp =>
          /\ window'[k].tag \in LiveLoads'
          /\ ~ldq'[window'[k].tag].killed /\ ~ldq'[window'[k].tag].commited
    <3>1. i.op = "LDU" => /\ window'[n].tag \in LiveLoads'
                          /\ ~ldq'[window'[n].tag].killed
                          /\ ~ldq'[window'[n].tag].commited
      BY <1>5, <1>7, <1>9, <1>0, FreshLoad
    <3>2. \A k \in InWindow("LDU") :
            /\ window'[k].tag \in LiveLoads'
            /\ ~ldq'[window'[k].tag].killed /\ ~ldq'[window'[k].tag].commited
      BY <1>7, <1>8, <1>10, <1>11, Entered
    <3>3. QED
      BY <1>8, <3>1, <3>2
  <2>8. QED
    BY <2>1, <2>3, <2>4, <2>5, <2>6, <2>7 DEF QueuesMatchWindow
<1>13. WaitsForYoungestOlderStore'
  <2>1. LiveStores' \ Uncommitted' = LiveStores \ Uncommitted
    BY <1>7
  <2>2. ASSUME NEW k \in InWindow("LDU")
        PROVE  Waits(k)'
    <3>1. /\ k \in 1..(n - 1) /\ window'[k] = window[k]
          /\ ldq'[window[k].tag] = ldq[window[k].tag]
      BY <1>8, <1>11
    <3>2. \A j : j \in InWindow("STU")' /\ j < k <=> j \in InWindow("STU") /\ j < k
      <4>1. \A j : j < k => j # n
        BY <1>0, <3>1
      <4>2. QED
        BY <1>8, <4>1
    <3>3. {window[j].tag : j \in {h \in InWindow("STU") : h < k}}'
            = {window[j].tag : j \in {h \in InWindow("STU") : h < k}}
      BY <1>8, <3>2
    <3>4. Older(k)' = Older(k)
      BY <2>1, <3>3 DEF Older
    <3>5. Waits(k)
      BY <1>10, Entered, WaitsMeans
    <3>6. QED
      BY <1>6, <3>1, <3>4, <3>5, OlderAreStores DEF Waits
  <2>3. ASSUME i.op = "LDU"
        PROVE  Waits(n)'
    <3>1. /\ ldq'[window'[n].tag] = CreateLdqEntry
          /\ S = {} /\ LiveStores' = LiveStores
      BY <1>5, <1>7, <1>9, <2>3
    <3>2. Older(n)' = LiveStores
      <4>1. \A j : j \in InWindow("STU")' /\ j < n <=> j \in InWindow("STU")
        BY <1>0, <1>8, <2>3
      <4>2. {window[j].tag : j \in {h \in InWindow("STU") : h < n}}'
              = {window[j].tag : j \in InWindow("STU")}
        BY <1>8, <4>1
      <4>3. QED
        BY <2>1, <4>2 DEF Older, QueuesMatchWindow, Uncommitted
    <3>3. /\ CreateLdqEntry.hasDependancy <=> stqUsage # 0
          /\ CreateLdqEntry.oldestStqTag = Stq!GetLastest
      BY <1>0, FreshLoad
    <3>4. \A t \in LiveStores : /\ t \in StqSlots /\ Stq!Age(t) \in Int
                                /\ Stq!Age(t) < stqUsage
                                /\ Stq!Age(t)' = Stq!Age(t)
      BY <1>0, <1>6, StqGeometry DEF LiveStores, StqSlots
    <3>5. stqUsage # 0 =>
            /\ Stq!GetLastest \in LiveStores
            /\ Stq!Age(Stq!GetLastest) = stqUsage - 1
      <4>1. stqUsage # 0 => stqUsage - 1 \in StqSlots /\ stqUsage > 0
        BY <1>0 DEF StqSlots
      <4>2. QED
        BY <1>0, <4>1, StqGeometry DEF LiveStores, StqSlots
    <3>6. stqUsage = 0 => LiveStores = {}
      BY <1>0, <3>4, StqGeometry DEF LiveStores, StqSlots
    <3>7. PICK d : d = Stq!GetLastest
      OBVIOUS
    <3>8. CASE stqUsage = 0
      BY <3>1, <3>2, <3>3, <3>6, <3>8 DEF Waits
    <3>9. CASE stqUsage # 0
      <4>1. d \in LiveStores /\ Stq!Age(d)' = stqUsage - 1
        BY <3>4, <3>5, <3>7, <3>9
      <4>2. \A t \in LiveStores : Stq!Age(t)' <= Stq!Age(d)'
        BY <1>0, <3>4, <4>1
      <4>3. QED
        BY <3>1, <3>2, <3>3, <3>7, <3>9, <4>1, <4>2 DEF Waits
    <3>10. QED
      BY <3>8, <3>9
  <2>4. \A k \in InWindow("LDU")' : Waits(k)'
    BY <1>8, <2>2, <2>3
  <2>5. QED
    BY <2>4 DEF WaitsForYoungestOlderStore, Waits, Older
<1>14. TypeOK'
  <2>1. target' \in 0..Len(window') /\ Len(window') <= WindowSize
    BY <1>0, <1>3, <1>4, LsqSizes
  <2>2. iew' \subseteq Pending
    BY <1>0, <1>1, <1>3, Typed DEF Pending, Ops
  <2>3. QED
    BY <1>3, <1>4, <1>5, <1>6, <2>1, <2>2 DEF TypeOK, LdqShape, StqShape
<1>15. Kinds'
  <2>1. \A z \in iew' : Fields(z)
    BY <1>2, <1>3 DEF Kinds, Fields
  <2>2. \A k \in DOMAIN window' : Fields(window'[k])
    BY <1>0, <1>2, <1>4 DEF Kinds
  <2>3. QED
    BY <1>3, <2>1, <2>2 DEF Kinds
<1>16. Addresses'
  BY <1>0, <1>5, <1>6, FreshLoad DEF Addresses, NewStore
<1>17. Recovery'
  <2>1. target' = 0 \/ target' = n
    BY <1>3
  <2>2. \A k \in DOMAIN window' : window'[k].isExcp => k = n /\ excp
    BY <1>0, <1>4, <1>10
  <2>3. target' = n /\ window'[n].op = "LDU" => excp
    BY <1>0, <1>3, <1>4
  <2>4. QED
    BY <1>0, <1>3, <1>4, <2>1, <2>2, <2>3 DEF Recovery
<1>18. LoadsAnswered'
  <2>1. \A k \in InWindow("LDU")' : window'[k].done /\ ~window'[k].isExcp =>
          ldq'[window'[k].tag].state = "Executed"
    BY <1>4, <1>8, <1>11 DEF LoadsAnswered
  <2>2. \A t \in L : ~ldq'[t].commited
    BY <1>5, <1>0, FreshLoad
  <2>3. \A t \in LiveLoads' : ldq'[t].commited => ldq'[t].state = "Executed"
    BY <1>5, <1>7, <2>2 DEF LoadsAnswered, LiveLoads
  <2>4. QED
    BY <2>1, <2>3 DEF LoadsAnswered
<1>19. StoresCommit'
  <2>1. \A t \in S : stq'[t].state = "WaitSend" /\ ~stq'[t].commited
    BY <1>6 DEF NewStore
  <2>2. \A t \in LiveStores : t \in StqSlots /\ stq'[t] = stq[t]
    BY <1>6, <1>7 DEF LiveStores
  <2>3. \A k \in InWindow("STU")' : window'[k].done =>
          stq'[window'[k].tag].addressReady
    BY <1>4, <1>8, <1>11 DEF StoresCommit
  <2>4. QED
    BY <1>7, <2>1, <2>2, <2>3 DEF StoresCommit, Uncommitted
<1>20. AnswersFindTheirEntry'
  BY <1>3, <1>5, <1>6 DEF AnswersFindTheirEntry, Kinds
<1>21. \A z \in iew : Own(z) /\ Own(z)'
  <2>1. ASSUME NEW z \in iew
        PROVE  Own(z) /\ Own(z)'
    <3>1. Own(z)
      BY <1>0 DEF PipeIsOwn
    <3>2. PICK k \in InWindow(z.op) :
            /\ window[k].tag = z.tag /\ ~window[k].done
            /\ window[k].addr = z.addr /\ window[k].data = z.data
      BY <3>1 DEF Own
    <3>3. k \in InWindow(z.op)' /\ window'[k] = window[k]
      BY <1>8
    <3>4. QED
      BY <3>1, <3>2, <3>3 DEF Own
  <2>2. QED
    BY <2>1
<1>22. y \in iew' /\ y \notin iew => Own(y)'
  <2>1. y \in iew' /\ y \notin iew => ~excp
    BY <1>3
  <2>2. n \in InWindow(y.op)'
    BY <1>8
  <2>3. QED
    BY <1>4, <2>1, <2>2 DEF Own
<1>23. \A z \in iew' : z \in iew \/ z = y
  BY <1>3
<1>24. LateAddressHarmless'
  <2>1. ASSUME NEW z \in iew, z.op \in {"LDU", "STU"}
        PROVE  /\ z.op = "STU" => ~stq'[z.tag].addressReady
               /\ z.op = "LDU" => ~ldq'[z.tag].addressReady
    <3>1. Own(z)
      BY <1>21
    <3>2. z.op = "STU" => Stq!Live(z.tag) /\ stq'[z.tag] = stq[z.tag]
      BY <1>11, <3>1, Entered DEF Own
    <3>3. z.op = "LDU" => /\ Ldq!Live(z.tag) /\ ~ldq[z.tag].killed
                          /\ ldq'[z.tag] = ldq[z.tag]
      BY <1>10, <1>11, <3>1, Entered DEF Own
    <3>4. QED
      BY <3>2, <3>3, HarmlessMeans
  <2>2. /\ y.op = "STU" => ~stq'[y.tag].addressReady
        /\ y.op = "LDU" => ~ldq'[y.tag].addressReady
    BY <1>0, <1>5, <1>6, FreshLoad DEF NewStore
  <2>3. iew' \subseteq Pending
    BY <1>14 DEF TypeOK
  <2>4. \A z \in iew' : Own(z)'
    BY <1>21, <1>22, <1>23
  <2>5. \A z \in iew' : /\ z.op = "STU" => ~stq'[z.tag].addressReady
                        /\ z.op = "LDU" => ~ldq'[z.tag].addressReady
    BY <1>23, <2>1, <2>2
  <2>6. QED
    BY <2>3, <2>4, <2>5 DEF LateAddressHarmless, Own, Pending
<1>25. PipeIsOwn'
  BY <1>21, <1>22, <1>23 DEF PipeIsOwn
<1>26. QED
  BY <1>12, <1>13, <1>14, <1>15, <1>16, <1>17, <1>18, <1>19, <1>20, <1>24,
     <1>25

-----------------------------------------------------------------------------
(* The theorems.                                                           *)

LEMMA EntriesInit == Init => Entries
<1> SUFFICES ASSUME Init PROVE Entries
  OBVIOUS
<1>1. /\ ldqUsage = 0 /\ ldqHeader = 0 /\ ldqTail = 0
      /\ stqUsage = 0 /\ stqHeader = 0 /\ stqTail = 0
      /\ ldq = [p \in LdqSlots |-> NewLoad]
      /\ stq = [p \in StqSlots |-> NewStore]
      /\ mem \in [Addr -> Value] /\ inflight = {} /\ iew = {}
      /\ window = << >> /\ target = 0 /\ waiting = FALSE
  BY DEF Init, Ldq!Init, Stq!Init, Ldq!Slots, Stq!Slots, LdqSlots, StqSlots
<1>2. /\ NewLoad \in LoadEntry /\ ~NewLoad.addressReady
      /\ NewLoad.state = "WaitSend"
      /\ NewStore \in StoreEntry /\ ~NewStore.addressReady
  BY LsqSizes
  DEF NewLoad, NewStore, LoadEntry, StoreEntry, States, AnyAddr, AnyValue
<1>3. LdqShape /\ StqShape
  BY <1>1, <1>2, LsqSizes
  DEF LdqShape, StqShape, Ldq!TypeOK, Stq!TypeOK, Ldq!CursorsAgree,
      Stq!CursorsAgree, Ldq!Slots, Stq!Slots, LdqSlots, StqSlots,
      Ldq!SlotAt, Stq!SlotAt
<1>4. /\ Len(window) = 0 /\ window \in Seq(WindowEntry)
      /\ \A op : InWindow(op) = {}
  <2>1. Len(window) = 0 /\ window \in Seq(WindowEntry)
    BY <1>1
  <2>2. DOMAIN window = {}
    BY <2>1
  <2>3. QED
    BY <2>1, <2>2 DEF InWindow
<1>5. /\ LiveLoads = {} /\ LiveStores = {}
  <2>1. /\ \A t \in LdqSlots : Ldq!Age(t) \in 0..(LdqSize - 1)
        /\ \A t \in LdqSlots : Ldq!Live(t) <=> Ldq!Age(t) < 0
    BY <1>1, <1>3, LdqGeometry DEF LdqSlots
  <2>2. /\ \A t \in StqSlots : Stq!Age(t) \in 0..(StqSize - 1)
        /\ \A t \in StqSlots : Stq!Live(t) <=> Stq!Age(t) < 0
    BY <1>1, <1>3, StqGeometry DEF StqSlots
  <2>3. LdqSize \in Nat /\ StqSize \in Nat
    BY LsqSizes
  <2>4. \A t \in LdqSlots : ~Ldq!Live(t)
    BY <2>1, <2>3
  <2>5. \A t \in StqSlots : ~Stq!Live(t)
    BY <2>2, <2>3
  <2>6. QED
    BY <2>4, <2>5 DEF LiveLoads, LiveStores
<1>6. TypeOK
  <2>1. PICK l : l = Len(window) /\ l = 0
    BY <1>4
  <2>2. 0 \in 0..l /\ l <= WindowSize
    BY <2>1, LsqSizes
  <2>3. waiting \in BOOLEAN
    BY <1>1
  <2>4. target \in 0..Len(window) /\ Len(window) <= WindowSize
    BY <1>1, <2>1, <2>2
  <2>5. QED
    BY <1>1, <1>3, <1>4, <2>3, <2>4 DEF TypeOK, LdqShape, StqShape
<1>7. Kinds /\ Addresses /\ Recovery
  BY <1>1, <1>2, <1>4 DEF Kinds, Addresses, Recovery
<1>8. /\ QueuesMatchWindow /\ LoadsAnswered /\ StoresCommit
      /\ WaitsForYoungestOlderStore
  BY <1>4, <1>5
  DEF QueuesMatchWindow, LoadsAnswered, StoresCommit,
      WaitsForYoungestOlderStore, Uncommitted
<1>9. AnswersFindTheirEntry /\ LateAddressHarmless /\ PipeIsOwn
  BY <1>1 DEF AnswersFindTheirEntry, LateAddressHarmless, PipeIsOwn
<1>10. QED
  BY <1>6, <1>7, <1>8, <1>9 DEF Entries

LEMMA EntriesNext ==
  ASSUME NoStoreExcepted
  PROVE  Entries /\ [Next]_vars => Entries'
<1> SUFFICES ASSUME Entries, [Next]_vars PROVE Entries'
  OBVIOUS
<1>1. ASSUME NEW i \in Insn, Allocate(i, FALSE)
      PROVE  Entries'
  BY <1>1, EntriesAllocate
<1>2. ASSUME NEW i \in Insn, i.op \in ExcpOps, Allocate(i, TRUE)
      PROVE  Entries'
  BY <1>2, EntriesAllocate DEF NoStoreExcepted
<1>3. ASSUME NEW y \in iew, WriteBack(y)
      PROVE  Entries'
  BY <1>3, EntriesWriteBackLoad, EntriesWriteBackStore, Typed
  DEF Entries, Pending
<1>4. CASE TryIssueLoad
  BY <1>4, EntriesTryIssueLoad
<1>5. CASE TryIssueStore
  BY <1>5, EntriesTryIssueStore
<1>6. ASSUME NEW r \in inflight, ReceiveResponse(r)
      PROVE  Entries'
  BY <1>6, EntriesReceiveResponse
<1>7. ASSUME NEW k \in DOMAIN window, NEW refused \in BOOLEAN,
             LoadDone(k, refused)
      PROVE  Entries'
  BY <1>7, EntriesLoadDone
<1>8. ASSUME NEW k \in DOMAIN window, NEW mispredicted \in BOOLEAN,
             BranchDone(k, mispredicted)
      PROVE  Entries'
  BY <1>8, EntriesBranchDone
<1>9. CASE RollBack
  BY <1>9, EntriesRollBack
<1>10. CASE CommitInsn
  BY <1>10, EntriesCommitInsn
<1>11. CASE Evaulate
  BY <1>11, EntriesEvaulate
<1>12. CASE UNCHANGED vars
  <2>1. /\ UNCHANGED <<ldq, ldqHeader, ldqTail, ldqUsage>>
        /\ UNCHANGED <<stq, stqHeader, stqTail, stqUsage>>
        /\ UNCHANGED <<mem, inflight, iew, window, target, waiting>>
    BY <1>12 DEF vars, ldqVars, stqVars, robVars
  <2>2. /\ \A t \in LdqSlots : Ldq!Live(t)' <=> Ldq!Live(t)
        /\ \A t \in StqSlots : Stq!Live(t)' <=> Stq!Live(t)
    BY <2>1, LdqStill, StqStill, Typed DEF Entries
  <2>3. AnswersFindTheirEntry'
    BY <2>1, <2>2 DEF Entries, AnswersFindTheirEntry, Kinds
  <2>4. QED
    BY <2>1, <2>3, Transfer, Typed DEF Entries, Kinds, Addresses, TypeOK
<1>13. QED
  BY <1>1, <1>2, <1>3, <1>4, <1>5, <1>6, <1>7, <1>8, <1>9, <1>10, <1>11,
     <1>12 DEF Next

LEMMA EntriesAlways ==
  ASSUME NoStoreExcepted
  PROVE  Spec => []Entries
<1>1. Entries /\ [Next]_vars => Entries'
  BY EntriesNext
<1>2. QED
  BY <1>1, EntriesInit, PTL DEF Spec

(* The queues, the window and what is on its way stay of their types: in   *)
(* particular memory only ever receives values, at addresses it has,       *)
(* though Lsq::TryIssueStore takes both from an entry that the store unit  *)
(* may have filled long before.                                            *)
THEOREM LsqTypeCorrect ==
  ASSUME NoStoreExcepted
  PROVE  Spec => []TypeOK
BY EntriesAlways, PTL DEF Entries

(* KillStoreEntry drops the store it is called for although it ignores its *)
(* argument, CommitStoreEntry and CommitLoadEntry find their entry, and no *)
(* entry outlives its instruction unmarked.                                *)
THEOREM QueuesCorrect ==
  ASSUME NoStoreExcepted
  PROVE  Spec => []QueuesMatchWindow
BY EntriesAlways, PTL DEF Entries

(* The one tag CreateLdqEntry records and the one clearing of it in        *)
(* Lsq::Evaulate make a load wait for all stores before it and for nothing *)
(* else, however often slots were reused or rolled back in between.        *)
THEOREM DependencyCorrect ==
  ASSUME NoStoreExcepted
  PROVE  Spec => []WaitsForYoungestOlderStore
BY EntriesAlways, PTL DEF Entries

(* ReceiveResponse, which indexes the queue by the transaction number,     *)
(* never writes to an entry given to another instruction meanwhile: this   *)
(* is what the wait of killed loads for their answer is for.               *)
THEOREM AnswersCorrect ==
  ASSUME NoStoreExcepted
  PROVE  Spec => []AnswersFindTheirEntry
BY EntriesAlways, PTL DEF Entries

(* Lsq::WriteBack, which checks nothing, never gives an address to an      *)
(* entry of another instruction: the flush at the end of a recovery is in  *)
(* time.                                                                   *)
THEOREM LateAddressCorrect ==
  ASSUME NoStoreExcepted
  PROVE  Spec => []LateAddressHarmless
BY EntriesAlways, PTL DEF Entries

-----------------------------------------------------------------------------
(***************************************************************************)
(* The memory the program sees.  Lsq implements InOrderMemory: whatever    *)
(* the queues, the ports and the recoveries do, the program sees a memory  *)
(* that every instruction accesses at the moment it retires.  On top of    *)
(* Entries this needs what the entries hold: a load that was sent has, on  *)
(* its way or at hand, what memory still contains at its address, because  *)
(* nothing that could change it before the load retires is older than it.  *)
(***************************************************************************)

(* The inductive invariant.                                                *)

(* An entry that has an address has that of its instruction, and a store   *)
(* its data.                                                               *)
AddressesAreOwn ==
  /\ \A k \in InWindow("LDU") :
       LET e == ldq[window[k].tag]
       IN  ~window[k].isExcp /\ e.addressReady => e.address = window[k].addr
  /\ \A k \in InWindow("STU") :
       LET e == stq[window[k].tag]
       IN  e.addressReady =>
             e.address = window[k].addr /\ e.data = window[k].data

(* A load is sent when no store before it is left, and from then on memory *)
(* keeps what it read.                                                     *)
LoadsCurrent ==
  \A k \in InWindow("LDU") : ~window[k].isExcp =>
    LET e == ldq[window[k].tag]
        now == mem[window[k].addr]
    IN  /\ e.state # "WaitSend" => ~e.hasDependancy
        /\ \A r \in inflight :
             r.op = "LDU" /\ r.tag = window[k].tag => r.value = now
        /\ e.state = "Executed" => e.result = now
        /\ window[k].done => window[k].result = now
        /\ ~window[k].done => window[k].result = NoValue

Contents ==
  /\ AddressesAreOwn
  /\ LoadsCurrent

-----------------------------------------------------------------------------
(* The abstract memory and the abstract window, read.                      *)

LEMMA SmallestOfSet ==
  ASSUME NEW T, T \subseteq Nat, T # {}
  PROVE  \E x \in T : \A y \in T : x <= y
<1> DEFINE R == OpToRel(<, Nat)
<1>1. IsWellFoundedOn(R, Nat)
  BY NatLessThanWellFounded
<1> HIDE DEF R
<1>2. PICK x \in T : \A y \in T : ~(<<y, x>> \in R)
  BY <1>1, WFMin
<1>3. \A y \in T : y < x => <<y, x>> \in R
  BY DEF R, OpToRel
<1>4. \A y \in T : ~(y < x)
  BY <1>2, <1>3
<1>5. \A y \in T : y \in Nat
  OBVIOUS
<1>6. x \in Nat
  BY <1>5
<1>7. \A y \in T : x <= y
  BY <1>4, <1>5, <1>6
<1>8. QED
  BY <1>7

Youngest(t, a) ==
  t \in Unsent(a) /\ \A s \in Unsent(a) : Stq!Age(s) <= Stq!Age(t)

(* What a word is: the data of the youngest store still to be sent to it.  *)
Holds(a, v) ==
  IF Unsent(a) = {} THEN v = mem[a]
  ELSE \E t \in StqSlots : Youngest(t, a) /\ v = stq[t].data

HoldsArchMem ==
  \A a \in Addr : \A v : Holds(a, v) <=> v = ArchMem[a]

LEMMA UnsentAreStores ==
  ASSUME StqShape, NEW a
  PROVE  \A t \in Unsent(a) :
           /\ t \in StqSlots /\ t \in LiveStores /\ Stq!Live(t)
           /\ Stq!Age(t) \in Nat /\ Stq!Age(t) < StqSize
           /\ stq[t].commited /\ stq[t].state = "WaitSend"
           /\ stq[t].address = a
<1>1. \A t \in StqSlots : Stq!Age(t) \in 0..(StqSize - 1)
  BY StqGeometry DEF StqSlots
<1>2. \A t \in StqSlots : Stq!Age(t) \in Nat /\ Stq!Age(t) < StqSize
  BY <1>1, LsqSizes
<1>3. QED
  BY <1>2 DEF Unsent, LiveStores

LEMMA ArchHolds == StqShape => HoldsArchMem
<1> SUFFICES ASSUME StqShape, NEW a \in Addr
             PROVE  \A v : Holds(a, v) <=> v = ArchMem[a]
  BY DEF HoldsArchMem
<1>1. CASE Unsent(a) = {}
  BY <1>1 DEF Holds, ArchMem
<1>2. CASE Unsent(a) # {}
  <2> DEFINE T == {StqSize - Stq!Age(t) : t \in Unsent(a)}
  <2>1. T \subseteq Nat /\ T # {}
    BY <1>2, UnsentAreStores, LsqSizes
  <2>2. PICK x \in T : \A y \in T : x <= y
    BY <2>1, SmallestOfSet
  <2>3. PICK u \in Unsent(a) : x = StqSize - Stq!Age(u)
    OBVIOUS
  <2>4. \A s \in Unsent(a) : Stq!Age(s) <= Stq!Age(u)
    BY <2>2, <2>3, UnsentAreStores, LsqSizes
  <2>5. \A t \in Unsent(a) :
          (\A s \in Unsent(a) : Stq!Age(s) <= Stq!Age(t)) => t = u
    <3>1. ASSUME NEW t \in Unsent(a),
                 \A s \in Unsent(a) : Stq!Age(s) <= Stq!Age(t)
          PROVE  t = u
      <4>1. Stq!Age(u) <= Stq!Age(t) /\ Stq!Age(t) <= Stq!Age(u)
        BY <2>4, <3>1
      <4>2. Stq!Age(u) = Stq!Age(t)
        BY <4>1, UnsentAreStores
      <4>3. QED
        BY <4>2, UnsentAreStores, StqGeometry
    <3>2. QED
      BY <3>1
  <2>6. u = CHOOSE t \in Unsent(a) :
              \A s \in Unsent(a) : Stq!Age(s) <= Stq!Age(t)
    BY <2>4, <2>5
  <2>7. ArchMem[a] = stq[u].data
    BY <1>2, <2>6 DEF ArchMem
  <2>8. \A t : Youngest(t, a) <=> t = u
    BY <2>4, <2>5 DEF Youngest
  <2>9. QED
    BY <1>2, <2>7, <2>8, UnsentAreStores DEF Holds
<1>3. QED
  BY <1>1, <1>2

Abstract(e) ==
  [op |-> e.op, addr |-> e.addr, data |-> e.data, result |-> e.result,
   isExcp |-> e.isExcp]

AbstractWindow ==
  /\ UnderWay \in Seq(M!Insn) /\ Len(UnderWay) = Len(window)
  /\ DOMAIN UnderWay = DOMAIN window
  /\ \A k \in DOMAIN window : UnderWay[k] = Abstract(window[k])

LEMMA UnderWayIs == TypeOK => AbstractWindow
<1> SUFFICES ASSUME TypeOK
             PROVE  AbstractWindow
  OBVIOUS
<1> USE DEF AbstractWindow
<1>1. /\ DOMAIN window = 1..Len(window) /\ Len(window) \in Nat
      /\ \A k \in DOMAIN window : window[k] \in WindowEntry
  BY Typed
<1>2. UnderWay = [k \in DOMAIN window |-> Abstract(window[k])]
  BY DEF UnderWay, Abstract
<1>3. \A k \in DOMAIN window : Abstract(window[k]) \in M!Insn
  BY <1>1 DEF Abstract, WindowEntry, M!Insn, M!Ops, Ops, AnyAddr, AnyValue
<1>4. UnderWay \in [1..Len(window) -> M!Insn]
  BY <1>1, <1>2, <1>3
<1>5. QED
  BY <1>1, <1>2, <1>4

LEMMA SequencesEqual ==
  ASSUME NEW A, NEW s \in Seq(A), NEW t \in Seq(A), Len(s) = Len(t),
         \A k \in 1..Len(s) : s[k] = t[k]
  PROVE  s = t
OBVIOUS

-----------------------------------------------------------------------------
(* What leaves the abstract memory and the abstract window alone.          *)

LEMMA WordSame ==
  ASSUME StqShape, StqShape', NEW a \in Addr,
         mem'[a] = mem[a], Unsent(a)' = Unsent(a),
         \A t \in Unsent(a) : stq'[t].data = stq[t].data,
         \A s, t \in Unsent(a) :
           Stq!Age(s)' <= Stq!Age(t)' <=> Stq!Age(s) <= Stq!Age(t)
  PROVE  ArchMem'[a] = ArchMem[a]
<1>1. HoldsArchMem /\ HoldsArchMem'
  <2>1. (StqShape => HoldsArchMem)'
    BY ArchHolds, PTL
  <2>2. QED
    BY <2>1, ArchHolds
<1>2. \A t : Youngest(t, a)' <=> Youngest(t, a)
  BY DEF Youngest
<1>3. ASSUME NEW v
      PROVE  Holds(a, v)' <=> Holds(a, v)
  BY <1>2 DEF Holds, Youngest
<1>4. Holds(a, ArchMem[a])
  BY <1>1 DEF HoldsArchMem
<1>5. PICK v : v = ArchMem[a]
  OBVIOUS
<1>6. Holds(a, v)'
  BY <1>3, <1>4, <1>5
<1>7. v = ArchMem'[a]
  BY <1>1, <1>6 DEF HoldsArchMem
<1>8. QED
  BY <1>5, <1>7

LEMMA MemorySame ==
  ASSUME StqShape, StqShape', mem' = mem,
         \A a \in Addr : Unsent(a)' = Unsent(a),
         \A t \in StqSlots : stq[t].commited => stq'[t].data = stq[t].data,
         \A s, t \in LiveStores : stq[s].state = "WaitSend"
                                    /\ stq[t].state = "WaitSend" =>
           (Stq!Age(s)' <= Stq!Age(t)' <=> Stq!Age(s) <= Stq!Age(t))
  PROVE  ArchMem' = ArchMem
<1>1. ASSUME NEW a \in Addr
      PROVE  ArchMem'[a] = ArchMem[a]
  BY <1>1, UnsentAreStores, WordSame
<1>2. QED
  BY <1>1 DEF ArchMem

LEMMA StoresSame ==
  ASSUME StqShape, StqShape', UNCHANGED <<stqVars, mem>>
  PROVE  ArchMem' = ArchMem
<1>1. \A t \in StqSlots : /\ Stq!Age(t)' = Stq!Age(t)
                          /\ Stq!Live(t)' <=> Stq!Live(t)
  BY DEF stqVars, Stq!Age, Stq!Live
<1>2. LiveStores' = LiveStores
  BY <1>1 DEF LiveStores
<1>3. \A a \in Addr : Unsent(a)' = Unsent(a)
  BY <1>2 DEF Unsent, stqVars
<1>4. QED
  BY <1>1, <1>3, MemorySame DEF stqVars, LiveStores

LEMMA WindowSame ==
  ASSUME DOMAIN window' = DOMAIN window,
         \A k \in DOMAIN window :
           /\ window'[k].op = window[k].op
           /\ window'[k].addr = window[k].addr
           /\ window'[k].data = window[k].data
           /\ window'[k].result = window[k].result
           /\ window'[k].isExcp = window[k].isExcp
  PROVE  UnderWay' = UnderWay
BY DEF UnderWay

(* LoadsCurrent for one load.                                              *)
Current(k) ==
  LET e == ldq[window[k].tag]
      now == mem[window[k].addr]
  IN  /\ e.state # "WaitSend" => ~e.hasDependancy
      /\ \A r \in inflight :
           r.op = "LDU" /\ r.tag = window[k].tag => r.value = now
      /\ e.state = "Executed" => e.result = now
      /\ window[k].done => window[k].result = now
      /\ ~window[k].done => window[k].result = NoValue

LEMMA CurrentMeans ==
  LoadsCurrent <=>
    \A k \in InWindow("LDU") : ~window[k].isExcp => Current(k)
BY DEF LoadsCurrent, Current

-----------------------------------------------------------------------------
(* Contents is inductive, and every step is one of the abstract memory.    *)

LEMMA ContentsWriteBackLoad ==
  ASSUME Entries, Entries', Contents, NEW y \in iew, WriteBack(y),
         y.op = "LDU"
  PROVE  Contents' /\ UNCHANGED M!vars
<1>1. /\ UNCHANGED <<stqVars, window, mem, inflight>>
      /\ Ldq!Write(y.tag, [ldq[y.tag] EXCEPT !.addressReady = TRUE,
                                             !.address = y.addr])
  BY DEF WriteBack
<1>2. /\ ldq \in [LdqSlots -> LoadEntry] /\ y.tag \in LdqSlots
      /\ StqShape /\ StqShape'
  BY Typed, HarmlessMeans DEF Entries, TypeOK, StqShape
<1>3. /\ ldq[y.tag] \in LoadEntry
      /\ ldq' = [ldq EXCEPT ![y.tag] = [ldq[y.tag] EXCEPT
                              !.addressReady = TRUE, !.address = y.addr]]
  BY <1>1, <1>2 DEF Ldq!Write
<1>4. /\ \A t \in LdqSlots :
           /\ ldq'[t].state = ldq[t].state
           /\ ldq'[t].hasDependancy = ldq[t].hasDependancy
           /\ ldq'[t].result = ldq[t].result
           /\ t # y.tag => ldq'[t] = ldq[t]
      /\ ldq'[y.tag].address = y.addr
  BY <1>2, <1>3 DEF LoadEntry
<1>5. \A op : InWindow(op)' = InWindow(op)
  BY <1>1 DEF InWindow
<1>6. ASSUME NEW k \in InWindow("LDU"), ~window[k].isExcp,
             window[k].tag = y.tag
      PROVE  window[k].addr = y.addr
  <2>1. Own(y)
    BY <1>6, Entered, HarmlessMeans
  <2>2. QED
    BY <1>6, <2>1, Entered DEF Own
<1>7. AddressesAreOwn'
  BY <1>1, <1>4, <1>5, <1>6, Entered DEF Contents, AddressesAreOwn, stqVars
<1>8. LoadsCurrent'
  BY <1>1, <1>4, <1>5, Entered DEF Contents, LoadsCurrent
<1>9. ArchMem' = ArchMem /\ UnderWay' = UnderWay
  BY <1>1, <1>2, StoresSame, WindowSame
<1>10. QED
  BY <1>7, <1>8, <1>9 DEF Contents, M!vars

LEMMA ContentsWriteBackStore ==
  ASSUME Entries, Entries', Contents, NEW y \in iew, WriteBack(y),
         y.op # "LDU"
  PROVE  Contents' /\ UNCHANGED M!vars
<1>1. /\ UNCHANGED <<ldqVars, mem, inflight>>
      /\ Stq!Write(y.tag, [stq[y.tag] EXCEPT !.addressReady = TRUE,
                                             !.address = y.addr,
                                             !.data = y.data])
      /\ window' = [k \in DOMAIN window |->
                      IF window[k].op = "STU" /\ window[k].tag = y.tag
                      THEN [window[k] EXCEPT !.done = TRUE]
                      ELSE window[k]]
  BY DEF WriteBack
<1>2. /\ stq \in [StqSlots -> StoreEntry] /\ y.tag \in StqSlots
      /\ StqShape /\ StqShape' /\ y.op = "STU" /\ y \in Pending
      /\ \A k \in DOMAIN window : window[k] \in WindowEntry
  BY Typed, HarmlessMeans DEF Entries, TypeOK, StqShape, Pending
<1>3. /\ stq[y.tag] \in StoreEntry
      /\ stq' = [stq EXCEPT ![y.tag] = [stq[y.tag] EXCEPT
                   !.addressReady = TRUE, !.address = y.addr,
                   !.data = y.data]]
      /\ UNCHANGED <<stqHeader, stqTail, stqUsage>>
  BY <1>1, <1>2 DEF Stq!Write
<1>4. /\ \A t \in StqSlots :
           /\ stq'[t].state = stq[t].state
           /\ stq'[t].commited = stq[t].commited
           /\ t # y.tag => stq'[t] = stq[t]
      /\ stq'[y.tag].address = y.addr /\ stq'[y.tag].data = y.data
  BY <1>2, <1>3 DEF StoreEntry
<1>5. /\ DOMAIN window' = DOMAIN window
      /\ \A k \in DOMAIN window :
           /\ window'[k].op = window[k].op /\ window'[k].tag = window[k].tag
           /\ window'[k].addr = window[k].addr
           /\ window'[k].data = window[k].data
           /\ window'[k].result = window[k].result
           /\ window'[k].isExcp = window[k].isExcp
           /\ window[k].op = "LDU" => window'[k] = window[k]
  BY <1>1, <1>2 DEF WindowEntry
<1>6. \A op : InWindow(op)' = InWindow(op)
  BY <1>5 DEF InWindow
<1>7. \A op : \A k \in InWindow(op) : k \in DOMAIN window
  BY DEF InWindow
<1>8. ASSUME NEW k \in InWindow("STU"), window[k].tag = y.tag
      PROVE  window[k].addr = y.addr /\ window[k].data = y.data
  <2>1. Own(y)
    BY <1>2, <1>8, Entered, HarmlessMeans
  <2>2. QED
    BY <1>2, <1>8, <2>1, Entered DEF Own
<1>9. AddressesAreOwn'
  <2>1. ASSUME NEW k \in InWindow("STU"), stq'[window'[k].tag].addressReady
        PROVE  /\ stq'[window'[k].tag].address = window'[k].addr
               /\ stq'[window'[k].tag].data = window'[k].data
    <3>1. /\ window[k].tag \in StqSlots /\ k \in DOMAIN window
          /\ window'[k].tag = window[k].tag
          /\ window'[k].addr = window[k].addr
          /\ window'[k].data = window[k].data
      BY <1>5, Entered
    <3>2. CASE window[k].tag = y.tag
      BY <1>4, <1>8, <3>1, <3>2
    <3>3. CASE window[k].tag # y.tag
      <4>1. stq'[window[k].tag] = stq[window[k].tag]
        BY <1>4, <3>1, <3>3
      <4>2. QED
        BY <2>1, <3>1, <4>1 DEF Contents, AddressesAreOwn
    <3>4. QED
      BY <3>2, <3>3
  <2>2. /\ InWindow("LDU")' = InWindow("LDU")
        /\ InWindow("STU")' = InWindow("STU")
        /\ \A k \in InWindow("LDU") : window'[k] = window[k]
    BY <1>5, <1>6 DEF InWindow
  <2>3. \A k \in InWindow("LDU") :
          ~window'[k].isExcp /\ ldq'[window'[k].tag].addressReady =>
            ldq'[window'[k].tag].address = window'[k].addr
    BY <1>1, <2>2 DEF Contents, AddressesAreOwn, ldqVars
  <2>4. QED
    BY <2>1, <2>2, <2>3 DEF AddressesAreOwn
<1>10. LoadsCurrent'
  BY <1>1, <1>5, <1>6, <1>7 DEF Contents, LoadsCurrent, ldqVars, InWindow
<1>11. ArchMem' = ArchMem
  <2>1. \A t \in StqSlots : /\ Stq!Age(t)' = Stq!Age(t)
                            /\ Stq!Live(t)' <=> Stq!Live(t)
    BY <1>3 DEF Stq!Age, Stq!Live
  <2>2. LiveStores' = LiveStores
    BY <2>1 DEF LiveStores
  <2>3. Stq!Live(y.tag) => ~stq[y.tag].commited
    <3>1. ASSUME Stq!Live(y.tag)
          PROVE  ~stq[y.tag].commited
      <4>1. Own(y)
        BY <1>2, <3>1, HarmlessMeans
      <4>2. QED
        BY <1>2, <4>1, Entered DEF Own
    <3>2. QED
      BY <3>1
  <2>4. \A a \in Addr : Unsent(a)' = Unsent(a)
    BY <1>4, <2>2, <2>3 DEF Unsent, LiveStores
  <2>5. \A t \in StqSlots : t \in LiveStores => t # y.tag \/ ~stq[t].commited
    BY <2>3 DEF LiveStores
  <2>6. ASSUME NEW a \in Addr
        PROVE  ArchMem'[a] = ArchMem[a]
    <3>1. \A t \in Unsent(a) : t \in StqSlots /\ stq'[t].data = stq[t].data
      BY <1>2, <1>4, <2>5, UnsentAreStores
    <3>2. QED
      BY <1>1, <1>2, <2>1, <2>4, <3>1, WordSame
  <2>7. QED
    BY <2>6 DEF ArchMem
<1>12. UnderWay' = UnderWay
  BY <1>5, WindowSame
<1>13. QED
  BY <1>9, <1>10, <1>11, <1>12 DEF Contents, M!vars

LEMMA ContentsTryIssueLoad ==
  ASSUME Entries, Entries', Contents, TryIssueLoad
  PROVE  Contents' /\ UNCHANGED M!vars
<1>1. PICK i \in 0..(ldqUsage - 1) :
        LET t == Ldq!SlotAt(i)
        IN  /\ MaySend(ldq[t]) /\ LoadGoes(ldq[t])
            /\ Ldq!Write(t, [ldq[t] EXCEPT !.state = "Inflight"])
            /\ ReceiveLoad(t, ldq[t].address)
            /\ UNCHANGED <<stqVars, iew, robVars>>
  BY DEF TryIssueLoad
<1> PICK u : u = Ldq!SlotAt(i)
  OBVIOUS
<1>2. /\ ldq \in [LdqSlots -> LoadEntry] /\ u \in LdqSlots
      /\ LdqShape /\ StqShape /\ StqShape'
      /\ DOMAIN window = 1..Len(window)
  <2>1. /\ ldq \in [LdqSlots -> LoadEntry] /\ LdqShape /\ StqShape /\ StqShape'
        /\ DOMAIN window = 1..Len(window)
    BY Typed DEF Entries, TypeOK, StqShape
  <2>2. i \in LdqSlots
    BY <2>1, LdqGeometry, LsqSizes DEF LdqSlots
  <2>3. QED
    BY <2>1, <2>2, LdqGeometry
<1>3. /\ ldq[u] \in LoadEntry
      /\ ldq' = [ldq EXCEPT ![u] = [ldq[u] EXCEPT !.state = "Inflight"]]
      /\ ldq[u].state = "WaitSend" /\ ~ldq[u].hasDependancy
      /\ ldq[u].addressReady
      /\ mem' = mem /\ window' = window
      /\ inflight' = inflight \union
           {[op |-> "LDU", tag |-> u, value |-> mem[ldq[u].address]]}
  BY <1>1, <1>2 DEF Ldq!Write, MaySend, LoadGoes, ReceiveLoad, robVars
<1>4. /\ \A t \in LdqSlots :
           /\ ldq'[t].addressReady = ldq[t].addressReady
           /\ ldq'[t].address = ldq[t].address
           /\ ldq'[t].hasDependancy = ldq[t].hasDependancy
           /\ ldq'[t].result = ldq[t].result
           /\ t # u => ldq'[t] = ldq[t]
      /\ ldq'[u].state = "Inflight"
  BY <1>2, <1>3 DEF LoadEntry
<1>5. \A op : InWindow(op)' = InWindow(op)
  BY <1>3 DEF InWindow
<1>6. AddressesAreOwn'
  BY <1>1, <1>3, <1>4, <1>5, Entered, SMTT(40) DEF Contents, AddressesAreOwn, stqVars
<1>7. ASSUME NEW k \in InWindow("LDU"), ~window[k].isExcp
      PROVE  Current(k)'
  <2>1. Current(k) /\ window[k].tag \in LdqSlots
    BY <1>7, CurrentMeans, Entered DEF Contents
  <2>2. CASE window[k].tag # u
    <3>1. ldq'[window[k].tag] = ldq[window[k].tag]
      BY <1>4, <2>1, <2>2
    <3>2. \A r \in inflight' : r.tag = window[k].tag => r \in inflight
      BY <1>3, <2>2
    <3>3. QED
      BY <1>3, <2>1, <3>1, <3>2 DEF Current
  <2>3. CASE window[k].tag = u
    <3>1. ldq[u].address = window[k].addr
      BY <1>3, <1>7, <2>3 DEF Contents, AddressesAreOwn
    <3>2. ~window[k].done
      BY <1>3, <1>7, <2>3 DEF Entries, LoadsAnswered
    <3>3. \A r \in inflight' :
            r.op = "LDU" /\ r.tag = u => r.value = mem[window[k].addr]
      BY <1>3, <2>1, <2>3, <3>1 DEF Current
    <3>4. QED
      BY <1>3, <1>4, <2>1, <2>3, <3>2, <3>3 DEF Current
  <2>4. QED
    BY <2>2, <2>3
<1>8. LoadsCurrent'
  BY <1>3, <1>5, <1>7 DEF LoadsCurrent, Current
<1>9. ArchMem' = ArchMem /\ UnderWay' = UnderWay
  BY <1>1, <1>2, <1>3, StoresSame, WindowSame
<1>10. QED
  BY <1>6, <1>8, <1>9 DEF Contents, M!vars

LEMMA ContentsReceiveResponse ==
  ASSUME Entries, Entries', Contents, NEW r \in inflight, ReceiveResponse(r)
  PROVE  Contents' /\ UNCHANGED M!vars
<1>1. /\ inflight' = inflight \ {r} /\ mem' = mem /\ window' = window
      /\ r \in Answers
      /\ StqShape /\ StqShape'
      /\ ldq \in [LdqSlots -> LoadEntry] /\ stq \in [StqSlots -> StoreEntry]
  BY Typed DEF ReceiveResponse, robVars, Entries, TypeOK, StqShape
<1>2. \A op : InWindow(op)' = InWindow(op)
  BY <1>1 DEF InWindow
<1>3. UnderWay' = UnderWay
  BY <1>1, WindowSame
<1>4. CASE r.op = "LDU"
  <2>1. /\ UNCHANGED stqVars
        /\ r.tag \in LdqSlots /\ ldq[r.tag].state = "Inflight"
        /\ ldq[r.tag] \in LoadEntry
    BY <1>1, <1>4
    DEF ReceiveResponse, Entries, AnswersFindTheirEntry, Kinds
  <2>2. ldq' = [ldq EXCEPT ![r.tag] =
                  [ldq[r.tag] EXCEPT
                     !.state = "Executed",
                     !.result = IF ldq[r.tag].killed THEN ldq[r.tag].result
                                ELSE r.value]]
    BY <1>4, <2>1 DEF ReceiveResponse, Ldq!Write
  <2>3. /\ \A t \in LdqSlots :
             /\ ldq'[t].addressReady = ldq[t].addressReady
             /\ ldq'[t].address = ldq[t].address
             /\ ldq'[t].hasDependancy = ldq[t].hasDependancy
             /\ t # r.tag => ldq'[t] = ldq[t]
        /\ ~ldq[r.tag].killed => ldq'[r.tag].result = r.value
    BY <1>1, <2>1, <2>2 DEF LoadEntry
  <2>4. AddressesAreOwn'
    BY <1>1, <1>2, <2>1, <2>3, Entered DEF Contents, AddressesAreOwn, stqVars
  <2>5. ASSUME NEW k \in InWindow("LDU"), ~window[k].isExcp
        PROVE  Current(k)'
    <3>1. Current(k) /\ window[k].tag \in LdqSlots
          /\ ~ldq[window[k].tag].killed
      BY <2>5, CurrentMeans, Entered DEF Contents
    <3>2. CASE window[k].tag # r.tag
      <4>1. ldq'[window[k].tag] = ldq[window[k].tag]
        BY <2>3, <3>1, <3>2
      <4>2. QED
        BY <1>1, <3>1, <4>1 DEF Current
    <3>3. CASE window[k].tag = r.tag
      <4>1. r.value = mem[window[k].addr] /\ ~ldq[r.tag].hasDependancy
        BY <1>4, <2>1, <3>1, <3>3 DEF Current
      <4>2. ldq'[r.tag].result = r.value /\ ~ldq'[r.tag].hasDependancy
        BY <2>1, <2>3, <3>1, <3>3, <4>1
      <4>3. QED
        BY <1>1, <3>1, <3>3, <4>1, <4>2 DEF Current
    <3>4. QED
      BY <3>2, <3>3
  <2>6. LoadsCurrent'
    BY <1>1, <1>2, <2>5 DEF LoadsCurrent, Current
  <2>7. ArchMem' = ArchMem
    BY <1>1, <2>1, StoresSame
  <2>8. QED
    BY <1>3, <2>4, <2>6, <2>7 DEF Contents, M!vars
<1>5. CASE r.op # "LDU"
  <2>1. /\ UNCHANGED ldqVars /\ r.op = "STU"
        /\ r.tag \in StqSlots /\ stq[r.tag].state = "Inflight"
        /\ stq[r.tag] \in StoreEntry
        /\ stq' = [stq EXCEPT ![r.tag] =
                     [stq[r.tag] EXCEPT !.state = "Executed"]]
        /\ UNCHANGED <<stqHeader, stqTail, stqUsage>>
    BY <1>1, <1>5
    DEF ReceiveResponse, Entries, AnswersFindTheirEntry, Kinds, Stq!Write,
        Answers
  <2>2. /\ \A t \in StqSlots :
             /\ stq'[t].addressReady = stq[t].addressReady
             /\ stq'[t].address = stq[t].address
             /\ stq'[t].data = stq[t].data
             /\ t # r.tag => stq'[t] = stq[t]
        /\ stq'[r.tag].state = "Executed"
    BY <1>1, <2>1 DEF StoreEntry
  <2>3. AddressesAreOwn'
    BY <1>1, <1>2, <2>1, <2>2, Entered DEF Contents, AddressesAreOwn, ldqVars
  <2>4. LoadsCurrent'
    BY <1>1, <1>2, <2>1 DEF Contents, LoadsCurrent, ldqVars
  <2>5. \A t \in StqSlots : /\ Stq!Age(t)' = Stq!Age(t)
                            /\ Stq!Live(t)' <=> Stq!Live(t)
    BY <2>1 DEF Stq!Age, Stq!Live
  <2>6. LiveStores' = LiveStores
    BY <2>5 DEF LiveStores
  <2>7. ASSUME NEW a \in Addr
        PROVE  Unsent(a)' = Unsent(a)
    <3>1. \A t \in LiveStores :
            /\ stq'[t].state = "WaitSend" => stq'[t] = stq[t]
            /\ stq[t].state = "WaitSend" => stq'[t] = stq[t]
      BY <2>1, <2>2 DEF LiveStores
    <3>2. QED
      BY <2>6, <3>1 DEF Unsent
  <2>8. ArchMem' = ArchMem
    BY <1>1, <2>2, <2>5, <2>7, MemorySame DEF LiveStores
  <2>9. QED
    BY <1>3, <2>3, <2>4, <2>8 DEF Contents, M!vars
<1>6. QED
  BY <1>4, <1>5

LEMMA ContentsBranchDone ==
  ASSUME Entries, Entries', Contents,
         NEW k \in DOMAIN window, NEW mispredicted, BranchDone(k, mispredicted)
  PROVE  Contents' /\ UNCHANGED M!vars
<1>1. /\ window[k].op = "BRU"
      /\ window' = [window EXCEPT ![k] = [@ EXCEPT !.done = TRUE]]
      /\ UNCHANGED <<ldqVars, stqVars, mem, inflight>>
      /\ StqShape /\ StqShape' /\ window[k] \in WindowEntry
  BY Typed DEF BranchDone, Entries, TypeOK, StqShape
<1>2. /\ DOMAIN window' = DOMAIN window
      /\ \A j \in DOMAIN window :
           /\ window'[j].op = window[j].op /\ window'[j].tag = window[j].tag
           /\ window'[j].addr = window[j].addr
           /\ window'[j].data = window[j].data
           /\ window'[j].result = window[j].result
           /\ window'[j].isExcp = window[j].isExcp
           /\ window[j].op # "BRU" => window'[j] = window[j]
  BY <1>1 DEF WindowEntry
<1>3. /\ InWindow("LDU")' = InWindow("LDU")
      /\ InWindow("STU")' = InWindow("STU")
  BY <1>2 DEF InWindow
<1>4. /\ \A j \in InWindow("LDU") : window'[j] = window[j]
      /\ \A j \in InWindow("STU") : window'[j] = window[j]
  BY <1>2 DEF InWindow
<1>5. AddressesAreOwn'
  <2>1. \A j \in InWindow("LDU") :
          ~window'[j].isExcp /\ ldq'[window'[j].tag].addressReady =>
            ldq'[window'[j].tag].address = window'[j].addr
    BY <1>1, <1>4 DEF Contents, AddressesAreOwn, ldqVars
  <2>2. \A j \in InWindow("STU") :
          stq'[window'[j].tag].addressReady =>
            /\ stq'[window'[j].tag].address = window'[j].addr
            /\ stq'[window'[j].tag].data = window'[j].data
    BY <1>1, <1>4 DEF Contents, AddressesAreOwn, stqVars
  <2>3. QED
    BY <1>3, <2>1, <2>2 DEF AddressesAreOwn
<1>6. LoadsCurrent'
  <2>1. ASSUME NEW j \in InWindow("LDU"), ~window'[j].isExcp
        PROVE  Current(j)'
    <3>1. Current(j) /\ window'[j] = window[j]
      BY <1>4, <2>1, CurrentMeans DEF Contents
    <3>2. QED
      BY <1>1, <3>1 DEF Current, ldqVars
  <2>2. QED
    BY <1>3, <2>1 DEF LoadsCurrent, Current
<1>7. ArchMem' = ArchMem /\ UnderWay' = UnderWay
  BY <1>1, <1>2, StoresSame, WindowSame
<1>8. QED
  BY <1>5, <1>6, <1>7 DEF Contents, M!vars

LEMMA ContentsLoadDone ==
  ASSUME Entries, Entries', Contents,
         NEW k \in DOMAIN window, NEW refused \in BOOLEAN, LoadDone(k, refused)
  PROVE  Contents' /\ M!Next
<1>1. /\ window[k].op = "LDU" /\ ~window[k].done
      /\ ldq[window[k].tag].state = "Executed"
      /\ window' = [window EXCEPT ![k] =
                      [@ EXCEPT !.done = TRUE, !.isExcp = refused,
                                !.result = IF refused THEN window[k].result
                                           ELSE ldq[window[k].tag].result]]
      /\ UNCHANGED <<ldqVars, stqVars, mem, inflight>>
  BY DEF LoadDone
<1>2. /\ StqShape /\ StqShape' /\ window[k] \in WindowEntry
      /\ TypeOK /\ TypeOK' /\ mem \in [Addr -> Value]
      /\ DOMAIN window = 1..Len(window)
  BY Typed DEF Entries, TypeOK, StqShape
<1>3. k \in InWindow("LDU") /\ window[k].addr \in Addr /\ ~window[k].isExcp
  BY <1>1 DEF InWindow, Entries, Kinds, Fields, Recovery
<1>4. /\ window[k].result = NoValue
      /\ ldq[window[k].tag].result = mem[window[k].addr]
      /\ Current(k)
  BY <1>1, <1>3, CurrentMeans DEF Contents, Current
<1>5. PICK v : v = IF refused THEN NoValue ELSE mem[window[k].addr]
  OBVIOUS
<1>6. /\ DOMAIN window' = DOMAIN window
      /\ \A j \in DOMAIN window :
           /\ window'[j].op = window[j].op /\ window'[j].tag = window[j].tag
           /\ window'[j].addr = window[j].addr
           /\ window'[j].data = window[j].data
           /\ j # k => window'[j] = window[j]
      /\ window'[k].done /\ window'[k].isExcp = refused
      /\ window'[k].result = v
  BY <1>1, <1>2, <1>4, <1>5 DEF WindowEntry
<1>7. \A op : InWindow(op)' = InWindow(op)
  BY <1>6 DEF InWindow
<1>8. \A op : \A j \in InWindow(op) : j \in DOMAIN window
  BY DEF InWindow
<1>9. AddressesAreOwn'
  BY <1>1, <1>3, <1>6, <1>7, <1>8, SMTT(40)
  DEF Contents, AddressesAreOwn, ldqVars, stqVars
<1>10. LoadsCurrent'
  <2>1. ASSUME NEW j \in InWindow("LDU"), ~window'[j].isExcp
        PROVE  Current(j)'
    <3>1. CASE j # k
      <4>1. Current(j) /\ window'[j] = window[j]
        BY <1>6, <1>8, <2>1, <3>1, CurrentMeans DEF Contents
      <4>2. QED
        BY <1>1, <4>1 DEF Current, ldqVars
    <3>2. CASE j = k
      <4>1. v = mem[window[k].addr]
        BY <1>5, <1>6, <2>1, <3>2
      <4>2. /\ window'[k].tag = window[k].tag
            /\ window'[k].addr = window[k].addr
            /\ window'[k].done /\ window'[k].result = v
        BY <1>6
      <4>3. QED
        BY <1>1, <1>4, <3>2, <4>1, <4>2 DEF Current, ldqVars
    <3>3. QED
      BY <3>1, <3>2
  <2>2. QED
    BY <1>7, <2>1 DEF LoadsCurrent, Current
<1>11. ArchMem' = ArchMem
  BY <1>1, <1>2, StoresSame
<1>12. /\ k \in 1..Len(UnderWay) /\ UnderWay[k].op = "LDU"
       /\ UnderWay' = [UnderWay EXCEPT ![k] =
                         [@ EXCEPT !.result = v, !.isExcp = refused]]
  <2>1. /\ DOMAIN UnderWay = DOMAIN window /\ Len(UnderWay) = Len(window)
        /\ \A j \in DOMAIN window : UnderWay[j] = Abstract(window[j])
    BY <1>2, UnderWayIs DEF AbstractWindow
  <2>2. /\ UnderWay = [j \in DOMAIN window |-> Abstract(window[j])]
        /\ UnderWay' = [j \in DOMAIN window |-> Abstract(window'[j])]
    BY <1>6 DEF UnderWay, Abstract
  <2>3. Abstract(window'[k]) =
          [Abstract(window[k]) EXCEPT !.result = v, !.isExcp = refused]
    <3>1. /\ window'[k].op = window[k].op
          /\ window'[k].addr = window[k].addr
          /\ window'[k].data = window[k].data
          /\ window'[k].result = v /\ window'[k].isExcp = refused
      BY <1>6
    <3>2. /\ Abstract(window[k]) \in M!Insn
          /\ Abstract(window'[k]) \in M!Insn
      <4>1. (TypeOK => AbstractWindow)'
        BY UnderWayIs, PTL
      <4>2. \A j \in DOMAIN window : UnderWay[j] = Abstract(window[j])
                                     /\ UnderWay[j] \in M!Insn
        BY <1>2, UnderWayIs DEF AbstractWindow
      <4>3. UnderWay'[k] = Abstract(window'[k]) /\ UnderWay'[k] \in M!Insn
        BY <1>2, <1>6, <4>1 DEF AbstractWindow
      <4>4. QED
        BY <4>2, <4>3
    <3> PICK e, d : e = Abstract(window[k]) /\ d = Abstract(window'[k])
      OBVIOUS
    <3>3. /\ d.op = e.op /\ d.addr = e.addr /\ d.data = e.data
          /\ d.result = v /\ d.isExcp = refused
      BY <3>1 DEF Abstract
    <3>4. d = [e EXCEPT !.result = v, !.isExcp = refused]
      BY <3>2, <3>3 DEF M!Insn
    <3>5. QED
      BY <3>4
  <2>4. QED
    BY <1>1, <1>2, <1>6, <2>1, <2>2, <2>3, ZenonT(40) DEF Abstract
<1>13. M!Next
  <2>1. CASE refused
    <3>1. M!Answer(k, NoValue, TRUE)
      BY <1>5, <1>11, <1>12, <2>1 DEF M!Answer
    <3>2. QED
      BY <1>12, <3>1 DEF M!Next
  <2>2. CASE ~refused
    <3>1. M!Answer(k, v, FALSE) /\ v \in Value
      BY <1>2, <1>3, <1>5, <1>11, <1>12, <2>2 DEF M!Answer
    <3>2. QED
      BY <1>12, <3>1 DEF M!Next
  <2>3. QED
    BY <2>1, <2>2
<1>14. QED
  BY <1>9, <1>10, <1>13 DEF Contents

(* The store that is sent is the oldest to be sent, so that what is in     *)
(* memory only catches up; and every load of the window waits for it.      *)
LEMMA ContentsTryIssueStore ==
  ASSUME Entries, Entries', Contents, TryIssueStore
  PROVE  Contents' /\ UNCHANGED M!vars
<1>1. PICK i \in 0..(stqUsage - 1) :
        /\ stq[Stq!SlotAt(i)].state = "WaitSend" /\ stq[Stq!SlotAt(i)].commited
        /\ \A j \in 0..(i - 1) : stq[Stq!SlotAt(j)].state # "WaitSend"
        /\ Stq!Write(Stq!SlotAt(i),
                     [stq[Stq!SlotAt(i)] EXCEPT !.state = "Inflight"])
        /\ ReceiveStore(Stq!SlotAt(i), stq[Stq!SlotAt(i)].address,
                        stq[Stq!SlotAt(i)].data)
        /\ UNCHANGED <<ldqVars, iew, robVars>>
  BY DEF TryIssueStore, StoreGoes
<1>2. /\ stq \in [StqSlots -> StoreEntry] /\ StqShape /\ StqShape'
      /\ stqUsage \in 0..StqSize /\ StqSize \in Nat
      /\ mem \in [Addr -> Value]
      /\ \A t \in StqSlots : Stq!Age(t) \in Nat /\ Stq!Age(t) < StqSize
  <2>1. /\ stq \in [StqSlots -> StoreEntry] /\ StqShape /\ StqShape'
        /\ mem \in [Addr -> Value]
    BY Typed DEF Entries, TypeOK, StqShape
  <2>2. \A t \in StqSlots : Stq!Age(t) \in 0..(StqSize - 1)
    BY <2>1, StqGeometry DEF StqSlots
  <2>3. QED
    BY <2>1, <2>2, StqGeometry, LsqSizes
<1>3. PICK u \in StqSlots : /\ u = Stq!SlotAt(i) /\ Stq!Live(u)
                            /\ Stq!Age(u) = i
  <2>1. i \in StqSlots /\ i < stqUsage
    BY <1>2 DEF StqSlots
  <2>2. QED
    BY <1>2, <2>1, StqGeometry
<1>4. \A s \in StqSlots : stq[s].state = "WaitSend" => Stq!Age(u) <= Stq!Age(s)
  <2>1. ASSUME NEW s \in StqSlots, stq[s].state = "WaitSend",
               ~(Stq!Age(u) <= Stq!Age(s))
        PROVE  FALSE
    <3>1. Stq!Age(s) \in 0..(i - 1) /\ Stq!SlotAt(Stq!Age(s)) = s
      BY <1>2, <1>3, <2>1, StqGeometry
    <3>2. QED
      BY <1>1, <2>1, <3>1
  <2>2. QED
    BY <2>1
<1>5. /\ stq[u] \in StoreEntry
      /\ stq[u].state = "WaitSend" /\ stq[u].commited
      /\ stq[u].address \in Addr /\ stq[u].data \in Value
  BY <1>1, <1>2, <1>3 DEF Entries, StoresCommit, LiveStores, Addresses
<1>6. /\ stq' = [stq EXCEPT ![u] = [stq[u] EXCEPT !.state = "Inflight"]]
      /\ inflight' = inflight \union
           {[op |-> "STU", tag |-> u, value |-> NoValue]}
      /\ mem' = [mem EXCEPT ![stq[u].address] = stq[u].data]
      /\ UNCHANGED <<ldq, stqHeader, stqTail, stqUsage, window>>
  BY <1>1, <1>3 DEF Stq!Write, ReceiveStore, ldqVars, robVars
<1>7. /\ stq'[u].state = "Inflight"
      /\ \A s \in StqSlots :
           /\ stq'[s].commited = stq[s].commited
           /\ stq'[s].addressReady = stq[s].addressReady
           /\ stq'[s].address = stq[s].address
           /\ stq'[s].data = stq[s].data
           /\ s # u => stq'[s] = stq[s]
  BY <1>2, <1>5, <1>6 DEF StoreEntry
<1>8. \A op : InWindow(op)' = InWindow(op)
  BY <1>6 DEF InWindow
<1>9. AddressesAreOwn'
  BY <1>6, <1>7, <1>8, Entered DEF Contents, AddressesAreOwn
<1>10. ASSUME NEW k \in InWindow("LDU"), ~window[k].isExcp
       PROVE  Current(k)'
  <2>1. u \in Older(k)
    BY <1>3, <1>5 DEF Older, LiveStores, Uncommitted
  <2>2. ldq[window[k].tag].hasDependancy
    BY <1>10, <2>1, WaitsMeans DEF Waits, Entries
  <2>3. Current(k) /\ ldq[window[k].tag].state = "WaitSend"
    BY <1>10, <2>2, CurrentMeans DEF Contents, Current
  <2>4. ~window[k].done
    BY <1>10, <2>3 DEF Entries, LoadsAnswered
  <2>5. \A r \in inflight' : ~(r.op = "LDU" /\ r.tag = window[k].tag)
    BY <1>6, <2>3 DEF Entries, AnswersFindTheirEntry
  <2>6. QED
    BY <1>6, <2>2, <2>3, <2>4, <2>5 DEF Current
<1>11. LoadsCurrent'
  BY <1>6, <1>8, <1>10 DEF LoadsCurrent, Current
<1>12. /\ \A t \in StqSlots : /\ Stq!Age(t)' = Stq!Age(t)
                              /\ Stq!Live(t)' <=> Stq!Live(t)
       /\ LiveStores' = LiveStores
  <2>1. \A t \in StqSlots : /\ Stq!Age(t)' = Stq!Age(t)
                            /\ Stq!Live(t)' <=> Stq!Live(t)
    BY <1>6 DEF Stq!Age, Stq!Live
  <2>2. QED
    BY <2>1 DEF LiveStores
<1>13. \A a : Unsent(a)' = Unsent(a) \ {u}
  <2>1. \A t \in LiveStores : t \in StqSlots
    BY DEF LiveStores
  <2>2. QED
    BY <1>7, <1>12, <2>1 DEF Unsent
<1>14. ASSUME NEW a \in Addr
       PROVE  ArchMem'[a] = ArchMem[a]
  <2>1. CASE a # stq[u].address
    <3>1. u \notin Unsent(a) /\ mem'[a] = mem[a]
      BY <1>2, <1>6, <2>1 DEF Unsent
    <3>2. \A t \in Unsent(a) : t \in StqSlots
      BY <1>2, UnsentAreStores
    <3>3. Unsent(a)' = Unsent(a)
      BY <1>13, <3>1
    <3>4. QED
      BY <1>2, <1>7, <1>12, <3>1, <3>2, <3>3, WordSame
  <2>2. CASE a = stq[u].address
    <3>1. u \in Unsent(a) /\ mem'[a] = stq[u].data
      BY <1>2, <1>3, <1>5, <1>6, <2>2 DEF Unsent, LiveStores
    <3>2. /\ \A v : Holds(a, v) <=> v = ArchMem[a]
          /\ \A v : Holds(a, v)' <=> v = ArchMem'[a]
      <4>1. (StqShape => HoldsArchMem)'
        BY ArchHolds, PTL
      <4>2. QED
        BY <1>2, <4>1, ArchHolds DEF HoldsArchMem
    <3>3. PICK v : v = ArchMem[a]
      OBVIOUS
    <3>4. PICK t \in StqSlots : Youngest(t, a) /\ v = stq[t].data
      BY <3>1, <3>2, <3>3 DEF Holds
    <3>5. CASE t = u
      <4>1. \A s \in Unsent(a) : s = u
        <5>1. \A s \in Unsent(a) : /\ Stq!Age(s) <= Stq!Age(u)
                                   /\ Stq!Age(u) <= Stq!Age(s)
                                   /\ s \in StqSlots
          BY <1>2, <1>4, <3>4, <3>5, UnsentAreStores DEF Youngest
        <5>2. \A s \in Unsent(a) : Stq!Age(s) = Stq!Age(u)
          BY <1>2, <5>1
        <5>3. QED
          BY <1>2, <5>1, <5>2, StqGeometry
      <4>2. Unsent(a)' = {}
        BY <1>13, <4>1
      <4>3. Holds(a, v)'
        BY <3>1, <3>4, <3>5, <4>2 DEF Holds
      <4>4. QED
        BY <3>2, <3>3, <4>3
    <3>6. CASE t # u
      <4>1. \A s \in Unsent(a) : s \in StqSlots
        BY <1>2, UnsentAreStores
      <4>2. t \in Unsent(a)' /\ Youngest(t, a)'
        BY <1>12, <1>13, <3>4, <3>6, <4>1 DEF Youngest
      <4>3. Holds(a, v)'
        BY <1>7, <3>4, <4>2 DEF Holds
      <4>4. QED
        BY <3>2, <3>3, <4>3
    <3>7. QED
      BY <3>5, <3>6
  <2>3. QED
    BY <2>1, <2>2
<1>15. ArchMem' = ArchMem /\ UnderWay' = UnderWay
  <2>1. ArchMem' = ArchMem
    BY <1>14 DEF ArchMem
  <2>2. QED
    BY <1>6, <2>1, WindowSame
<1>16. QED
  BY <1>9, <1>11, <1>15 DEF Contents, M!vars

LEMMA ContentsEvaulate ==
  ASSUME Entries, Entries', Contents, Evaulate
  PROVE  Contents' /\ UNCHANGED M!vars
<1>1. PICK n \in 0..stqUsage, m \in 0..ldqUsage :
        /\ \A j \in 0..(n - 1) : stq[Stq!SlotAt(j)].state = "Executed"
        /\ stqHeader' = Stq!SlotAt(n) /\ stqUsage' = stqUsage - n
        /\ ldq' = ClearDependancy({Stq!SlotAt(j) : j \in 0..(n - 1)})
        /\ UNCHANGED <<ldqTail, stq, stqTail, mem, inflight, iew, robVars>>
  BY DEF Evaulate
<1>2. /\ ldq \in [LdqSlots -> LoadEntry] /\ stq \in [StqSlots -> StoreEntry]
      /\ StqShape /\ StqShape'
      /\ stqUsage \in 0..StqSize /\ StqSize \in Nat
      /\ \A t \in StqSlots : Stq!Age(t) \in Nat /\ Stq!Age(t) < StqSize
  <2>1. /\ ldq \in [LdqSlots -> LoadEntry]
        /\ stq \in [StqSlots -> StoreEntry] /\ StqShape /\ StqShape'
    BY Typed DEF Entries, TypeOK, StqShape
  <2>2. \A t \in StqSlots : Stq!Age(t) \in 0..(StqSize - 1)
    BY <2>1, StqGeometry DEF StqSlots
  <2>3. QED
    BY <2>1, <2>2, StqGeometry, LsqSizes
<1>3. \A t \in StqSlots : Stq!Age(t) < n => stq[t].state = "Executed"
  <2>1. ASSUME NEW t \in StqSlots, Stq!Age(t) < n
        PROVE  stq[t].state = "Executed"
    <3>1. Stq!Age(t) \in 0..(n - 1) /\ Stq!SlotAt(Stq!Age(t)) = t
      BY <1>2, <2>1, StqGeometry
    <3>2. QED
      BY <1>1, <3>1
  <2>2. QED
    BY <2>1
<1>4. \A t \in LdqSlots :
        /\ ldq'[t].state = ldq[t].state
        /\ ldq'[t].addressReady = ldq[t].addressReady
        /\ ldq'[t].address = ldq[t].address
        /\ ldq'[t].result = ldq[t].result
        /\ ldq'[t].hasDependancy => ldq[t].hasDependancy
  <2>1. PICK P : ldq' = ClearDependancy(P)
    BY <1>1
  <2>2. \A t \in LdqSlots :
          ldq[t] \in LoadEntry
          /\ (ldq'[t] = ldq[t]
              \/ ldq'[t] = [ldq[t] EXCEPT !.hasDependancy = FALSE])
    BY <1>2, <2>1 DEF ClearDependancy
  <2>3. QED
    BY <2>2 DEF LoadEntry
<1>5. /\ UNCHANGED <<window, mem, inflight, stq>>
      /\ \A op : InWindow(op)' = InWindow(op)
  BY <1>1 DEF robVars, InWindow
<1>6. AddressesAreOwn'
  BY <1>4, <1>5, Entered DEF Contents, AddressesAreOwn
<1>7. ASSUME NEW k \in InWindow("LDU"), ~window[k].isExcp
      PROVE  Current(k)'
  <2>1. Current(k) /\ window[k].tag \in LdqSlots
    BY <1>7, CurrentMeans, Entered DEF Contents
  <2>2. QED
    BY <1>4, <1>5, <2>1 DEF Current
<1>8. LoadsCurrent'
  BY <1>5, <1>7 DEF LoadsCurrent, Current
<1>9. \A t \in StqSlots :
        /\ Stq!Live(t)' <=> Stq!Live(t) /\ Stq!Age(t) >= n
        /\ Stq!Live(t)' => Stq!Age(t)' = Stq!Age(t) - n
  BY <1>1, <1>2, <1>5, StqPops
<1>10. \A t \in LiveStores : stq[t].state = "WaitSend" =>
         /\ t \in StqSlots /\ Stq!Live(t)' /\ Stq!Age(t)' = Stq!Age(t) - n
  BY <1>1, <1>2, <1>3, <1>9 DEF LiveStores
<1>11. \A a \in Addr : Unsent(a)' = Unsent(a)
  <2>1. \A t : t \in LiveStores' => t \in LiveStores
    BY <1>9 DEF LiveStores
  <2>2. \A t : t \in LiveStores /\ stq[t].state = "WaitSend" =>
          t \in LiveStores'
    BY <1>10 DEF LiveStores
  <2>3. QED
    BY <1>5, <2>1, <2>2 DEF Unsent
<1>12. \A s, t \in LiveStores :
         stq[s].state = "WaitSend" /\ stq[t].state = "WaitSend" =>
           (Stq!Age(s)' <= Stq!Age(t)' <=> Stq!Age(s) <= Stq!Age(t))
  <2>1. ASSUME NEW s \in LiveStores, NEW t \in LiveStores,
               stq[s].state = "WaitSend", stq[t].state = "WaitSend"
        PROVE  Stq!Age(s)' <= Stq!Age(t)' <=> Stq!Age(s) <= Stq!Age(t)
    <3>1. /\ Stq!Age(s)' = Stq!Age(s) - n /\ Stq!Age(t)' = Stq!Age(t) - n
          /\ Stq!Age(s) \in Nat /\ Stq!Age(t) \in Nat /\ n \in Nat
      BY <1>2, <1>10, <2>1
    <3>2. QED
      BY <3>1
  <2>2. QED
    BY <2>1
<1>13. ArchMem' = ArchMem /\ UnderWay' = UnderWay
  <2>1. ArchMem' = ArchMem
    BY <1>2, <1>5, <1>11, <1>12, MemorySame
  <2>2. QED
    BY <1>5, <2>1, WindowSame
<1>14. QED
  BY <1>6, <1>8, <1>13 DEF Contents, M!vars

LEMMA ContentsRollBack ==
  ASSUME Entries, Entries', Contents, RollBack
  PROVE  Contents' /\ [M!Next]_(M!vars)
<1> PICK n : n = Len(window)
  OBVIOUS
<1>1. /\ n \in Nat /\ DOMAIN window = 1..n /\ window \in Seq(WindowEntry)
      /\ target \in 1..n /\ n \in DOMAIN window /\ window # << >>
      /\ \A k \in DOMAIN window : window[k] \in WindowEntry
      /\ ldq \in [LdqSlots -> LoadEntry] /\ stq \in [StqSlots -> StoreEntry]
      /\ LdqShape /\ StqShape /\ StqShape' /\ TypeOK /\ TypeOK'
      /\ n > target \/ n = target
  BY Typed DEF RollBack, Entries, TypeOK, StqShape
<1>2. /\ window[n].isExcp => window[n].op # "STU"
      /\ window[n].op = "LDU" => window[n].tag \in LdqSlots
      /\ n = target /\ window[n].op = "LDU" => window[n].isExcp
  BY <1>1 DEF Entries, Recovery, Kinds, Fields
<1>3. /\ UNCHANGED <<mem, inflight>>
      /\ window' = IF n > target THEN SubSeq(window, 1, n - 1) ELSE window
      /\ UNCHANGED ldqVars
         \/ /\ window[n].op = "LDU"
            /\ Ldq!Write(window[n].tag,
                         [ldq[window[n].tag] EXCEPT !.killed = TRUE])
      /\ UNCHANGED stqVars \/ (window[n].op = "STU" /\ Stq!RollBack)
  BY <1>1 DEF RollBack, ReleaseResource
<1>4. \A t \in LdqSlots :
        /\ ldq'[t].state = ldq[t].state
        /\ ldq'[t].hasDependancy = ldq[t].hasDependancy
        /\ ldq'[t].result = ldq[t].result
        /\ ldq'[t].addressReady = ldq[t].addressReady
        /\ ldq'[t].address = ldq[t].address
  <2>1. CASE UNCHANGED ldqVars
    BY <2>1 DEF ldqVars
  <2>2. CASE /\ window[n].op = "LDU"
             /\ Ldq!Write(window[n].tag,
                          [ldq[window[n].tag] EXCEPT !.killed = TRUE])
    <3>1. ldq[window[n].tag] \in LoadEntry
      BY <1>1, <1>2, <2>2
    <3>2. QED
      BY <1>1, <1>2, <2>2, <3>1 DEF Ldq!Write, LoadEntry
  <2>3. QED
    BY <1>3, <2>1, <2>2
<1>5. PICK S : S = IF UNCHANGED stqVars THEN {} ELSE {window[n].tag}
  OBVIOUS
<1>6. /\ stq' = stq
      /\ \A t \in StqSlots : /\ Stq!Age(t)' = Stq!Age(t)
                             /\ Stq!Live(t)' <=> Stq!Live(t) /\ t \notin S
      /\ S \subseteq Uncommitted
  <2>1. CASE UNCHANGED stqVars
    <3>1. UNCHANGED <<stq, stqHeader, stqTail, stqUsage>> /\ S = {}
      BY <1>5, <2>1 DEF stqVars
    <3>2. QED
      BY <1>1, <3>1, StqStill
  <2>2. CASE ~UNCHANGED stqVars
    <3>1. S = {window[n].tag} /\ window[n].op = "STU" /\ Stq!RollBack
      BY <1>3, <1>5, <2>2
    <3>2. n \in InWindow("STU") /\ window[n].tag \in Uncommitted
          /\ window[n].tag \in StqSlots
      BY <1>1, <3>1, Entered DEF InWindow
    <3>3. Stq!Age(window[n].tag) = stqUsage - 1
      BY <1>1, <3>1, LastStoreIsYoungest
    <3>4. \A t \in StqSlots : Stq!Age(t) = stqUsage - 1 <=> t = window[n].tag
      BY <1>1, <3>2, <3>3, StqGeometry
    <3>5. QED
      BY <1>1, <3>1, <3>2, <3>4, StqRollBack
  <2>3. QED
    BY <2>1, <2>2
<1>7. /\ DOMAIN window' \subseteq DOMAIN window
      /\ \A k \in DOMAIN window' : window'[k] = window[k]
  BY <1>1, <1>3
<1>8. \A op : \A k \in InWindow(op)' :
        k \in InWindow(op) /\ window'[k] = window[k]
  BY <1>7 DEF InWindow
<1>9. AddressesAreOwn'
  <2>1. ASSUME NEW k \in InWindow("LDU")', ~window'[k].isExcp,
               ldq'[window'[k].tag].addressReady
        PROVE  ldq'[window'[k].tag].address = window'[k].addr
    <3>1. k \in InWindow("LDU") /\ window'[k] = window[k]
          /\ window[k].tag \in LdqSlots
      BY <1>8, Entered
    <3>2. QED
      BY <1>4, <2>1, <3>1 DEF Contents, AddressesAreOwn
  <2>2. ASSUME NEW k \in InWindow("STU")', stq'[window'[k].tag].addressReady
        PROVE  /\ stq'[window'[k].tag].address = window'[k].addr
               /\ stq'[window'[k].tag].data = window'[k].data
    BY <1>6, <1>8, <2>2 DEF Contents, AddressesAreOwn
  <2>3. QED
    BY <2>1, <2>2 DEF AddressesAreOwn
<1>10. LoadsCurrent'
  <2>1. ASSUME NEW k \in InWindow("LDU")', ~window'[k].isExcp
        PROVE  Current(k)'
    <3>1. k \in InWindow("LDU") /\ window'[k] = window[k]
          /\ window[k].tag \in LdqSlots
      BY <1>8, Entered
    <3>2. Current(k)
      BY <2>1, <3>1, CurrentMeans DEF Contents
    <3>3. QED
      BY <1>3, <1>4, <3>1, <3>2, ZenonT(40) DEF Current
  <2>2. QED
    BY <2>1 DEF LoadsCurrent, Current
<1>11. ArchMem' = ArchMem
  <2>1. LiveStores' = LiveStores \ S
    BY <1>6 DEF LiveStores
  <2>2. \A a \in Addr : Unsent(a)' = Unsent(a)
    BY <1>6, <2>1 DEF Unsent, Uncommitted
  <2>3. QED
    BY <1>1, <1>3, <1>6, <2>2, MemorySame DEF LiveStores
<1>12. [M!Next]_(M!vars)
  <2>1. CASE n > target
    <3>1. AbstractWindow /\ AbstractWindow'
      <4>1. (TypeOK => AbstractWindow)'
        BY UnderWayIs, PTL
      <4>2. QED
        BY <1>1, <4>1, UnderWayIs
    <3>2. /\ Len(UnderWay) = n /\ UnderWay \in Seq(M!Insn)
          /\ UnderWay' \in Seq(M!Insn) /\ Len(UnderWay') = n - 1
          /\ \A k \in 1..(n - 1) : UnderWay'[k] = UnderWay[k]
      <4>1. Len(window') = n - 1 /\ DOMAIN window' = 1..(n - 1)
        BY <1>1, <1>3, <2>1
      <4>2. QED
        BY <1>1, <1>7, <3>1, <4>1 DEF AbstractWindow, Abstract
    <3>3. UnderWay' = SubSeq(UnderWay, 1, Len(UnderWay) - 1)
      <4>1. /\ SubSeq(UnderWay, 1, n - 1) \in Seq(M!Insn)
            /\ Len(SubSeq(UnderWay, 1, n - 1)) = n - 1
            /\ \A k \in 1..(n - 1) :
                 SubSeq(UnderWay, 1, n - 1)[k] = UnderWay[k]
        BY <1>1, <3>2
      <4>2. UnderWay' = SubSeq(UnderWay, 1, n - 1)
        BY <1>1, <3>2, <4>1, SequencesEqual
      <4>3. QED
        BY <3>2, <4>2
    <3>4. UnderWay # << >>
      BY <1>1, <3>2
    <3>5. M!Squash
      BY <1>11, <3>3, <3>4 DEF M!Squash
    <3>6. QED
      BY <3>5 DEF M!Next
  <2>2. CASE ~(n > target)
    <3>1. UnderWay' = UnderWay
      BY <1>3, <2>2, WindowSame
    <3>2. QED
      BY <1>11, <3>1 DEF M!vars
  <2>3. QED
    BY <2>1, <2>2
<1>13. QED
  BY <1>9, <1>10, <1>12 DEF Contents

LEMMA RetiresTheOldest ==
  ASSUME AbstractWindow, AbstractWindow', window \in Seq(WindowEntry),
         window # << >>, window' = Tail(window)
  PROVE  /\ UnderWay # << >> /\ UnderWay' = Tail(UnderWay)
         /\ Head(UnderWay) = Abstract(window[1])
<1>1. PICK n \in Nat : n = Len(window) /\ n >= 1
  OBVIOUS
<1>2. /\ DOMAIN window = 1..n /\ Len(window') = n - 1
      /\ DOMAIN window' = 1..(n - 1) /\ 1 \in DOMAIN window
      /\ \A k \in 1..(n - 1) : window'[k] = window[k + 1]
                               /\ k + 1 \in DOMAIN window
  BY <1>1
<1>3. /\ UnderWay \in Seq(M!Insn) /\ Len(UnderWay) = n
      /\ UnderWay' \in Seq(M!Insn) /\ Len(UnderWay') = n - 1
      /\ UnderWay[1] = Abstract(window[1])
      /\ \A k \in 1..(n - 1) : UnderWay'[k] = UnderWay[k + 1]
  BY <1>1, <1>2, SMTT(40) DEF AbstractWindow, Abstract
<1>4. /\ UnderWay # << >> /\ Head(UnderWay) = UnderWay[1]
      /\ Tail(UnderWay) \in Seq(M!Insn) /\ Len(Tail(UnderWay)) = n - 1
      /\ \A k \in 1..(n - 1) : Tail(UnderWay)[k] = UnderWay[k + 1]
  BY <1>1, <1>3
<1>5. UnderWay' = Tail(UnderWay)
  BY <1>1, <1>3, <1>4, SequencesEqual
<1>6. QED
  BY <1>3, <1>4, <1>5

(* A store that commits becomes the youngest of those to be sent; a load   *)
(* that commits waits for none, so that there is none and it has what the  *)
(* abstract memory contains.                                               *)
LEMMA ContentsCommitInsn ==
  ASSUME Entries, Entries', Contents, CommitInsn
  PROVE  Contents' /\ M!Next
<1> PICK n : n = Len(window)
  OBVIOUS
<1> PICK e : e = window[1]
  OBVIOUS
<1>1. /\ n \in Nat /\ n >= 1 /\ DOMAIN window = 1..n /\ 1 \in DOMAIN window
      /\ window \in Seq(WindowEntry) /\ window # << >>
      /\ \A k \in DOMAIN window : window[k] \in WindowEntry
      /\ e \in WindowEntry /\ e.done
      /\ ldq \in [LdqSlots -> LoadEntry] /\ stq \in [StqSlots -> StoreEntry]
      /\ LdqShape /\ StqShape /\ StqShape' /\ TypeOK /\ TypeOK'
      /\ mem \in [Addr -> Value]
  BY Typed DEF CommitInsn, Entries, TypeOK, StqShape
<1>2. /\ e.isExcp => e.op # "STU"
      /\ e.op = "LDU" => e.tag \in LdqSlots /\ e.addr \in Addr
      /\ e.op = "STU" => e.tag \in StqSlots /\ e.addr \in Addr
                         /\ e.data \in Value
  BY <1>1 DEF Entries, Recovery, Kinds, Fields
<1>3. /\ UNCHANGED <<mem, inflight>> /\ window' = Tail(window)
      /\ UNCHANGED <<stqHeader, stqTail, stqUsage>>
      /\ IF e.op = "LDU" /\ ~e.isExcp
         THEN ldq' = [ldq EXCEPT ![e.tag] =
                        [ldq[e.tag] EXCEPT !.commited = TRUE]]
         ELSE ldq' = ldq
      /\ IF e.op = "STU"
         THEN stq' = [stq EXCEPT ![e.tag] =
                        [stq[e.tag] EXCEPT !.commited = TRUE]]
         ELSE stq' = stq
  BY <1>2 DEF CommitInsn, Ldq!Write, Stq!Write, ldqVars, stqVars
<1>4. /\ Len(window') = n - 1 /\ DOMAIN window' = 1..(n - 1)
      /\ \A k \in 1..(n - 1) : window'[k] = window[k + 1]
                               /\ k + 1 \in DOMAIN window
  BY <1>1, <1>3
<1>5. \A t \in LdqSlots :
        /\ ldq'[t].state = ldq[t].state
        /\ ldq'[t].hasDependancy = ldq[t].hasDependancy
        /\ ldq'[t].result = ldq[t].result
        /\ ldq'[t].addressReady = ldq[t].addressReady
        /\ ldq'[t].address = ldq[t].address
  <2>1. CASE e.op = "LDU" /\ ~e.isExcp
    <3>1. ldq[e.tag] \in LoadEntry /\ e.tag \in LdqSlots
      BY <1>1, <1>2, <2>1
    <3>2. \A t \in LdqSlots :
            ldq'[t] = IF t = e.tag THEN [ldq[e.tag] EXCEPT !.commited = TRUE]
                                   ELSE ldq[t]
      BY <1>1, <1>3, <2>1
    <3>3. QED
      BY <3>1, <3>2 DEF LoadEntry
  <2>2. CASE ~(e.op = "LDU" /\ ~e.isExcp)
    BY <1>3, <2>2
  <2>3. QED
    BY <2>1, <2>2
<1>6. PICK S : S = IF e.op = "STU" THEN {e.tag} ELSE {}
  OBVIOUS
<1>7. \A t \in StqSlots :
        /\ stq'[t].commited <=> stq[t].commited \/ t \in S
        /\ stq'[t].state = stq[t].state
        /\ stq'[t].addressReady = stq[t].addressReady
        /\ stq'[t].address = stq[t].address
        /\ stq'[t].data = stq[t].data
  <2>1. CASE e.op = "STU"
    <3>1. stq[e.tag] \in StoreEntry /\ e.tag \in StqSlots
      BY <1>1, <1>2, <2>1
    <3>2. QED
      BY <1>1, <1>3, <1>6, <2>1, <3>1 DEF StoreEntry
  <2>2. CASE e.op # "STU"
    BY <1>3, <1>6, <2>2
  <2>3. QED
    BY <2>1, <2>2
<1>8. \A op : \A k \in InWindow(op)' :
        k + 1 \in InWindow(op) /\ window'[k] = window[k + 1]
  BY <1>4 DEF InWindow
<1>9. AddressesAreOwn'
  <2>1. ASSUME NEW k \in InWindow("LDU")', ~window'[k].isExcp,
               ldq'[window'[k].tag].addressReady
        PROVE  ldq'[window'[k].tag].address = window'[k].addr
    <3>1. k + 1 \in InWindow("LDU") /\ window'[k] = window[k + 1]
          /\ window[k + 1].tag \in LdqSlots
      BY <1>8, Entered
    <3>2. QED
      BY <1>5, <2>1, <3>1 DEF Contents, AddressesAreOwn
  <2>2. ASSUME NEW k \in InWindow("STU")', stq'[window'[k].tag].addressReady
        PROVE  /\ stq'[window'[k].tag].address = window'[k].addr
               /\ stq'[window'[k].tag].data = window'[k].data
    <3>1. k + 1 \in InWindow("STU") /\ window'[k] = window[k + 1]
          /\ window[k + 1].tag \in StqSlots
      BY <1>8, Entered
    <3>2. QED
      BY <1>7, <2>2, <3>1 DEF Contents, AddressesAreOwn
  <2>3. QED
    BY <2>1, <2>2 DEF AddressesAreOwn
<1>10. LoadsCurrent'
  <2>1. ASSUME NEW k \in InWindow("LDU")', ~window'[k].isExcp
        PROVE  Current(k)'
    <3>1. PICK j \in InWindow("LDU") : window'[k] = window[j]
                                       /\ window[j].tag \in LdqSlots
      BY <1>8, Entered
    <3>2. Current(j)
      BY <2>1, <3>1, CurrentMeans DEF Contents
    <3>3. QED
      BY <1>3, <1>5, <3>1, <3>2, ZenonT(40) DEF Current
  <2>2. QED
    BY <2>1 DEF LoadsCurrent, Current
<1>11. /\ \A t \in StqSlots : /\ Stq!Age(t)' = Stq!Age(t)
                              /\ Stq!Live(t)' <=> Stq!Live(t)
       /\ LiveStores' = LiveStores
  <2>1. \A t \in StqSlots : /\ Stq!Age(t)' = Stq!Age(t)
                            /\ Stq!Live(t)' <=> Stq!Live(t)
    BY <1>3 DEF Stq!Age, Stq!Live
  <2>2. QED
    BY <2>1 DEF LiveStores
<1>12. CASE e.op # "STU"
  <2>1. \A a \in Addr : Unsent(a)' = Unsent(a)
    BY <1>3, <1>11, <1>12 DEF Unsent
  <2>2. ArchMem' = ArchMem
    BY <1>1, <1>3, <1>7, <1>11, <2>1, MemorySame DEF LiveStores
  <2>3. e.op = "LDU" /\ ~e.isExcp => e.result = ArchMem[e.addr]
    <3>1. ASSUME e.op = "LDU", ~e.isExcp
          PROVE  e.result = ArchMem[e.addr]
      <4>1. 1 \in InWindow("LDU") /\ e.addr \in Addr
        BY <1>1, <1>2, <3>1 DEF InWindow
      <4>2. Current(1) /\ Waits(1) /\ ldq[e.tag].state = "Executed"
        BY <1>1, <3>1, <4>1, CurrentMeans, WaitsMeans
        DEF Contents, Entries, LoadsAnswered
      <4>3. e.result = mem[e.addr] /\ ~ldq[e.tag].hasDependancy
        BY <1>1, <4>2 DEF Current
      <4>4. Older(1) = {}
        BY <4>2, <4>3 DEF Waits
      <4>5. Unsent(e.addr) = {}
        BY <4>4 DEF Older, Unsent, Uncommitted
      <4>6. QED
        BY <4>1, <4>3, <4>5 DEF ArchMem
    <3>2. QED
      BY <3>1
  <2>4. QED
    <3>1. /\ ArchMem' = ArchMem
          /\ e.op = "LDU" /\ ~e.isExcp => e.result = ArchMem[e.addr]
      BY <2>2, <2>3
    <3>2. AbstractWindow /\ AbstractWindow'
      <4>1. (TypeOK => AbstractWindow)'
        BY UnderWayIs, PTL
      <4>2. QED
        BY <1>1, <4>1, UnderWayIs
    <3>3. /\ UnderWay' = Tail(UnderWay) /\ UnderWay # << >>
          /\ Head(UnderWay).op = e.op /\ Head(UnderWay).addr = e.addr
          /\ Head(UnderWay).data = e.data
          /\ Head(UnderWay).result = e.result
          /\ Head(UnderWay).isExcp = e.isExcp
      BY <1>1, <1>3, <3>2, RetiresTheOldest DEF Abstract
    <3>4. M!Retire
      BY <1>12, <3>1, <3>3 DEF M!Retire
    <3>5. QED
      BY <1>9, <1>10, <3>4 DEF M!Next, Contents
<1>13. CASE e.op = "STU"
  <2>1. /\ 1 \in InWindow("STU") /\ e.tag \in Uncommitted /\ ~e.isExcp
        /\ e.tag \in StqSlots /\ e.tag \in LiveStores
        /\ stq[e.tag].state = "WaitSend" /\ stq[e.tag].addressReady
        /\ stq[e.tag].address = e.addr /\ stq[e.tag].data = e.data
    <3>1. /\ 1 \in InWindow("STU") /\ e.tag \in Uncommitted /\ ~e.isExcp
          /\ e.tag \in StqSlots
      BY <1>1, <1>13, Entered DEF InWindow
    <3>2. QED
      BY <1>1, <3>1
      DEF Entries, StoresCommit, Contents, AddressesAreOwn, Uncommitted
  <2>2. \A a : Unsent(a)' = Unsent(a) \union
                              (IF a = e.addr THEN {e.tag} ELSE {})
    <3>1. \A t \in LiveStores : t \in StqSlots
      BY DEF LiveStores
    <3>2. S = {e.tag}
      BY <1>6, <1>13
    <3>3. QED
      BY <1>7, <1>11, <2>1, <3>1, <3>2 DEF Unsent
  <2>3. \A a : \A s \in Unsent(a) :
          s \in StqSlots /\ Stq!Age(s) < Stq!Age(e.tag)
    <3>1. \A a : \A s \in Unsent(a) :
            s \in StqSlots /\ s \in LiveStores \ Uncommitted
      BY DEF Unsent, LiveStores, Uncommitted
    <3>2. QED
      BY <2>1, <3>1 DEF Entries, QueuesMatchWindow
  <2>4. ASSUME NEW a \in Addr, a # e.addr
        PROVE  ArchMem'[a] = ArchMem[a]
    <3>1. Unsent(a)' = Unsent(a)
      BY <2>2, <2>4
    <3>2. \A t \in Unsent(a) : t \in StqSlots /\ stq'[t].data = stq[t].data
      BY <1>7, <2>3
    <3>3. QED
      BY <1>1, <1>3, <1>11, <3>1, <3>2, WordSame
  <2>5. ArchMem'[e.addr] = e.data
    <3>1. \A t \in StqSlots : Stq!Age(t) \in Int
      BY <1>1, StqGeometry DEF StqSlots
    <3>2. \A s \in Unsent(e.addr)' :
            s \in StqSlots /\ Stq!Age(s)' <= Stq!Age(e.tag)'
      BY <1>11, <2>1, <2>2, <2>3, <3>1
    <3>3. e.tag \in Unsent(e.addr)'
      BY <2>2
    <3>4. PICK t : t = e.tag
      OBVIOUS
    <3>5. PICK a \in Addr : a = e.addr
      BY <1>2, <1>13
    <3>6. Youngest(t, a)'
      BY <3>2, <3>3, <3>4, <3>5 DEF Youngest
    <3>7. stq'[t].data = e.data /\ t \in StqSlots
      BY <1>7, <2>1, <3>4
    <3>8. PICK v : v = e.data
      OBVIOUS
    <3>9. Holds(a, v)'
      BY <3>3, <3>5, <3>6, <3>7, <3>8 DEF Holds
    <3>10. (StqShape => HoldsArchMem)'
      BY ArchHolds, PTL
    <3>11. v = ArchMem'[a]
      BY <1>1, <3>9, <3>10 DEF HoldsArchMem
    <3>12. QED
      BY <3>5, <3>8, <3>11
  <2>6. ArchMem' = [ArchMem EXCEPT ![e.addr] = e.data]
    <3>1. ArchMem = [a \in Addr |-> ArchMem[a]]
          /\ ArchMem' = [a \in Addr |-> ArchMem'[a]]
      BY DEF ArchMem
    <3>2. QED
      BY <1>2, <1>13, <2>4, <2>5, <3>1
  <2>7. QED
    <3>2. AbstractWindow /\ AbstractWindow'
      <4>1. (TypeOK => AbstractWindow)'
        BY UnderWayIs, PTL
      <4>2. QED
        BY <1>1, <4>1, UnderWayIs
    <3>3. /\ UnderWay' = Tail(UnderWay) /\ UnderWay # << >>
          /\ Head(UnderWay).op = e.op /\ Head(UnderWay).addr = e.addr
          /\ Head(UnderWay).data = e.data
          /\ Head(UnderWay).result = e.result
          /\ Head(UnderWay).isExcp = e.isExcp
      BY <1>1, <1>3, <3>2, RetiresTheOldest DEF Abstract
    <3>4. M!Retire
      BY <1>13, <2>1, <2>6, <3>3 DEF M!Retire
    <3>5. QED
      BY <1>9, <1>10, <3>4 DEF M!Next, Contents
<1>14. QED
  BY <1>12, <1>13

LEMMA ContentsAllocate ==
  ASSUME Entries, Entries', Contents, NEW i \in Insn, NEW excp \in BOOLEAN,
         Allocate(i, excp)
  PROVE  Contents' /\ M!Next
<1> PICK n : n = Len(window) + 1
  OBVIOUS
<1> PICK w : w = [op |-> i.op, addr |-> i.addr, data |-> i.data,
                  tag |-> CASE i.op = "LDU" -> ldqTail
                            [] i.op = "STU" -> stqTail
                            [] OTHER -> 0,
                  result |-> NoValue, done |-> excp, isExcp |-> excp]
  OBVIOUS
<1>1. /\ Len(window) \in Nat /\ DOMAIN window = 1..(n - 1) /\ n \in Nat
      /\ window \in Seq(WindowEntry) /\ Len(window) < WindowSize
      /\ ldq \in [LdqSlots -> LoadEntry] /\ stq \in [StqSlots -> StoreEntry]
      /\ LdqShape /\ StqShape /\ StqShape' /\ TypeOK /\ TypeOK'
      /\ ldqTail \in LdqSlots /\ stqTail \in StqSlots
      /\ AbstractWindow
  BY Typed, LdqGeometry, StqGeometry, UnderWayIs
  DEF Allocate, Entries, TypeOK, StqShape
<1>2. AbstractWindow'
  <2>1. (TypeOK => AbstractWindow)'
    BY UnderWayIs, PTL
  <2>2. QED
    BY <1>1, <2>1
<1>3. window' = Append(window, w) /\ UNCHANGED <<mem, inflight>>
  BY DEF Allocate
<1>4. /\ w.op = i.op /\ w.addr = i.addr /\ w.data = i.data
      /\ w.result = NoValue /\ (w.done <=> excp) /\ (w.isExcp <=> excp)
      /\ i.op = "LDU" => w.tag = ldqTail
      /\ i.op = "STU" => w.tag = stqTail
  OBVIOUS
<1>5. /\ DOMAIN window' = 1..n /\ Len(window') = n /\ window'[n] = w
      /\ \A k \in 1..(n - 1) : window'[k] = window[k] /\ k \in DOMAIN window
  BY <1>1, <1>3
<1>6. \A op : \A k \in InWindow(op)' :
        \/ k \in InWindow(op) /\ window'[k] = window[k]
        \/ k = n /\ window'[k] = w /\ i.op = op
  <2>1. \A k \in 1..n : k = n \/ k \in 1..(n - 1)
    BY <1>1
  <2>2. QED
    BY <1>4, <1>5, <2>1 DEF InWindow
<1>7. /\ \A t \in LdqSlots : Ldq!Live(t) => ldq'[t] = ldq[t]
      /\ i.op = "LDU" => /\ ldq'[ldqTail] = CreateLdqEntry
                         /\ ~Ldq!Live(ldqTail)
  <2>1. CASE i.op = "LDU"
    <3>1. CreateLdqEntry \in LoadEntry /\ Ldq!Push(CreateLdqEntry)
      BY <1>1, <2>1, FreshLoad DEF Allocate
    <3>2. QED
      BY <1>1, <3>1, LdqPush
  <2>2. CASE i.op # "LDU"
    BY <2>2 DEF Allocate, ldqVars
  <2>3. QED
    BY <2>1, <2>2
<1>8. PICK S : S = IF i.op = "STU" THEN {stqTail} ELSE {}
  OBVIOUS
<1>9. /\ \A t \in StqSlots :
           /\ Stq!Age(t)' = Stq!Age(t)
           /\ Stq!Live(t)' <=> Stq!Live(t) \/ t \in S
           /\ Stq!Live(t) => stq'[t] = stq[t] /\ t \notin S
      /\ \A t \in S : t \in StqSlots /\ ~stq'[t].commited
                                    /\ ~stq'[t].addressReady
  <2>1. CASE i.op = "STU"
    <3>1. /\ NewStore \in StoreEntry
          /\ ~NewStore.commited /\ ~NewStore.addressReady
      BY DEF NewStore, StoreEntry, States, AnyAddr, AnyValue
    <3>2. Stq!Push(NewStore) /\ S = {stqTail}
      BY <1>8, <2>1 DEF Allocate
    <3>3. QED
      BY <1>1, <3>1, <3>2, StqPush
  <2>2. CASE i.op # "STU"
    <3>1. UNCHANGED <<stq, stqHeader, stqTail, stqUsage>> /\ S = {}
      BY <1>8, <2>2 DEF Allocate, stqVars
    <3>2. QED
      BY <1>1, <3>1, StqStill
  <2>3. QED
    BY <2>1, <2>2
<1>10. AddressesAreOwn'
  <2>1. ASSUME NEW k \in InWindow("LDU")', ~window'[k].isExcp,
               ldq'[window'[k].tag].addressReady
        PROVE  ldq'[window'[k].tag].address = window'[k].addr
    <3>1. k \in InWindow("LDU") /\ window'[k] = window[k]
      <4>1. ~CreateLdqEntry.addressReady
        BY <1>1, FreshLoad
      <4>2. QED
        BY <1>4, <1>6, <1>7, <2>1, <4>1
    <3>2. ldq'[window[k].tag] = ldq[window[k].tag]
      BY <1>7, <2>1, <3>1, Entered
    <3>3. QED
      BY <2>1, <3>1, <3>2 DEF Contents, AddressesAreOwn
  <2>2. ASSUME NEW k \in InWindow("STU")', stq'[window'[k].tag].addressReady
        PROVE  /\ stq'[window'[k].tag].address = window'[k].addr
               /\ stq'[window'[k].tag].data = window'[k].data
    <3>1. k \in InWindow("STU") /\ window'[k] = window[k]
      BY <1>4, <1>6, <1>8, <1>9, <2>2
    <3>2. stq'[window[k].tag] = stq[window[k].tag]
      BY <1>9, <3>1, Entered
    <3>3. QED
      BY <2>2, <3>1, <3>2 DEF Contents, AddressesAreOwn
  <2>3. QED
    BY <2>1, <2>2 DEF AddressesAreOwn
<1>11. LoadsCurrent'
  <2>1. ASSUME NEW k \in InWindow("LDU")', ~window'[k].isExcp
        PROVE  Current(k)'
    <3>1. CASE k \in InWindow("LDU") /\ window'[k] = window[k]
      <4>1. Current(k) /\ ldq'[window[k].tag] = ldq[window[k].tag]
        BY <1>7, <2>1, <3>1, CurrentMeans, Entered DEF Contents
      <4>2. QED
        BY <1>3, <3>1, <4>1, ZenonT(40) DEF Current
    <3>2. CASE window'[k] = w /\ i.op = "LDU"
      <4>1. ~w.done /\ w.result = NoValue /\ w.tag = ldqTail
        BY <1>4, <2>1, <3>2
      <4>2. /\ ldq'[ldqTail].state = "WaitSend"
            /\ \A r \in inflight : ~(r.op = "LDU" /\ r.tag = ldqTail)
        BY <1>1, <1>7, <3>2, FreshLoad DEF Entries, AnswersFindTheirEntry
      <4>3. QED
        BY <1>3, <3>2, <4>1, <4>2 DEF Current
    <3>3. QED
      BY <1>6, <3>1, <3>2
  <2>2. QED
    BY <2>1 DEF LoadsCurrent, Current
<1>12. ArchMem' = ArchMem
  <2>1. /\ \A t \in LiveStores : t \in StqSlots /\ t \in LiveStores'
                                 /\ stq'[t] = stq[t]
        /\ \A t \in LiveStores' : t \in LiveStores \/ ~stq'[t].commited
    BY <1>9 DEF LiveStores
  <2>2. \A a \in Addr : Unsent(a)' = Unsent(a)
    BY <2>1 DEF Unsent
  <2>3. ASSUME NEW a \in Addr
        PROVE  ArchMem'[a] = ArchMem[a]
    <3>1. \A t \in Unsent(a) : t \in StqSlots /\ stq'[t] = stq[t]
      BY <2>1 DEF Unsent
    <3>2. QED
      BY <1>1, <1>3, <1>9, <2>2, <3>1, WordSame
  <2>4. QED
    BY <2>3 DEF ArchMem
<1>13. Abstract(w) \in M!Insn
  <2>1. UnderWay'[n] = Abstract(w)
    BY <1>1, <1>2, <1>5 DEF AbstractWindow
  <2>2. n \in 1..n /\ UnderWay' \in Seq(M!Insn) /\ Len(UnderWay') = n
    BY <1>1, <1>2, <1>5 DEF AbstractWindow
  <2>3. QED
    BY <2>1, <2>2
<1>14. UnderWay' = Append(UnderWay, Abstract(w))
  <2>1. /\ UnderWay \in Seq(M!Insn) /\ Len(UnderWay) = n - 1
        /\ UnderWay' \in Seq(M!Insn) /\ Len(UnderWay') = n
        /\ UnderWay'[n] = Abstract(w)
        /\ \A k \in 1..(n - 1) : UnderWay'[k] = UnderWay[k]
    <3>1. /\ UnderWay \in Seq(M!Insn) /\ Len(UnderWay) = n - 1
          /\ UnderWay' \in Seq(M!Insn) /\ Len(UnderWay') = n
          /\ UnderWay'[n] = Abstract(w)
      BY <1>1, <1>2, <1>5, SMTT(40) DEF AbstractWindow
    <3>2. ASSUME NEW k \in 1..(n - 1)
          PROVE  UnderWay'[k] = UnderWay[k]
      <4>1. k \in DOMAIN window /\ k \in DOMAIN window'
            /\ window'[k] = window[k]
        BY <1>1, <1>5
      <4>2. /\ UnderWay[k] = Abstract(window[k])
            /\ UnderWay'[k] = Abstract(window'[k])
        BY <1>1, <1>2, <4>1 DEF AbstractWindow
      <4>3. QED
        BY <4>1, <4>2 DEF Abstract
    <3>3. QED
      BY <3>1, <3>2
  <2>2. /\ Append(UnderWay, Abstract(w)) \in Seq(M!Insn)
        /\ Len(Append(UnderWay, Abstract(w))) = n
        /\ \A k \in 1..n : Append(UnderWay, Abstract(w))[k] = UnderWay'[k]
    BY <1>1, <1>13, <2>1
  <2>3. QED
    BY <2>1, <2>2, SequencesEqual
<1>15. M!Enter(Abstract(w))
  <2>1. Len(UnderWay) < WindowSize
    BY <1>1 DEF AbstractWindow
  <2>2. QED
    BY <1>12, <1>14, <2>1 DEF M!Enter
<1>16. QED
  BY <1>10, <1>11, <1>13, <1>15 DEF Contents, M!Next

-----------------------------------------------------------------------------
LEMMA ContentsInit == Init => Contents /\ M!Init
<1> SUFFICES ASSUME Init
             PROVE  Contents /\ M!Init
  OBVIOUS
<1>1. window = << >> /\ mem \in [Addr -> Value]
      /\ \A op : InWindow(op) = {}
  BY DEF Init, InWindow
<1>2. Contents
  BY <1>1 DEF Contents, AddressesAreOwn, LoadsCurrent
<1>3. ArchMem = mem
  <2>1. LiveStores = {}
    <3>1. stqUsage = 0 /\ Entries
      BY EntriesInit DEF Init, Stq!Init
    <3>2. \A t \in StqSlots : Stq!Age(t) \in StqSlots
      BY <3>1, Typed, StqGeometry DEF Entries
    <3>3. \A t \in StqSlots : ~(Stq!Age(t) < stqUsage)
      BY <3>1, <3>2, LsqSizes DEF StqSlots
    <3>4. QED
      BY <3>3 DEF LiveStores, Stq!Live
  <2>2. \A a \in Addr : Unsent(a) = {}
    BY <2>1 DEF Unsent
  <2>3. QED
    BY <1>1, <2>2 DEF ArchMem
<1>4. UnderWay = << >>
  BY <1>1 DEF UnderWay
<1>5. QED
  BY <1>1, <1>2, <1>3, <1>4 DEF M!Init

LEMMA ContentsNext ==
  ASSUME NoStoreExcepted
  PROVE  Entries /\ Entries' /\ Contents /\ [Next]_vars
           => Contents' /\ [M!Next]_(M!vars)
<1> SUFFICES ASSUME Entries, Entries', Contents, [Next]_vars
             PROVE  Contents' /\ [M!Next]_(M!vars)
  OBVIOUS
<1>1. ASSUME NEW i \in Insn, Allocate(i, FALSE)
      PROVE  Contents' /\ M!Next
  BY <1>1, ContentsAllocate
<1>2. ASSUME NEW i \in Insn, i.op \in ExcpOps, Allocate(i, TRUE)
      PROVE  Contents' /\ M!Next
  BY <1>2, ContentsAllocate
<1>3. ASSUME NEW y \in iew, WriteBack(y)
      PROVE  Contents' /\ UNCHANGED M!vars
  BY <1>3, ContentsWriteBackLoad, ContentsWriteBackStore
<1>4. ASSUME NEW r \in inflight, ReceiveResponse(r)
      PROVE  Contents' /\ UNCHANGED M!vars
  BY <1>4, ContentsReceiveResponse
<1>5. ASSUME NEW k \in DOMAIN window, NEW refused \in BOOLEAN,
             LoadDone(k, refused)
      PROVE  Contents' /\ M!Next
  BY <1>5, ContentsLoadDone
<1>6. ASSUME NEW k \in DOMAIN window, NEW mispredicted \in BOOLEAN,
             BranchDone(k, mispredicted)
      PROVE  Contents' /\ UNCHANGED M!vars
  BY <1>6, ContentsBranchDone
<1>7. CASE UNCHANGED vars
  <2>1. /\ UNCHANGED <<ldqVars, stqVars, mem, inflight, window>>
        /\ StqShape /\ StqShape'
    BY <1>7 DEF vars, robVars, Entries, TypeOK, StqShape
  <2>2. \A op : InWindow(op)' = InWindow(op)
    BY <2>1 DEF InWindow
  <2>3. AddressesAreOwn'
    BY <2>1, <2>2 DEF Contents, AddressesAreOwn, ldqVars, stqVars
  <2>4. LoadsCurrent'
    BY <2>1, <2>2 DEF Contents, LoadsCurrent, ldqVars
  <2>5. ArchMem' = ArchMem /\ UnderWay' = UnderWay
    BY <2>1, StoresSame, WindowSame
  <2>6. QED
    BY <2>3, <2>4, <2>5 DEF Contents, M!vars
<1>8. QED
  BY <1>1, <1>2, <1>3, <1>4, <1>5, <1>6, <1>7, ContentsTryIssueLoad,
     ContentsTryIssueStore, ContentsRollBack, ContentsCommitInsn,
     ContentsEvaulate
  DEF Next

(* The load and store queues implement a memory that every instruction     *)
(* accesses at the moment it retires: out of order and speculative loads,  *)
(* late stores, squashed instructions and late answers (Lsq.cc, with the   *)
(* units, the port and the recovery that drive it) never show in what a    *)
(* retired load has read or in what retired stores have left.              *)
THEOREM MemoryCorrect ==
  ASSUME NoStoreExcepted
  PROVE  Spec => ImplementsInOrderMemory
<1>1. Init => Contents /\ M!Init
  BY ContentsInit
<1>2. Entries /\ Entries' /\ Contents /\ [Next]_vars
        => Contents' /\ [M!Next]_(M!vars)
  BY ContentsNext
<1>3. Spec => []Entries
  BY EntriesAlways
<1>4. QED
  BY <1>1, <1>2, <1>3, PTL DEF Spec, ImplementsInOrderMemory, M!Spec
=============================================================================

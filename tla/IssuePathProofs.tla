---------------------------- MODULE IssuePathProofs ---------------------------
(***************************************************************************)
(* Proofs about the places of the issue path: an instruction is at one of  *)
(* them at most, it is expected by the re-order buffer or on its way out,  *)
(* and what that means for the recovery.  They are about the wirings in    *)
(* which a slot is claimed and filled at once, or in a queue that clears   *)
(* it (Orderly): in the others the properties are false.                   *)
(***************************************************************************)
EXTENDS IssueProofs, FiniteSetTheorems

\* The wirings in which a slot is claimed and filled at once, or in a queue
\* that clears it: no out-of-order queue, and in-order ones behind Dispatch
\* only.
Orderly ==
  /\ \A s \in DOMAIN cfg.sched : cfg.sched[s].order \in {"In-Order", "In-Age-Order"}
  /\ \A s \in DOMAIN cfg.sched : \A k \in DOMAIN cfg.sched[s].subs :
       cfg.sched[cfg.sched[s].subs[k]].order = "In-Age-Order"

-----------------------------------------------------------------------------
(* Where an instruction is: home says which part holds it, and a part      *)
(* holds it once.                                                          *)

AtSched(s) == <<"sched", s>>
AtPort(p) == <<"port", p>>
AtPipe(u) == <<"pipe", u>>
AtCache(u) == <<"dCache", u>>
AtLdq == <<"ldq", 0>>
AtWb(w) == <<"wb", w>>
Nowhere == <<"none", 0>>

IsAt(home, id, place) == id \in Ids /\ home[id] = place

\* What the name of an instruction is in a latch of instructions, and in one
\* of what goes through a read port.
Infos == [toFu : BOOLEAN, des : Nat, index : Int, id : Ids]
InsnName == [id \in Ids |-> id]
InfoName == [x \in Infos |-> x.id]

\* front and back: whether what is at the input and at the output still counts.
LatchHolds(b, front, back, name, home, place) ==
  /\ \A k \in DOMAIN b.queue : IsAt(home, name[b.queue[k].data], place)
  /\ \A j, k \in DOMAIN b.queue : name[b.queue[j].data] = name[b.queue[k].data] => j = k
  /\ front /\ b.in # <<>> =>
       /\ IsAt(home, name[b.in[1]], place)
       /\ \A k \in DOMAIN b.queue : name[b.queue[k].data] # name[b.in[1]]
  /\ back /\ b.out # <<>> =>
       /\ IsAt(home, name[b.out[1]], place)
       /\ \A k \in DOMAIN b.queue : name[b.queue[k].data] # name[b.out[1]]
  /\ front /\ back /\ b.in # <<>> /\ b.out # <<>> => name[b.in[1]] # name[b.out[1]]

Steady(b) == ~b.flush /\ ~b.stall

\* Slots of an in-order queue wait for the end of the tick to be filled.
Filled(c, x, empty) ==
  (Listening(c, x.q) \ empty) \
     (IF c.order = "In-Order" THEN {x.enq[k].index : k \in DOMAIN x.enq} ELSE {})

SchedHolds(c, x, empty, home, place) ==
  /\ \A i \in Filled(c, x, empty) : x.q.slots[i] # Nil => IsAt(home, x.q.slots[i], place)
  /\ \A i, j \in Filled(c, x, empty) :
       x.q.slots[i] = x.q.slots[j] /\ x.q.slots[i] # Nil => i = j
  /\ \A k \in DOMAIN x.enq : IsAt(home, x.enq[k].id, place)
  /\ \A j, k \in DOMAIN x.enq : x.enq[j].id = x.enq[k].id => j = k
  /\ \A i \in Filled(c, x, empty), k \in DOMAIN x.enq : x.q.slots[i] # x.enq[k].id

\* The parts one by one.  gaps are slots being emptied; ports, pipes, caches
\* and wbs the latches whose output is yet to be taken in this tick.
SchedAt(m, s, gaps, home) ==
  /\ ~m.sched[s].flush
  /\ SchedHolds(cfg.sched[s], m.sched[s], {i \in Indices(cfg.sched[s]) : <<s, i>> \in gaps},
                home, AtSched(s))

PortAt(m, p, ports, home) ==
  /\ Steady(m.port[p])
  /\ cfg.rfLatency = 0 => m.port[p].out = <<>>
  /\ LatchHolds(m.port[p], p \in ports \/ cfg.rfLatency # 0, p \in ports, InfoName, home,
                AtPort(p))

PipeAt(m, u, pipes, home) ==
  /\ ~m.unit[u].pipe.flush
  /\ u \in pipes => ~m.unit[u].pipe.stall
  /\ LatchHolds(m.unit[u].pipe, TRUE, u \in pipes \/ m.unit[u].pipe.stall, InsnName, home,
                AtPipe(u))

\* Only a memory unit uses, and moves, the latch of its data cache port.
CacheAt(m, u, caches, home) ==
  IsMemoryUnit(u) =>
    /\ Steady(m.unit[u].dCache)
    /\ LatchHolds(m.unit[u].dCache, TRUE, u \in caches, InsnName, home, AtCache(u))

LdqAt(m, home) ==
  /\ \A k \in DOMAIN m.ldq : IsAt(home, m.ldq[k], AtLdq)
  /\ \A j, k \in DOMAIN m.ldq : m.ldq[j] = m.ldq[k] => j = k

WbAt(m, w, wbs, home) ==
  /\ Steady(m.wb[w])
  /\ LatchHolds(m.wb[w], TRUE, w \in wbs, InsnName, home, AtWb(w))

\* The memory keeps what it has been sent; the rest can be flushed.
MemoryHolds(m, caches, home) ==
  (\A u \in DOMAIN cfg.unit : CacheAt(m, u, caches, home)) /\ LdqAt(m, home)

Placed(m, gaps, ports, pipes, caches, wbs, home) ==
  /\ DOMAIN home = Ids
  /\ \A s \in DOMAIN cfg.sched : SchedAt(m, s, gaps, home)
  /\ \A p \in 1 .. cfg.ports : PortAt(m, p, ports, home)
  /\ \A u \in DOMAIN cfg.unit : PipeAt(m, u, pipes, home)
  /\ \A w \in DOMAIN cfg.wb : WbAt(m, w, wbs, home)
  /\ MemoryHolds(m, caches, home)

FlushSet(m) ==
  /\ \A s \in DOMAIN cfg.sched : m.sched[s].flush
  /\ \A p \in 1 .. cfg.ports : m.port[p].flush
  /\ \A u \in DOMAIN cfg.unit : m.unit[u].pipe.flush
  /\ \A w \in DOMAIN cfg.wb : m.wb[w].flush

-----------------------------------------------------------------------------
(* What is somewhere is expected, or on its way out.                       *)

Tag(insn, id) == insn[id].tag

Expected(insn, r, id) == id \in ToSet(r.queue) /\ insn[id].tag \notin r.done
Lingers(insn, r, id) == insn[id].killed /\ ~InRob(r, insn[id].tag) /\ r.state # "Idle"

Owned(insn, r, home) ==
  \A id \in Ids :
    home[id] # Nowhere =>
      /\ id \in DOMAIN insn
      /\ \/ Expected(insn, r, id)
         \/ Lingers(insn, r, id) /\ home[id] # AtLdq
         \/ insn[id].killed /\ home[id][1] = "dCache"

\* The re-order buffer.
Ring(insn, r) ==
  /\ r.header \in 0 .. (cfg.robSize - 1) /\ Len(r.queue) <= cfg.robSize
  /\ r.queue \in Seq(DOMAIN insn)
  /\ \A j \in 1 .. Len(r.queue) :
       /\ insn[r.queue[j]].tag = (r.header + j - 1) % cfg.robSize
       /\ ~insn[r.queue[j]].killed
  /\ r.toCommit \in 0 .. Len(r.queue)
  /\ \A j \in 1 .. r.toCommit : insn[r.queue[j]].tag \in r.done

TargetOf(insn, r) == insn[r.queue[Distance(r, r.rollBackTag) + 1]]

Recovery(insn, r) ==
  /\ r.state \in {"Idle", "Undo", "WaitForResume"}
  /\ r.state # "Idle" => r.rollBackTag \in 0 .. (cfg.robSize - 1) /\ InRob(r, r.rollBackTag)
  /\ r.state = "Undo" => r.toCommit <= Distance(r, r.rollBackTag)
  /\ r.state = "WaitForResume" => Distance(r, r.rollBackTag) = Len(r.queue) - 1

\* A recovery that waits for a branch to come back squashes nothing.
Resumable(insn, r, home) ==
  r.state # "Idle" /\ ~TargetOf(insn, r).bad =>
    /\ Distance(r, r.rollBackTag) = Len(r.queue) - 1
    /\ \A id \in Ids : home[id] # Nowhere /\ home[id][1] # "dCache" => ~insn[id].killed

Control(insn, r, home) == Ring(insn, r) /\ Recovery(insn, r) /\ Owned(insn, r, home) /\ Resumable(insn, r, home)

\* In phase p: the latches whose output is yet to be taken.
LivePorts(p) == IF p \in ToSet(IewPhases) THEN 1 .. cfg.ports ELSE {}
LiveUnits(p) == IF p \in {"WriteBack", "Execute"} THEN DOMAIN cfg.unit ELSE {}
LiveWbs(p) == IF p = "WriteBack" THEN DOMAIN cfg.wb ELSE {}

\* After a flush only the memory holds anything.
Emptied(m, home) ==
  /\ FlushSet(m) /\ MemoryHolds(m, {}, home) /\ DOMAIN home = Ids
  /\ \A id \in Ids : home[id] # Nowhere => home[id] = AtLdq \/ home[id][1] = "dCache"

Housed(m, r, p, home) ==
  /\ \/ Placed(m, {}, LivePorts(p), LiveUnits(p), LiveUnits(p), LiveWbs(p), home)
     \/ p = "Advance" /\ Emptied(m, home)
  /\ Control(m.insn, r, home)

\* In-order queues are given instructions by Dispatch, and by the read ports.
Gathered(m) ==
  \A s \in DOMAIN cfg.sched : cfg.sched[s].order = "In-Order" => m.sched[s].enq = <<>>

Selecting == {"WriteBack", "Execute", "Forwarding", "Issue"}

Moved(home, id, place) == [home EXCEPT ![id] = place]

-----------------------------------------------------------------------------
(* Remainders.                                                             *)

LEMMA ModSmall ==
  ASSUME NEW n \in Nat \ {0}, NEW x \in Nat, x < n
  PROVE  x % n = x
OBVIOUS

LEMMA ModOnce ==
  ASSUME NEW n \in Nat \ {0}, NEW x \in Nat, n <= x, x < 2 * n
  PROVE  x % n = x - n
<1>1. \A q \in Int : \A r \in 0 .. (n - 1) : x = n * q + r => x % n = r
  OBVIOUS
<1>2. x - n \in 0 .. (n - 1) /\ x = n * 1 + (x - n)
  OBVIOUS
<1> QED
  BY <1>1, <1>2

-----------------------------------------------------------------------------
(* Homes.                                                                  *)

LEMMA PlacesDiffer ==
  /\ \A s, t : AtSched(s) = AtSched(t) => s = t
  /\ \A s, t : AtPort(s) = AtPort(t) => s = t
  /\ \A s, t : AtPipe(s) = AtPipe(t) => s = t
  /\ \A s, t : AtCache(s) = AtCache(t) => s = t
  /\ \A s, t : AtWb(s) = AtWb(t) => s = t
  /\ \A s, t : AtSched(s) # AtPort(t) /\ AtSched(s) # AtPipe(t) /\ AtSched(s) # AtCache(t)
               /\ AtSched(s) # AtWb(t) /\ AtSched(s) # AtLdq /\ AtSched(s) # Nowhere
  /\ \A s, t : AtPort(s) # AtPipe(t) /\ AtPort(s) # AtCache(t) /\ AtPort(s) # AtWb(t)
               /\ AtPort(s) # AtLdq /\ AtPort(s) # Nowhere
  /\ \A s, t : AtPipe(s) # AtCache(t) /\ AtPipe(s) # AtWb(t) /\ AtPipe(s) # AtLdq
               /\ AtPipe(s) # Nowhere
  /\ \A s, t : AtCache(s) # AtWb(t) /\ AtCache(s) # AtLdq /\ AtCache(s) # Nowhere
  /\ \A s : AtWb(s) # AtLdq /\ AtWb(s) # Nowhere
  /\ AtLdq # Nowhere
BY DEF AtSched, AtPort, AtPipe, AtCache, AtWb, AtLdq, Nowhere

LEMMA PartOfPlace ==
  /\ \A s : AtSched(s)[1] = "sched" /\ AtPort(s)[1] = "port" /\ AtPipe(s)[1] = "pipe"
            /\ AtCache(s)[1] = "dCache" /\ AtWb(s)[1] = "wb"
  /\ AtLdq[1] = "ldq" /\ Nowhere[1] = "none"
BY DEF AtSched, AtPort, AtPipe, AtCache, AtWb, AtLdq, Nowhere

LEMMA MoveFacts ==
  ASSUME NEW home, DOMAIN home = Ids, NEW id \in Ids, NEW place
  PROVE  /\ DOMAIN Moved(home, id, place) = Ids
         /\ Moved(home, id, place)[id] = place
         /\ \A x \in Ids : x # id => Moved(home, id, place)[x] = home[x]
         /\ \A x \in Ids : home[x] # home[id] => Moved(home, id, place)[x] = home[x]
BY DEF Moved

LEMMA LatchElsewhere ==
  ASSUME NEW b, NEW front, NEW back, NEW name, NEW home, NEW place, DOMAIN home = Ids,
         NEW id \in Ids, home[id] # place, NEW q,
         LatchHolds(b, front, back, name, home, place)
  PROVE  LatchHolds(b, front, back, name, Moved(home, id, q), place)
BY DEF LatchHolds, IsAt, Moved

LEMMA LatchPut ==
  ASSUME NEW S, NEW b \in Latch(S), NEW front, NEW back, NEW name, NEW home, NEW place,
         DOMAIN home = Ids, NEW x, name[x] \in Ids, home[name[x]] # place,
         LatchHolds(b, front, back, name, home, place)
  PROVE  LatchHolds(TB!Set(b, x), TRUE, back, name, Moved(home, name[x], place), place)
<1>1. /\ TB!Set(b, x).in = <<x>> /\ TB!Set(b, x).queue = b.queue /\ TB!Set(b, x).out = b.out
  BY DEF TB!Set, Latch
<1>2. TB!Set(b, x).in[1] = x
  BY <1>1
<1> QED
  BY <1>1, <1>2 DEF LatchHolds, IsAt, Moved

LEMMA LatchTakeOut ==
  ASSUME NEW b, NEW front, NEW name, NEW home, NEW place,
         DOMAIN home = Ids, NEW q, b.out # <<>>,
         LatchHolds(b, front, TRUE, name, home, place)
  PROVE  /\ LatchHolds(b, front, FALSE, name, Moved(home, name[b.out[1]], q), place)
         /\ IsAt(home, name[b.out[1]], place)
BY DEF LatchHolds, IsAt, Moved

\* What a latch shows at its output is at the latch.
LEMMA LatchOutAt ==
  ASSUME NEW b, NEW x, b.out = <<x>>, NEW home, NEW place,
         LatchHolds(b, TRUE, TRUE, InsnName, home, place), x \in Ids
  PROVE  home[x] = place
<1>1. <<x>> # <<>> /\ <<x>>[1] = x
  OBVIOUS
<1>2. b.out # <<>> /\ b.out[1] = x
  BY <1>1, Zenon
<1>3. IsAt(home, InsnName[b.out[1]], place)
  BY <1>2 DEF LatchHolds
<1>4. InsnName[b.out[1]] = x
  BY <1>2 DEF InsnName
<1> QED
  BY <1>3, <1>4 DEF IsAt

LEMMA LatchTakeIn ==
  ASSUME NEW b, NEW back, NEW name, NEW home, NEW place,
         DOMAIN home = Ids, NEW q, b.in # <<>>,
         LatchHolds(b, TRUE, back, name, home, place)
  PROVE  /\ LatchHolds(b, FALSE, back, name, Moved(home, name[b.in[1]], q), place)
         /\ IsAt(home, name[b.in[1]], place)
BY DEF LatchHolds, IsAt, Moved

LEMMA LatchEmptyHolds ==
  ASSUME NEW front, NEW back, NEW name, NEW home, NEW place
  PROVE  LatchHolds(TB!Empty, front, back, name, home, place) /\ Steady(TB!Empty)
BY DEF LatchHolds, Steady, TB!Empty

LEMMA LatchWeaker ==
  ASSUME NEW b, NEW front, NEW back, NEW name, NEW home, NEW place,
         LatchHolds(b, front, back, name, home, place), NEW f, f => front, NEW a, a => back
  PROVE  LatchHolds(b, f, a, name, home, place)
BY DEF LatchHolds

LEMMA LatchAdvances ==
  ASSUME NEW S, NEW b \in Latch(S), NEW front, NEW back, NEW name, NEW home, NEW place,
         NEW l \in Nat, LatchHolds(b, front, back, name, home, place), ~b.flush,
         b.stall => back, l # 0 \/ b.stall => front, l = 0 => b.out = <<>>
  PROVE  /\ LatchHolds(TB!Advance(b, l), TRUE, TRUE, name, home, place)
         /\ Steady(TB!Advance(b, l))
         /\ l = 0 => TB!Advance(b, l).out = <<>>
<1> DEFINE E == [data : S, wait : Int]
           n == TB!Advance(b, l)
<1>0. b.queue \in Seq(E) /\ b.in \in Port(S) /\ b.out \in Port(S)
  BY DEF Latch
<1>1. ASSUME NEW q \in Seq(E)
      PROVE  /\ Len(TB!Aged(q)) = Len(q) /\ DOMAIN TB!Aged(q) = DOMAIN q
             /\ \A k \in DOMAIN q : TB!Aged(q)[k].data = q[k].data
  <2>1. DOMAIN q = 1 .. Len(q) /\ Len(q) \in Nat /\ \A k \in DOMAIN q : q[k] \in E
    <3> HIDE DEF E
    <3> QED
      OBVIOUS
  <2>2. TB!Aged(q) = [i \in 1 .. Len(q) |-> [q[i] EXCEPT !.wait = IF @ = 0 THEN 0 ELSE @ - 1]]
    BY DEF TB!Aged
  <2>3. \A k \in DOMAIN q : TB!Aged(q)[k].data = q[k].data
    BY <2>1, <2>2
  <2> QED
    BY <2>1, <2>2, <2>3
<1>2. CASE b.stall
  <2>1. n = [b EXCEPT !.stall = FALSE, !.queue = TB!Aged(b.queue)]
    BY <1>2 DEF TB!Advance, Latch
  <2>2. /\ n.in = b.in /\ n.out = b.out /\ n.queue = TB!Aged(b.queue)
        /\ n.stall = FALSE /\ n.flush = b.flush
    BY <2>1 DEF Latch
  <2> HIDE DEF n, E
  <2>3. Steady(n)
    BY <2>2 DEF Steady
  <2>4. LatchHolds(n, TRUE, TRUE, name, home, place)
    BY <1>0, <1>1, <1>2, <2>2 DEF LatchHolds
  <2> QED
    BY <1>2, <2>2, <2>3, <2>4 DEF n
<1>3. CASE ~b.stall /\ l = 0
  <2>1. n = [b EXCEPT !.in = <<>>]
    BY <1>3 DEF TB!Advance
  <2>2. /\ n.in = <<>> /\ n.out = <<>> /\ n.queue = b.queue
        /\ n.stall = b.stall /\ n.flush = b.flush
    BY <1>3, <2>1 DEF Latch
  <2> HIDE DEF n, E
  <2> QED
    BY <1>3, <2>2 DEF LatchHolds, Steady, n
<1>4. CASE ~b.stall /\ l # 0
  <2> DEFINE pushed == IF b.in = <<>> THEN b.queue
                       ELSE Append(b.queue, [data |-> b.in[1], wait |-> l - 1])
             due == pushed # <<>> /\ Head(pushed).wait = 0
             left == IF due THEN Tail(pushed) ELSE pushed
             out == IF due THEN <<Head(pushed).data>> ELSE <<>>
  <2>1. n = [b EXCEPT !.in = <<>>, !.out = out, !.queue = TB!Aged(left)]
    BY <1>4 DEF TB!Advance, TB!Shifted
  <2>2. /\ n.in = <<>> /\ n.out = out /\ n.queue = TB!Aged(left)
        /\ n.stall = b.stall /\ n.flush = b.flush
    <3> HIDE DEF out, left
    <3> QED
      BY <2>1 DEF Latch
  <2>3. /\ pushed \in Seq(E)
        /\ \A k \in 1 .. Len(pushed) : IsAt(home, name[pushed[k].data], place)
        /\ \A j, k \in 1 .. Len(pushed) :
             name[pushed[j].data] = name[pushed[k].data] => j = k
    <3>1. CASE b.in = <<>>
      BY <1>0, <3>1 DEF LatchHolds
    <3>2. CASE b.in # <<>>
      <4> DEFINE e == [data |-> b.in[1], wait |-> l - 1]
                 q == b.queue
      <4>1. e \in E
        BY <1>0, <3>2 DEF Port
      <4>2. e.data = b.in[1]
        OBVIOUS
      <4> HIDE DEF e, E, q
      <4>3. pushed = Append(q, e) /\ q \in Seq(E)
        BY <1>0, <3>2 DEF e, q
      <4> HIDE DEF pushed
      <4>4. /\ pushed \in Seq(E) /\ Len(pushed) = Len(q) + 1 /\ Len(q) \in Nat
            /\ pushed[Len(q) + 1] = e /\ \A k \in 1 .. Len(q) : pushed[k] = q[k]
            /\ DOMAIN q = 1 .. Len(q)
        BY <4>1, <4>3
      <4>5. front
        BY <1>4
      <4>6. /\ \A k \in 1 .. Len(q) : IsAt(home, name[q[k].data], place)
            /\ \A j, k \in 1 .. Len(q) : name[q[j].data] = name[q[k].data] => j = k
            /\ IsAt(home, name[e.data], place)
            /\ \A k \in 1 .. Len(q) : name[q[k].data] # name[e.data]
        BY <3>2, <4>2, <4>4, <4>5 DEF LatchHolds, q
      <4>7. ASSUME NEW j \in 1 .. Len(pushed)
            PROVE  (j \in 1 .. Len(q) /\ pushed[j] = q[j]) \/ (j = Len(q) + 1 /\ pushed[j] = e)
        BY <4>4
      <4> DEFINE at(j) == name[pushed[j].data]
      <4>8. \A j \in 1 .. Len(pushed) : IsAt(home, at(j), place)
        BY <4>6, <4>7
      <4>9. ASSUME NEW j \in 1 .. Len(pushed), NEW k \in 1 .. Len(pushed), at(j) = at(k)
            PROVE  j = k
        <5>1. CASE j \in 1 .. Len(q) /\ k \in 1 .. Len(q)
          BY <4>4, <4>6, <4>9, <5>1
        <5>2. CASE j \in 1 .. Len(q) /\ k \notin 1 .. Len(q)
          <6>1. pushed[k] = e /\ pushed[j] = q[j]
            BY <4>7, <5>2
          <6> QED
            BY <4>6, <4>9, <5>2, <6>1
        <5>3. CASE j \notin 1 .. Len(q) /\ k \in 1 .. Len(q)
          <6>1. pushed[j] = e /\ pushed[k] = q[k]
            BY <4>7, <5>3
          <6> QED
            BY <4>6, <4>9, <5>3, <6>1
        <5>4. CASE j \notin 1 .. Len(q) /\ k \notin 1 .. Len(q)
          BY <4>7, <5>4
        <5> QED
          BY <5>1, <5>2, <5>3, <5>4
      <4> QED
        BY <4>4, <4>8, <4>9
    <3> QED
      BY <3>1, <3>2
  <2> HIDE DEF pushed
  <2>4. /\ left \in Seq(E)
        /\ \A k \in 1 .. Len(left) : IsAt(home, name[left[k].data], place)
        /\ \A j, k \in 1 .. Len(left) : name[left[j].data] = name[left[k].data] => j = k
        /\ out # <<>> => /\ IsAt(home, name[out[1]], place)
                         /\ \A k \in 1 .. Len(left) : name[left[k].data] # name[out[1]]
    <3>1. CASE due
      <4>1. /\ Len(left) = Len(pushed) - 1 /\ Len(pushed) \in Nat /\ Len(pushed) >= 1
            /\ \A k \in 1 .. Len(left) : left[k] = pushed[k + 1]
            /\ left \in Seq(E) /\ out[1] = pushed[1].data
        <5>1. left = Tail(pushed) /\ pushed # <<>> /\ out = <<Head(pushed).data>>
          BY <3>1
        <5> HIDE DEF left, out, due, E
        <5> QED
          BY <2>3, <5>1
      <4> HIDE DEF left, out, due, E
      <4>2. \A k \in 1 .. Len(left) :
              /\ k + 1 \in 1 .. Len(pushed) /\ k + 1 # 1 /\ left[k] = pushed[k + 1]
        BY <4>1
      <4>3. \A k \in 1 .. Len(left) : /\ IsAt(home, name[left[k].data], place)
                                      /\ name[left[k].data] # name[out[1]]
        BY <2>3, <4>1, <4>2, SMTT(40)
      <4>4. ASSUME NEW j \in 1 .. Len(left), NEW k \in 1 .. Len(left),
                   name[left[j].data] = name[left[k].data]
            PROVE  j = k
        BY <2>3, <4>2, <4>4
      <4>5. IsAt(home, name[out[1]], place)
        BY <2>3, <4>1
      <4> QED
        BY <4>1, <4>3, <4>4, <4>5
    <3>2. CASE ~due
      BY <2>3, <3>2
    <3> QED
      BY <3>1, <3>2
  <2> HIDE DEF left, out, due, E, n
  <2>5. DOMAIN left = 1 .. Len(left)
    BY <2>4
  <2>6. LatchHolds(n, TRUE, TRUE, name, home, place)
    BY <1>1, <2>2, <2>4, <2>5 DEF LatchHolds
  <2> QED
    BY <1>4, <2>2, <2>6 DEF Steady, n
<1> QED
  BY <1>2, <1>3, <1>4

-----------------------------------------------------------------------------
(* A scheduler.                                                            *)

LEMMA SchedElsewhere ==
  ASSUME NEW c, NEW x, NEW e, NEW home, DOMAIN home = Ids, NEW place, NEW id \in Ids,
         home[id] # place, NEW q, SchedHolds(c, x, e, home, place)
  PROVE  SchedHolds(c, x, e, Moved(home, id, q), place)
BY DEF SchedHolds, IsAt, Moved

LEMMA SchedTake ==
  ASSUME NEW c, NEW x, NEW e, NEW home, DOMAIN home = Ids, NEW place,
         NEW i \in Filled(c, x, e), x.q.slots[i] # Nil, NEW q,
         SchedHolds(c, x, e, home, place)
  PROVE  /\ IsAt(home, x.q.slots[i], place)
         /\ SchedHolds(c, x, e \union {i}, Moved(home, x.q.slots[i], q), place)
<1>1. IsAt(home, x.q.slots[i], place)
  BY DEF SchedHolds
<1>2. \A j : j \in Filled(c, x, e \union {i}) => j \in Filled(c, x, e) /\ j # i
  BY DEF Filled
<1> QED
  BY <1>1, <1>2 DEF SchedHolds, IsAt, Moved

\* What a queue shows may only become less.
LEMMA SchedShrinks ==
  ASSUME NEW c, NEW x, NEW y, NEW e, NEW f, NEW home, NEW place,
         SchedHolds(c, x, e, home, place), y.enq = x.enq,
         \A i \in Filled(c, y, f) :
           y.q.slots[i] # Nil => i \in Filled(c, x, e) /\ y.q.slots[i] = x.q.slots[i]
  PROVE  SchedHolds(c, y, f, home, place)
<1>1. \A k \in DOMAIN x.enq : x.enq[k].id # Nil
  BY DEF SchedHolds, IsAt, Ids, Nil
<1> QED
  BY <1>1 DEF SchedHolds

LEMMA SchedEnqueue ==
  ASSUME NEW S, NEW c, NEW x, x.enq \in Seq([index : Int, id : S]), NEW e, NEW f, NEW home,
         DOMAIN home = Ids, NEW place, NEW id \in Ids, home[id] # place, NEW i \in Int,
         NEW y, y.q = x.q, y.enq = Append(x.enq, [index |-> i, id |-> id]), id \in S,
         \A j \in Filled(c, y, f) : x.q.slots[j] # Nil => j \in Filled(c, x, e),
         SchedHolds(c, x, e, home, place)
  PROVE  SchedHolds(c, y, f, Moved(home, id, place), place)
<1> DEFINE E == [index : Int, id : S]
           z == [index |-> i, id |-> id]
<1>1. z \in E /\ z.id = id /\ z.index = i
  OBVIOUS
<1> HIDE DEF z, E
<1>2. /\ y.enq \in Seq(E) /\ DOMAIN y.enq = 1 .. (Len(x.enq) + 1) /\ Len(x.enq) \in Nat
      /\ y.enq[Len(x.enq) + 1] = z /\ DOMAIN x.enq = 1 .. Len(x.enq)
      /\ \A k \in 1 .. Len(x.enq) : y.enq[k] = x.enq[k]
  <2>1. x.enq \in Seq(E) /\ y.enq = Append(x.enq, z)
    BY DEF E, z
  <2> QED
    BY <1>1, <2>1
<1>5. \A k \in DOMAIN y.enq : \/ k \in DOMAIN x.enq /\ y.enq[k] = x.enq[k]
                              \/ k = Len(x.enq) + 1 /\ y.enq[k].id = id
  BY <1>1, <1>2
<1>6. \A k \in DOMAIN x.enq : x.enq[k].id # id
  BY DEF SchedHolds, IsAt
<1>7. \A j \in Filled(c, x, e) : x.q.slots[j] # id
  BY DEF SchedHolds, IsAt, Ids, Nil
<1>8. \A k \in DOMAIN y.enq : IsAt(Moved(home, id, place), y.enq[k].id, place)
  BY <1>5, <1>6 DEF SchedHolds, IsAt, Moved
<1>9. ASSUME NEW j \in DOMAIN y.enq, NEW k \in DOMAIN y.enq, y.enq[j].id = y.enq[k].id
      PROVE  j = k
  <2>1. CASE j \in DOMAIN x.enq /\ k \in DOMAIN x.enq
    <3>1. y.enq[j] = x.enq[j] /\ y.enq[k] = x.enq[k]
      BY <1>2, <2>1
    <3> QED
      BY <1>9, <2>1, <3>1 DEF SchedHolds
  <2>2. CASE j \notin DOMAIN x.enq /\ k \notin DOMAIN x.enq
    BY <1>5, <2>2
  <2>3. CASE j \in DOMAIN x.enq /\ k \notin DOMAIN x.enq
    <3>1. y.enq[j] = x.enq[j] /\ y.enq[k].id = id
      BY <1>2, <1>5, <2>3
    <3> QED
      BY <1>6, <1>9, <2>3, <3>1
  <2>4. CASE j \notin DOMAIN x.enq /\ k \in DOMAIN x.enq
    <3>1. y.enq[k] = x.enq[k] /\ y.enq[j].id = id
      BY <1>2, <1>5, <2>4
    <3> QED
      BY <1>6, <1>9, <2>4, <3>1
  <2> QED
    BY <2>1, <2>2, <2>3, <2>4
<1>10. \A j \in Filled(c, y, f), k \in DOMAIN y.enq : y.q.slots[j] # y.enq[k].id
  <2> SUFFICES ASSUME NEW j \in Filled(c, y, f), NEW k \in DOMAIN y.enq PROVE x.q.slots[j] # y.enq[k].id
    OBVIOUS
  <2>1. x.q.slots[j] # Nil => j \in Filled(c, x, e)
    OBVIOUS
  <2>2. y.enq[k].id # Nil
    BY <1>8 DEF IsAt, Ids, Nil
  <2>3. j \in Filled(c, x, e) => x.q.slots[j] # y.enq[k].id
    BY <1>5, <1>7 DEF SchedHolds
  <2> QED
    BY <2>1, <2>2, <2>3
<1>11. \A j \in Filled(c, y, f) : y.q.slots[j] # Nil => IsAt(Moved(home, id, place), y.q.slots[j], place)
  <2> SUFFICES ASSUME NEW j \in Filled(c, y, f), x.q.slots[j] # Nil
               PROVE  IsAt(Moved(home, id, place), x.q.slots[j], place)
    OBVIOUS
  <2>1. j \in Filled(c, x, e)
    OBVIOUS
  <2> QED
    BY <1>7, <2>1 DEF SchedHolds, IsAt, Moved
<1>12. \A j, k \in Filled(c, y, f) : y.q.slots[j] = y.q.slots[k] /\ y.q.slots[j] # Nil => j = k
  <2> SUFFICES ASSUME NEW j \in Filled(c, y, f), NEW k \in Filled(c, y, f),
                      x.q.slots[j] = x.q.slots[k], x.q.slots[j] # Nil
               PROVE  j = k
    OBVIOUS
  <2>1. j \in Filled(c, x, e) /\ k \in Filled(c, x, e)
    OBVIOUS
  <2> QED
    BY <2>1 DEF SchedHolds
<1> QED
  BY <1>8, <1>9, <1>10, <1>11, <1>12 DEF SchedHolds

\* One more on its way, to a slot of its own.
LEMMA SchedEnqueued ==
  ASSUME NEW c, NEW S, NEW x \in SchedState(c, S), NEW e, NEW home,
         DOMAIN home = Ids, NEW place, NEW id \in Ids, id \in S, home[id] # place, NEW i \in Int,
         SchedHolds(c, x, e, home, place)
  PROVE  SchedHolds(c, Enqueued(x, i, id), e, Moved(home, id, place), place)
<1> DEFINE y == Enqueued(x, i, id)
           E == [index : Int, id : S]
           z == [index |-> i, id |-> id]
<1>1. x.enq \in Seq(E) /\ y.q = x.q /\ y.enq = Append(x.enq, z)
  BY DEF SchedState, Enqueued
<1>2. z \in E
  OBVIOUS
<1> HIDE DEF y, z
<1>3. {x.enq[k].index : k \in DOMAIN x.enq} \subseteq {y.enq[k].index : k \in DOMAIN y.enq}
  <2> HIDE DEF E
  <2>1. ASSUME NEW k \in DOMAIN x.enq
        PROVE  k \in DOMAIN y.enq /\ y.enq[k] = x.enq[k]
    BY <1>1, <1>2
  <2> QED
    BY <2>1
<1>4. \A j \in Filled(c, y, e) : j \in Filled(c, x, e)
  BY <1>1, <1>3 DEF Filled
<1> QED
  BY <1>1, <1>4, SchedEnqueue DEF y, z

LEMMA RingStep ==
  ASSUME NEW n \in Nat \ {0}, NEW h \in 0 .. (n - 1), NEW k \in Nat, k + 1 < n
  PROVE  /\ (((h + 1) % n) + k) % n = (h + (k + 1)) % n
         /\ (h + (k + 1)) % n # h
<1>1. CASE h + 1 < n
  <2>1. (h + 1) % n = h + 1
    BY <1>1, ModSmall
  <2>2. (h + 1) + k = h + (k + 1)
    OBVIOUS
  <2>3. CASE h + (k + 1) < n
    BY <2>1, <2>3, ModSmall, SMTT(40)
  <2>4. CASE n <= h + (k + 1)
    <3>1. h + (k + 1) < 2 * n /\ h + (k + 1) \in Nat
      OBVIOUS
    <3>2. (h + (k + 1)) % n = h + (k + 1) - n
      BY <2>4, <3>1, ModOnce
    <3> QED
      BY <2>1, <3>2
  <2> QED
    BY <2>3, <2>4
<1>2. CASE h + 1 = n
  <2>1. n <= h + 1 /\ h + 1 < 2 * n /\ h + 1 \in Nat
    BY <1>2
  <2>2. (h + 1) % n = h + 1 - n
    BY <2>1, ModOnce
  <2>3. (h + 1) % n = 0
    BY <1>2, <2>2
  <2>4. k % n = k
    BY ModSmall
  <2>5. n <= h + (k + 1) /\ h + (k + 1) < 2 * n /\ h + (k + 1) \in Nat
    BY <1>2
  <2>6. (h + (k + 1)) % n = h + (k + 1) - n
    BY <2>5, ModOnce
  <2> QED
    BY <1>2, <2>3, <2>4, <2>6
<1> QED
  BY <1>1, <1>2

\* The queue of a scheduler that allocates a slot, and frees one.
LEMMA AllocateListens ==
  ASSUME NEW c, c.order \in {"In-Order", "In-Age-Order"}, c.entries \in Nat \ {0}, NEW S,
         NEW q \in QueueState(c, S), GetAvailibleEntryCount(c, q) # 0
  PROVE  LET i == NextIndex(c, q)
             a == AllocateEntry(c, q)
         IN  /\ \A j \in Listening(c, a) : j # i => j \in Listening(c, q) /\ a.slots[j] = q.slots[j]
             /\ c.order # "In-Order" => a.slots[i] = Nil
<1> DEFINE i == NextIndex(c, q)
           a == AllocateEntry(c, q)
<1>1. CASE c.order = "In-Order"
  <2>1. q \in RingState(c, S)
    BY <1>1 DEF QueueState
  <2>2. a.slots = q.slots /\ a.header = q.header /\ a.usage = q.usage + 1 /\ q.usage \in Nat
    BY <1>1, <2>1 DEF AllocateEntry, RingState
  <2>3. i = (q.header + q.usage) % c.entries
    BY <1>1 DEF NextIndex
  <2> HIDE DEF a, i
  <2>4. \A j \in Listening(c, a) : j # i => j \in Listening(c, q)
    <3> SUFFICES ASSUME NEW k \in 0 .. (a.usage - 1), (q.header + k) % c.entries # i
                 PROVE  (q.header + k) % c.entries \in Listening(c, q)
      BY <1>1, <2>2 DEF Listening
    <3>1. k # q.usage
      BY <2>3
    <3>2. k \in 0 .. (q.usage - 1)
      BY <2>2, <3>1
    <3> QED
      BY <1>1, <3>2 DEF Listening
  <2> QED
    BY <1>1, <2>2, <2>4 DEF a, i
<1>2. CASE c.order = "In-Age-Order"
  <2>1. q \in AgeState(c, S)
    BY <1>2 DEF QueueState
  <2>2. i \in Indices(c)
    BY <1>2, QueueNextIndex DEF Orders
  <2>3. a.slots = [q.slots EXCEPT ![i] = Nil] /\ a.bust = Append(q.bust, i)
    BY <1>2, <2>1 DEF AllocateEntry, AgeState, AgeFields
  <2>4. q.bust \in Seq(Indices(c)) /\ q.slots \in Slots(c, S)
    BY <2>1 DEF AgeState, AgeFields
  <2> HIDE DEF a, i
  <2>5. ToSet(a.bust) \subseteq ToSet(q.bust) \union {i}
    BY <2>2, <2>3, <2>4 DEF ToSet
  <2> QED
    BY <1>2, <2>2, <2>3, <2>4, <2>5 DEF a, i, Listening, Slots
<1> QED
  BY <1>1, <1>2

LEMMA DeallocateListens ==
  ASSUME NEW c, c.order \in {"In-Order", "In-Age-Order"}, c.entries \in Nat \ {0}, NEW S,
         NEW q \in QueueState(c, S), NEW i \in Indices(c),
         c.order = "In-Order" => q.usage # 0 /\ i = q.header
  PROVE  LET d == Deallocate(c, q, i)
         IN  \A j \in Listening(c, d) :
               d.slots[j] # Nil => j # i /\ j \in Listening(c, q) /\ d.slots[j] = q.slots[j]
<1> DEFINE d == Deallocate(c, q, i)
<1>1. CASE c.order = "In-Order"
  <2>1. q \in RingState(c, S)
    BY <1>1 DEF QueueState
  <2>2. /\ d.slots = q.slots /\ d.header = (q.header + 1) % c.entries /\ d.usage = q.usage - 1
        /\ q.usage \in 1 .. c.entries /\ q.header \in 0 .. (c.entries - 1) /\ i = q.header
    <3>1. q.usage \in 1 .. c.entries /\ q.header \in 0 .. (c.entries - 1) /\ i = q.header
      BY <1>1, <2>1 DEF RingState, Indices
    <3>2. d = [q EXCEPT !.header = (q.header + 1) % c.entries, !.usage = q.usage - 1]
      BY <1>1, <2>1 DEF Deallocate, RingState
    <3> HIDE DEF d
    <3>3. d.slots = q.slots /\ d.header = (q.header + 1) % c.entries /\ d.usage = q.usage - 1
      BY <2>1, <3>2 DEF RingState
    <3> QED
      BY <3>1, <3>3
  <2> HIDE DEF d
  <2>3. \A j \in Listening(c, d) : j # i /\ j \in Listening(c, q)
    <3> DEFINE at(k) == (((q.header + 1) % c.entries) + k) % c.entries
    <3> SUFFICES ASSUME NEW k \in 0 .. (d.usage - 1)
                 PROVE  at(k) # i /\ at(k) \in Listening(c, q)
      BY <1>1, <2>2 DEF Listening
    <3>1. k \in Nat /\ k + 1 < c.entries /\ k + 1 \in 0 .. (q.usage - 1)
      BY <2>2
    <3>2. /\ at(k) = (q.header + (k + 1)) % c.entries
          /\ (q.header + (k + 1)) % c.entries # q.header
      BY <2>2, <3>1, RingStep
    <3>3. (q.header + (k + 1)) % c.entries \in Listening(c, q)
      BY <1>1, <3>1 DEF Listening
    <3> QED
      BY <2>2, <3>2, <3>3
  <2> QED
    BY <2>2, <2>3 DEF d
<1>2. CASE c.order = "In-Age-Order"
  <2>1. q \in AgeState(c, S)
    BY <1>2 DEF QueueState
  <2>2. d.slots = [q.slots EXCEPT ![i] = Nil] /\ d.bust = Without(q.bust, {i})
    BY <1>2, <2>1 DEF Deallocate, AgeState, AgeFields
  <2>3. q.bust \in Seq(Indices(c)) /\ q.slots \in Slots(c, S)
    BY <2>1 DEF AgeState, AgeFields
  <2>4. ToSet(d.bust) \subseteq ToSet(q.bust)
    BY <2>2, <2>3, WithoutLess
  <2> HIDE DEF d
  <2>5. ToSet(q.bust) \subseteq Indices(c)
    BY <2>3 DEF ToSet
  <2> QED
    BY <1>2, <2>2, <2>3, <2>4, <2>5 DEF d, Listening, Slots
<1> QED
  BY <1>1, <1>2

\* An allocation in a queue that clears its slots.
LEMMA SchedAllocated ==
  ASSUME NEW c, c.order = "In-Age-Order", c.entries \in Nat \ {0}, NEW S,
         NEW x \in SchedState(c, S), GetAvailibleEntryCount(c, x.q) # 0, NEW e, NEW home,
         NEW place, SchedHolds(c, x, e, home, place)
  PROVE  SchedHolds(c, Allocated(c, x), e, home, place)
<1> DEFINE i == NextIndex(c, x.q)
           a == Allocated(c, x)
<1>1. x.q \in QueueState(c, S)
  BY DEF SchedState
<1>2. a.q = AllocateEntry(c, x.q) /\ a.enq = x.enq
  BY DEF SchedState, Allocated
<1>3. /\ \A j \in Listening(c, a.q) : j # i => j \in Listening(c, x.q) /\ a.q.slots[j] = x.q.slots[j]
      /\ a.q.slots[i] = Nil
  <2>1. /\ \A j \in Listening(c, AllocateEntry(c, x.q)) :
             j # i => j \in Listening(c, x.q) /\ AllocateEntry(c, x.q).slots[j] = x.q.slots[j]
        /\ c.order # "In-Order" => AllocateEntry(c, x.q).slots[i] = Nil
    BY <1>1, AllocateListens
  <2> QED
    BY <1>2, <2>1
<1> HIDE DEF a, i
<1>4. \A j \in Filled(c, a, e) :
        a.q.slots[j] # Nil => j \in Filled(c, x, e) /\ a.q.slots[j] = x.q.slots[j]
  BY <1>2, <1>3 DEF Filled
<1> QED
  BY <1>2, <1>4, SchedShrinks DEF a

\* One more on its way, to the slot an in-order queue gives next.
LEMMA SchedClaimed ==
  ASSUME NEW c, c.order \in {"In-Order", "In-Age-Order"}, c.entries \in Nat \ {0}, NEW S,
         NEW x \in SchedState(c, S), GetAvailibleEntryCount(c, x.q) # 0, NEW e, NEW home,
         DOMAIN home = Ids, NEW place, NEW id \in Ids, id \in S, home[id] # place,
         SchedHolds(c, x, e, home, place)
  PROVE  SchedHolds(c, Enqueued(Allocated(c, x), NextIndex(c, x.q), id), e, Moved(home, id, place), place)
<1> DEFINE i == NextIndex(c, x.q)
           a == Allocated(c, x)
           y == Enqueued(a, i, id)
           E == [index : Int, id : S]
           z == [index |-> i, id |-> id]
<1>1. x.q \in QueueState(c, S) /\ x.enq \in Seq(E)
  BY DEF SchedState
<1>2. i \in Int
  BY <1>1, QueueNextIndex DEF Orders
<1>3. a.q = AllocateEntry(c, x.q) /\ a.enq = x.enq
  BY DEF SchedState, Allocated
<1>4. y.q = a.q /\ y.enq = Append(a.enq, z)
  BY DEF SchedState, Allocated, Enqueued
<1>5. z \in E /\ z.index = i
  BY <1>2
<1>6. /\ \A j \in Listening(c, a.q) : j # i => j \in Listening(c, x.q) /\ a.q.slots[j] = x.q.slots[j]
      /\ c.order # "In-Order" => a.q.slots[i] = Nil
  <2>1. /\ \A j \in Listening(c, AllocateEntry(c, x.q)) :
             j # i => j \in Listening(c, x.q) /\ AllocateEntry(c, x.q).slots[j] = x.q.slots[j]
        /\ c.order # "In-Order" => AllocateEntry(c, x.q).slots[i] = Nil
    BY <1>1, AllocateListens
  <2> QED
    BY <1>3, <2>1
<1> HIDE DEF a, y, z, i
<1>7. \A j \in Filled(c, y, e) : a.q.slots[j] # Nil => j # i /\ j \in Filled(c, x, e)
  <2>1. /\ DOMAIN y.enq = 1 .. (Len(x.enq) + 1) /\ Len(x.enq) \in Nat
        /\ y.enq[Len(x.enq) + 1] = z /\ DOMAIN x.enq = 1 .. Len(x.enq)
        /\ \A k \in 1 .. Len(x.enq) : y.enq[k] = x.enq[k]
    <3> HIDE DEF E
    <3> QED
      BY <1>1, <1>3, <1>4, <1>5
  <2>2. {x.enq[k].index : k \in DOMAIN x.enq} \subseteq {y.enq[k].index : k \in DOMAIN y.enq}
    <3>1. ASSUME NEW k \in DOMAIN x.enq
          PROVE  k \in DOMAIN y.enq /\ y.enq[k] = x.enq[k]
      BY <2>1
    <3> QED
      BY <3>1
  <2>3. i \in {y.enq[k].index : k \in DOMAIN y.enq}
    BY <1>5, <2>1
  <2> SUFFICES ASSUME NEW j \in Filled(c, y, e), a.q.slots[j] # Nil
               PROVE  j # i /\ j \in Filled(c, x, e)
    OBVIOUS
  <2>4. j \in Listening(c, a.q)
    BY <1>4 DEF Filled
  <2>5. j # i
    BY <1>6, <2>3 DEF Filled
  <2> QED
    BY <1>4, <1>6, <2>2, <2>4, <2>5 DEF Filled
<1>8. SchedHolds(c, a, e \union {i}, home, place)
  <2>1. \A j \in Filled(c, a, e \union {i}) : j \in Filled(c, x, e) /\ a.q.slots[j] = x.q.slots[j]
    BY <1>3, <1>6 DEF Filled
  <2> QED
    BY <1>3, <2>1, SchedShrinks
<1>9. \A j \in Filled(c, y, e) : a.q.slots[j] # Nil => j \in Filled(c, a, e \union {i})
  <2> SUFFICES ASSUME NEW j \in Filled(c, y, e), a.q.slots[j] # Nil
               PROVE  j \in Filled(c, a, e \union {i})
    OBVIOUS
  <2>1. j # i /\ j \in Filled(c, x, e) /\ j \in Listening(c, a.q)
    BY <1>4, <1>7 DEF Filled
  <2> QED
    BY <1>3, <2>1 DEF Filled
<1>10. SchedHolds(c, y, e, Moved(home, id, place), place)
  <2>1. a.enq \in Seq([index : Int, id : S])
    BY <1>1, <1>3
  <2> QED
    BY <1>2, <1>4, <1>8, <1>9, <2>1, SchedEnqueue DEF z
<1> QED
  BY <1>10 DEF y, a, i

\* The slot that was being emptied is freed.
LEMMA SchedLeft ==
  ASSUME NEW c, c.order \in {"In-Order", "In-Age-Order"}, c.entries \in Nat \ {0}, NEW S,
         NEW x \in SchedState(c, S), NEW i \in Indices(c),
         c.order = "In-Order" => x.q.usage # 0 /\ i = x.q.header, NEW e, NEW home, NEW place,
         NEW y, y.q = Deallocate(c, x.q, i), y.enq = x.enq,
         SchedHolds(c, x, e \union {i}, home, place)
  PROVE  SchedHolds(c, y, e, home, place)
<1>1. x.q \in QueueState(c, S)
  BY DEF SchedState
<1>2. \A j \in Listening(c, y.q) :
        y.q.slots[j] # Nil => j # i /\ j \in Listening(c, x.q) /\ y.q.slots[j] = x.q.slots[j]
  BY <1>1, DeallocateListens
<1>3. \A j \in Filled(c, y, e) :
        y.q.slots[j] # Nil => j \in Filled(c, x, e \union {i}) /\ y.q.slots[j] = x.q.slots[j]
  BY <1>2 DEF Filled
<1> QED
  BY <1>3, SchedShrinks

\* The end of a tick.
LEMMA SchedAdvances ==
  ASSUME NEW c, c.order \in {"In-Order", "In-Age-Order"}, c.entries \in Nat \ {0}, NEW S,
         S \subseteq Ids, NEW x \in SchedState(c, S), NEW home, NEW place,
         ~x.flush, SchedHolds(c, x, {}, home, place)
  PROVE  SchedHolds(c, AdvanceSched(c, x), {}, home, place) /\ ~AdvanceSched(c, x).flush
         /\ AdvanceSched(c, x).enq = <<>>
<1> DEFINE y == AdvanceSched(c, x)
           q == DispatchEntries(x.q, x.enq)
           E == [index : Int, id : S]
           Given(i) == {k \in DOMAIN x.enq : x.enq[k].index = i}
<1>1. y.q = q /\ y.enq = <<>> /\ y.flush = FALSE
  BY DEF AdvanceSched
<1>2. x.enq \in Seq(E) /\ x.q \in QueueState(c, S)
  BY DEF SchedState
<1>3. Listening(c, q) = Listening(c, x.q) /\ Listening(c, x.q) \subseteq DOMAIN x.q.slots
  <2>1. CASE c.order = "In-Order"
    <3>1. x.q \in RingState(c, S)
      BY <1>2, <2>1 DEF QueueState
    <3>2. q.header = x.q.header /\ q.usage = x.q.usage
      BY <3>1 DEF DispatchEntries, RingState
    <3>3. DOMAIN x.q.slots = 0 .. (c.entries - 1) /\ x.q.header \in Int
      BY <3>1 DEF RingState, Slots, Indices
    <3> HIDE DEF q
    <3>4. \A k \in 0 .. (x.q.usage - 1) : (x.q.header + k) % c.entries \in DOMAIN x.q.slots
      BY <3>3
    <3> QED
      BY <2>1, <3>2, <3>4 DEF Listening
  <2>2. CASE c.order = "In-Age-Order"
    <3>1. x.q \in AgeState(c, S)
      BY <1>2, <2>2 DEF QueueState
    <3>2. q.bust = x.q.bust
      BY <3>1 DEF DispatchEntries, AgeState, AgeFields
    <3>3. DOMAIN x.q.slots = Indices(c) /\ x.q.bust \in Seq(Indices(c))
      BY <3>1 DEF AgeState, AgeFields, Slots
    <3> HIDE DEF q
    <3> QED
      BY <2>2, <3>2, <3>3 DEF Listening, ToSet
  <2> QED
    BY <2>1, <2>2
<1>4. \A i \in DOMAIN x.q.slots :
        q.slots[i] = IF Given(i) = {} THEN x.q.slots[i] ELSE x.enq[Max(Given(i))].id
  <2>1. q = [x.q EXCEPT !.slots = [i \in DOMAIN x.q.slots |-> IF Given(i) = {} THEN x.q.slots[i] ELSE x.enq[Max(Given(i))].id]]
    BY DEF DispatchEntries
  <2>2. q.slots = [i \in DOMAIN x.q.slots |-> IF Given(i) = {} THEN x.q.slots[i] ELSE x.enq[Max(Given(i))].id]
    <3> DEFINE new == [i \in DOMAIN x.q.slots |-> IF Given(i) = {} THEN x.q.slots[i] ELSE x.enq[Max(Given(i))].id]
    <3>1. q = [x.q EXCEPT !.slots = new]
      BY <2>1
    <3> HIDE DEF new, q
    <3> QED
      BY <1>2, <3>1 DEF QueueState, RingState, AgeState, AgeFields, new
  <2> HIDE DEF q
  <2> QED
    BY <2>2
<1>5. \A i : Given(i) # {} => Max(Given(i)) \in DOMAIN x.enq /\ x.enq[Max(Given(i))].index = i
  <2> SUFFICES ASSUME NEW i, Given(i) # {} PROVE Max(Given(i)) \in Given(i)
    OBVIOUS
  <2>1. DOMAIN x.enq = 1 .. Len(x.enq) /\ Len(x.enq) \in Nat
    <3> HIDE DEF E
    <3> QED
      BY <1>2
  <2>2. Given(i) \subseteq 0 .. Len(x.enq)
    BY <2>1
  <2> HIDE DEF Last
  <2> QED
    BY <2>1, <2>2, LargestOfSet
<1> DEFINE entry(i) == Max(Given(i))
<1>6. \A i \in Listening(c, q) :
        \/ q.slots[i] = x.q.slots[i] /\ i \in Filled(c, x, {})
        \/ entry(i) \in DOMAIN x.enq /\ x.enq[entry(i)].index = i /\ q.slots[i] = x.enq[entry(i)].id
  <2> SUFFICES ASSUME NEW i \in Listening(c, q)
               PROVE  \/ q.slots[i] = x.q.slots[i] /\ i \in Filled(c, x, {})
                      \/ /\ entry(i) \in DOMAIN x.enq /\ x.enq[entry(i)].index = i
                         /\ q.slots[i] = x.enq[entry(i)].id
    OBVIOUS
  <2>1. i \in DOMAIN x.q.slots /\ i \in Listening(c, x.q)
    BY <1>3
  <2>2. CASE Given(i) = {}
    <3>1. i \notin {x.enq[k].index : k \in DOMAIN x.enq}
      BY <2>2
    <3> HIDE DEF q
    <3> QED
      BY <1>4, <2>1, <2>2, <3>1 DEF Filled
  <2>3. CASE Given(i) # {}
    <3> HIDE DEF q, Last
    <3> QED
      BY <1>4, <1>5, <2>1, <2>3
  <2> QED
    BY <2>2, <2>3
<1> HIDE DEF q, entry, Last, E, y
<1>7. \A i \in Listening(c, q) : q.slots[i] # Nil => IsAt(home, q.slots[i], place)
  <2> SUFFICES ASSUME NEW i \in Listening(c, q), q.slots[i] # Nil PROVE IsAt(home, q.slots[i], place)
    OBVIOUS
  <2> QED
    BY <1>6 DEF SchedHolds
<1>8. ASSUME NEW i \in Listening(c, q), NEW j \in Listening(c, q), q.slots[i] = q.slots[j], q.slots[i] # Nil
      PROVE  i = j
  <2>1. CASE /\ q.slots[i] = x.q.slots[i] /\ i \in Filled(c, x, {})
             /\ q.slots[j] = x.q.slots[j] /\ j \in Filled(c, x, {})
    BY <1>8, <2>1 DEF SchedHolds
  <2>2. CASE /\ entry(i) \in DOMAIN x.enq /\ x.enq[entry(i)].index = i /\ q.slots[i] = x.enq[entry(i)].id
             /\ q.slots[j] = x.q.slots[j] /\ j \in Filled(c, x, {})
    BY <1>8, <2>2 DEF SchedHolds
  <2>3. CASE /\ entry(j) \in DOMAIN x.enq /\ x.enq[entry(j)].index = j /\ q.slots[j] = x.enq[entry(j)].id
             /\ q.slots[i] = x.q.slots[i] /\ i \in Filled(c, x, {})
    BY <1>8, <2>3 DEF SchedHolds
  <2>4. CASE /\ entry(i) \in DOMAIN x.enq /\ x.enq[entry(i)].index = i /\ q.slots[i] = x.enq[entry(i)].id
             /\ entry(j) \in DOMAIN x.enq /\ x.enq[entry(j)].index = j /\ q.slots[j] = x.enq[entry(j)].id
    <3>1. entry(i) = entry(j)
      BY <1>8, <2>4 DEF SchedHolds
    <3> QED
      BY <2>4, <3>1
  <2> QED
    BY <1>6, <2>1, <2>2, <2>3, <2>4
<1>9. Filled(c, y, {}) \subseteq Listening(c, q) /\ DOMAIN y.enq = {}
  BY <1>1 DEF Filled
<1> QED
  BY <1>1, <1>7, <1>8, <1>9 DEF SchedHolds, y

LEMMA SchedResets ==
  ASSUME NEW c, c.order \in {"In-Order", "In-Age-Order"}, NEW x, x.flush, NEW home, NEW place
  PROVE  SchedHolds(c, AdvanceSched(c, x), {}, home, place) /\ ~AdvanceSched(c, x).flush
         /\ AdvanceSched(c, x).enq = <<>>
<1> DEFINE y == AdvanceSched(c, x)
           q == DispatchEntries(x.q, x.enq)
<1>1. y.q = ResetQueue(c, q) /\ y.enq = <<>> /\ y.flush = FALSE
  BY DEF AdvanceSched
<1>2. Listening(c, y.q) = {}
  <2>1. CASE c.order = "In-Order"
    <3>1. y.q.usage = 0
      BY <1>1, <2>1 DEF ResetQueue, Vacant
    <3> QED
      BY <2>1, <3>1 DEF Listening
  <2>2. CASE c.order = "In-Age-Order"
    <3>1. y.q.bust = <<>>
      BY <1>1, <2>2 DEF ResetQueue, Vacant
    <3> QED
      BY <2>2, <3>1 DEF Listening, ToSet
  <2> QED
    BY <2>1, <2>2
<1> HIDE DEF y
<1>3. Filled(c, y, {}) = {} /\ DOMAIN y.enq = {}
  BY <1>1, <1>2 DEF Filled
<1> QED
  BY <1>1, <1>3 DEF SchedHolds, y

-----------------------------------------------------------------------------
(* One instruction changes its place.                                      *)

LEMMA PartsElsewhere ==
  ASSUME NEW m, NEW n, NEW home, DOMAIN home = Ids, NEW id \in Ids, NEW q
  PROVE  /\ \A s, gaps : SchedAt(m, s, gaps, home) /\ home[id] # AtSched(s) /\ n.sched[s] = m.sched[s]
                         => SchedAt(n, s, gaps, Moved(home, id, q))
         /\ \A p, ports : PortAt(m, p, ports, home) /\ home[id] # AtPort(p) /\ n.port[p] = m.port[p]
                          => PortAt(n, p, ports, Moved(home, id, q))
         /\ \A u, pipes : PipeAt(m, u, pipes, home) /\ home[id] # AtPipe(u) /\ n.unit[u].pipe = m.unit[u].pipe
                          => PipeAt(n, u, pipes, Moved(home, id, q))
         /\ \A u, caches : CacheAt(m, u, caches, home) /\ home[id] # AtCache(u)
                           /\ n.unit[u].dCache = m.unit[u].dCache
                          => CacheAt(n, u, caches, Moved(home, id, q))
         /\ \A w, wbs : WbAt(m, w, wbs, home) /\ home[id] # AtWb(w) /\ n.wb[w] = m.wb[w]
                        => WbAt(n, w, wbs, Moved(home, id, q))
         /\ LdqAt(m, home) /\ home[id] # AtLdq /\ n.ldq = m.ldq => LdqAt(n, Moved(home, id, q))
<1>1. \A s, gaps : SchedAt(m, s, gaps, home) /\ home[id] # AtSched(s) /\ n.sched[s] = m.sched[s]
                   => SchedAt(n, s, gaps, Moved(home, id, q))
  BY SchedElsewhere DEF SchedAt
<1>2. \A p, ports : PortAt(m, p, ports, home) /\ home[id] # AtPort(p) /\ n.port[p] = m.port[p]
                    => PortAt(n, p, ports, Moved(home, id, q))
  BY LatchElsewhere DEF PortAt
<1>3. \A u, pipes : PipeAt(m, u, pipes, home) /\ home[id] # AtPipe(u) /\ n.unit[u].pipe = m.unit[u].pipe
                    => PipeAt(n, u, pipes, Moved(home, id, q))
  BY LatchElsewhere DEF PipeAt
<1>4. \A u, caches : CacheAt(m, u, caches, home) /\ home[id] # AtCache(u)
                      /\ n.unit[u].dCache = m.unit[u].dCache
                     => CacheAt(n, u, caches, Moved(home, id, q))
  BY LatchElsewhere DEF CacheAt
<1>5. \A w, wbs : WbAt(m, w, wbs, home) /\ home[id] # AtWb(w) /\ n.wb[w] = m.wb[w]
                  => WbAt(n, w, wbs, Moved(home, id, q))
  BY LatchElsewhere DEF WbAt
<1>6. LdqAt(m, home) /\ home[id] # AtLdq /\ n.ldq = m.ldq => LdqAt(n, Moved(home, id, q))
  BY DEF LdqAt, IsAt, Moved
<1> QED
  BY <1>1, <1>2, <1>3, <1>4, <1>5, <1>6

\* The parts of two states that hold the same.
SamePipes(m, n) == \A u \in DOMAIN cfg.unit : n.unit[u].pipe = m.unit[u].pipe
SameCaches(m, n) == \A u \in DOMAIN cfg.unit : n.unit[u].dCache = m.unit[u].dCache

LEMMA PlacedSame ==
  ASSUME NEW m, NEW n, NEW gaps, NEW ports, NEW pipes, NEW caches, NEW wbs, NEW home,
         Placed(m, gaps, ports, pipes, caches, wbs, home),
         n.sched = m.sched, n.port = m.port, SamePipes(m, n), SameCaches(m, n), n.wb = m.wb,
         n.ldq = m.ldq
  PROVE  Placed(n, gaps, ports, pipes, caches, wbs, home)
<1>1. DOMAIN home = Ids
  BY DEF Placed
<1>2. \A s \in DOMAIN cfg.sched : SchedAt(n, s, gaps, home)
  BY DEF Placed, SchedAt
<1>3. \A p \in 1 .. cfg.ports : PortAt(n, p, ports, home)
  BY DEF Placed, PortAt
<1>4. \A u \in DOMAIN cfg.unit : PipeAt(n, u, pipes, home)
  BY DEF Placed, PipeAt, SamePipes
<1>5. \A w \in DOMAIN cfg.wb : WbAt(n, w, wbs, home)
  BY DEF Placed, WbAt
<1>6. \A u \in DOMAIN cfg.unit : CacheAt(n, u, caches, home)
  BY DEF Placed, MemoryHolds, CacheAt, SameCaches
<1>7. LdqAt(n, home)
  BY DEF Placed, MemoryHolds, LdqAt
<1> QED
  BY <1>1, <1>2, <1>3, <1>4, <1>5, <1>6, <1>7 DEF Placed, MemoryHolds

\* Fewer outputs count.
LEMMA PlacedLess ==
  ASSUME NEW m, NEW gaps, NEW ports, NEW pipes, NEW caches, NEW wbs, NEW home,
         Placed(m, gaps, ports, pipes, caches, wbs, home),
         NEW P \in SUBSET ports, NEW U \in SUBSET pipes, NEW D \in SUBSET caches, NEW W \in SUBSET wbs
  PROVE  Placed(m, gaps, P, U, D, W, home)
<1>1. \A p \in 1 .. cfg.ports : PortAt(m, p, P, home)
  BY LatchWeaker DEF Placed, PortAt
<1>2. \A u \in DOMAIN cfg.unit : PipeAt(m, u, U, home)
  BY LatchWeaker DEF Placed, PipeAt
<1>3. \A w \in DOMAIN cfg.wb : WbAt(m, w, W, home)
  BY LatchWeaker DEF Placed, WbAt
<1>4. \A u \in DOMAIN cfg.unit : CacheAt(m, u, D, home)
  BY LatchWeaker DEF Placed, MemoryHolds, CacheAt
<1> QED
  BY <1>1, <1>2, <1>3, <1>4 DEF Placed, MemoryHolds

LEMMA PlacedAtSched ==
  ASSUME NEW m, NEW n, NEW gaps, NEW ports, NEW pipes, NEW caches, NEW wbs, NEW home,
         Placed(m, gaps, ports, pipes, caches, wbs, home), NEW id \in Ids, NEW q,
         NEW s \in DOMAIN cfg.sched, home[id] \in {Nowhere, AtSched(s)},
         \A t \in DOMAIN cfg.sched : t # s => n.sched[t] = m.sched[t],
         n.port = m.port,
         SamePipes(m, n),
         SameCaches(m, n),
         n.wb = m.wb,
         n.ldq = m.ldq,
         NEW G, \A t \in DOMAIN cfg.sched : t # s => \A i : <<t, i>> \in G <=> <<t, i>> \in gaps,
         SchedAt(n, s, G, Moved(home, id, q))
  PROVE  Placed(n, G, ports, pipes, caches, wbs, Moved(home, id, q))
<1>1. DOMAIN home = Ids /\ DOMAIN Moved(home, id, q) = Ids
  BY MoveFacts DEF Placed
<1>2. \A t \in DOMAIN cfg.sched : SchedAt(n, t, G, Moved(home, id, q))
  <2> SUFFICES ASSUME NEW t \in DOMAIN cfg.sched PROVE SchedAt(n, t, G, Moved(home, id, q))
    OBVIOUS
  <2>1. SchedAt(m, t, gaps, home)
    BY DEF Placed, MemoryHolds
  <2>2. CASE t = s
    BY <2>2
  <2>3. CASE t # s
    <3>1. home[id] # AtSched(t)
      BY <2>3, PlacesDiffer
    <3>2. SchedAt(n, t, gaps, Moved(home, id, q))
      BY <1>1, <2>1, <2>3, <3>1, PartsElsewhere
    <3> QED
      BY <2>3, <3>2 DEF SchedAt
  <2> QED
    BY <2>2, <2>3
<1>3. \A r \in 1 .. cfg.ports : PortAt(n, r, ports, Moved(home, id, q))
  <2> SUFFICES ASSUME NEW r \in 1 .. cfg.ports PROVE PortAt(n, r, ports, Moved(home, id, q))
    OBVIOUS
  <2>1. PortAt(m, r, ports, home)
    BY DEF Placed, MemoryHolds
  <2>2. home[id] # AtPort(r)
    BY PlacesDiffer
  <2> QED
    BY <1>1, <2>1, <2>2, PartsElsewhere DEF Placed
<1>4. \A v \in DOMAIN cfg.unit : PipeAt(n, v, pipes, Moved(home, id, q))
  <2> SUFFICES ASSUME NEW v \in DOMAIN cfg.unit PROVE PipeAt(n, v, pipes, Moved(home, id, q))
    OBVIOUS
  <2>1. PipeAt(m, v, pipes, home)
    BY DEF Placed, MemoryHolds
  <2>2. home[id] # AtPipe(v)
    BY PlacesDiffer
  <2> QED
    BY <1>1, <2>1, <2>2, PartsElsewhere DEF Placed, SamePipes
<1>5. \A v \in DOMAIN cfg.unit : CacheAt(n, v, caches, Moved(home, id, q))
  <2> SUFFICES ASSUME NEW v \in DOMAIN cfg.unit PROVE CacheAt(n, v, caches, Moved(home, id, q))
    OBVIOUS
  <2>1. CacheAt(m, v, caches, home)
    BY DEF Placed, MemoryHolds
  <2>2. home[id] # AtCache(v)
    BY PlacesDiffer
  <2> QED
    BY <1>1, <2>1, <2>2, PartsElsewhere DEF Placed, SameCaches
<1>6. \A x \in DOMAIN cfg.wb : WbAt(n, x, wbs, Moved(home, id, q))
  <2> SUFFICES ASSUME NEW x \in DOMAIN cfg.wb PROVE WbAt(n, x, wbs, Moved(home, id, q))
    OBVIOUS
  <2>1. WbAt(m, x, wbs, home)
    BY DEF Placed, MemoryHolds
  <2>2. home[id] # AtWb(x)
    BY PlacesDiffer
  <2> QED
    BY <1>1, <2>1, <2>2, PartsElsewhere DEF Placed
<1>7. LdqAt(n, Moved(home, id, q))
  <2>1. home[id] # AtLdq
    BY PlacesDiffer
  <2> QED
    BY <1>1, <2>1, PartsElsewhere DEF Placed, MemoryHolds
<1> QED
  BY <1>1, <1>2, <1>3, <1>4, <1>5, <1>6, <1>7 DEF Placed, MemoryHolds

LEMMA PlacedAtPort ==
  ASSUME NEW m, NEW n, NEW gaps, NEW ports, NEW pipes, NEW caches, NEW wbs, NEW home,
         Placed(m, gaps, ports, pipes, caches, wbs, home), NEW id \in Ids, NEW q,
         NEW p \in 1 .. cfg.ports, home[id] \in {Nowhere, AtPort(p)},
         n.sched = m.sched,
         \A r \in 1 .. cfg.ports : r # p => n.port[r] = m.port[r],
         SamePipes(m, n),
         SameCaches(m, n),
         n.wb = m.wb,
         n.ldq = m.ldq,
         NEW P, \A r \in 1 .. cfg.ports : r # p => (r \in P <=> r \in ports),
         PortAt(n, p, P, Moved(home, id, q))
  PROVE  Placed(n, gaps, P, pipes, caches, wbs, Moved(home, id, q))
<1>1. DOMAIN home = Ids /\ DOMAIN Moved(home, id, q) = Ids
  BY MoveFacts DEF Placed
<1>2. \A t \in DOMAIN cfg.sched : SchedAt(n, t, gaps, Moved(home, id, q))
  <2> SUFFICES ASSUME NEW t \in DOMAIN cfg.sched PROVE SchedAt(n, t, gaps, Moved(home, id, q))
    OBVIOUS
  <2>1. SchedAt(m, t, gaps, home)
    BY DEF Placed, MemoryHolds
  <2>2. home[id] # AtSched(t)
    BY PlacesDiffer
  <2> QED
    BY <1>1, <2>1, <2>2, PartsElsewhere DEF Placed
<1>3. \A r \in 1 .. cfg.ports : PortAt(n, r, P, Moved(home, id, q))
  <2> SUFFICES ASSUME NEW r \in 1 .. cfg.ports PROVE PortAt(n, r, P, Moved(home, id, q))
    OBVIOUS
  <2>1. PortAt(m, r, ports, home)
    BY DEF Placed, MemoryHolds
  <2>2. CASE r = p
    BY <2>2
  <2>3. CASE r # p
    <3>1. home[id] # AtPort(r)
      BY <2>3, PlacesDiffer
    <3>2. PortAt(n, r, ports, Moved(home, id, q))
      BY <1>1, <2>1, <2>3, <3>1, PartsElsewhere
    <3> QED
      BY <2>3, <3>2 DEF PortAt
  <2> QED
    BY <2>2, <2>3
<1>4. \A v \in DOMAIN cfg.unit : PipeAt(n, v, pipes, Moved(home, id, q))
  <2> SUFFICES ASSUME NEW v \in DOMAIN cfg.unit PROVE PipeAt(n, v, pipes, Moved(home, id, q))
    OBVIOUS
  <2>1. PipeAt(m, v, pipes, home)
    BY DEF Placed, MemoryHolds
  <2>2. home[id] # AtPipe(v)
    BY PlacesDiffer
  <2> QED
    BY <1>1, <2>1, <2>2, PartsElsewhere DEF Placed, SamePipes
<1>5. \A v \in DOMAIN cfg.unit : CacheAt(n, v, caches, Moved(home, id, q))
  <2> SUFFICES ASSUME NEW v \in DOMAIN cfg.unit PROVE CacheAt(n, v, caches, Moved(home, id, q))
    OBVIOUS
  <2>1. CacheAt(m, v, caches, home)
    BY DEF Placed, MemoryHolds
  <2>2. home[id] # AtCache(v)
    BY PlacesDiffer
  <2> QED
    BY <1>1, <2>1, <2>2, PartsElsewhere DEF Placed, SameCaches
<1>6. \A x \in DOMAIN cfg.wb : WbAt(n, x, wbs, Moved(home, id, q))
  <2> SUFFICES ASSUME NEW x \in DOMAIN cfg.wb PROVE WbAt(n, x, wbs, Moved(home, id, q))
    OBVIOUS
  <2>1. WbAt(m, x, wbs, home)
    BY DEF Placed, MemoryHolds
  <2>2. home[id] # AtWb(x)
    BY PlacesDiffer
  <2> QED
    BY <1>1, <2>1, <2>2, PartsElsewhere DEF Placed
<1>7. LdqAt(n, Moved(home, id, q))
  <2>1. home[id] # AtLdq
    BY PlacesDiffer
  <2> QED
    BY <1>1, <2>1, PartsElsewhere DEF Placed, MemoryHolds
<1> QED
  BY <1>1, <1>2, <1>3, <1>4, <1>5, <1>6, <1>7 DEF Placed, MemoryHolds

LEMMA PlacedAtPipe ==
  ASSUME NEW m, NEW n, NEW gaps, NEW ports, NEW pipes, NEW caches, NEW wbs, NEW home,
         Placed(m, gaps, ports, pipes, caches, wbs, home), NEW id \in Ids, NEW q,
         NEW u \in DOMAIN cfg.unit, home[id] \in {Nowhere, AtPipe(u)},
         n.sched = m.sched,
         n.port = m.port,
         \A v \in DOMAIN cfg.unit : v # u => n.unit[v].pipe = m.unit[v].pipe,
         SameCaches(m, n),
         n.wb = m.wb,
         n.ldq = m.ldq,
         NEW U, \A v \in DOMAIN cfg.unit : v # u => (v \in U <=> v \in pipes),
         PipeAt(n, u, U, Moved(home, id, q))
  PROVE  Placed(n, gaps, ports, U, caches, wbs, Moved(home, id, q))
<1>1. DOMAIN home = Ids /\ DOMAIN Moved(home, id, q) = Ids
  BY MoveFacts DEF Placed
<1>2. \A t \in DOMAIN cfg.sched : SchedAt(n, t, gaps, Moved(home, id, q))
  <2> SUFFICES ASSUME NEW t \in DOMAIN cfg.sched PROVE SchedAt(n, t, gaps, Moved(home, id, q))
    OBVIOUS
  <2>1. SchedAt(m, t, gaps, home)
    BY DEF Placed, MemoryHolds
  <2>2. home[id] # AtSched(t)
    BY PlacesDiffer
  <2> QED
    BY <1>1, <2>1, <2>2, PartsElsewhere DEF Placed
<1>3. \A r \in 1 .. cfg.ports : PortAt(n, r, ports, Moved(home, id, q))
  <2> SUFFICES ASSUME NEW r \in 1 .. cfg.ports PROVE PortAt(n, r, ports, Moved(home, id, q))
    OBVIOUS
  <2>1. PortAt(m, r, ports, home)
    BY DEF Placed, MemoryHolds
  <2>2. home[id] # AtPort(r)
    BY PlacesDiffer
  <2> QED
    BY <1>1, <2>1, <2>2, PartsElsewhere DEF Placed
<1>4. \A v \in DOMAIN cfg.unit : PipeAt(n, v, U, Moved(home, id, q))
  <2> SUFFICES ASSUME NEW v \in DOMAIN cfg.unit PROVE PipeAt(n, v, U, Moved(home, id, q))
    OBVIOUS
  <2>1. PipeAt(m, v, pipes, home)
    BY DEF Placed, MemoryHolds
  <2>2. CASE v = u
    BY <2>2
  <2>3. CASE v # u
    <3>1. home[id] # AtPipe(v)
      BY <2>3, PlacesDiffer
    <3>2. PipeAt(n, v, pipes, Moved(home, id, q))
      BY <1>1, <2>1, <2>3, <3>1, PartsElsewhere
    <3> QED
      BY <2>3, <3>2 DEF PipeAt
  <2> QED
    BY <2>2, <2>3
<1>5. \A v \in DOMAIN cfg.unit : CacheAt(n, v, caches, Moved(home, id, q))
  <2> SUFFICES ASSUME NEW v \in DOMAIN cfg.unit PROVE CacheAt(n, v, caches, Moved(home, id, q))
    OBVIOUS
  <2>1. CacheAt(m, v, caches, home)
    BY DEF Placed, MemoryHolds
  <2>2. home[id] # AtCache(v)
    BY PlacesDiffer
  <2> QED
    BY <1>1, <2>1, <2>2, PartsElsewhere DEF Placed, SameCaches
<1>6. \A x \in DOMAIN cfg.wb : WbAt(n, x, wbs, Moved(home, id, q))
  <2> SUFFICES ASSUME NEW x \in DOMAIN cfg.wb PROVE WbAt(n, x, wbs, Moved(home, id, q))
    OBVIOUS
  <2>1. WbAt(m, x, wbs, home)
    BY DEF Placed, MemoryHolds
  <2>2. home[id] # AtWb(x)
    BY PlacesDiffer
  <2> QED
    BY <1>1, <2>1, <2>2, PartsElsewhere DEF Placed
<1>7. LdqAt(n, Moved(home, id, q))
  <2>1. home[id] # AtLdq
    BY PlacesDiffer
  <2> QED
    BY <1>1, <2>1, PartsElsewhere DEF Placed, MemoryHolds
<1> QED
  BY <1>1, <1>2, <1>3, <1>4, <1>5, <1>6, <1>7 DEF Placed, MemoryHolds

LEMMA PlacedAtCache ==
  ASSUME NEW m, NEW n, NEW gaps, NEW ports, NEW pipes, NEW caches, NEW wbs, NEW home,
         Placed(m, gaps, ports, pipes, caches, wbs, home), NEW id \in Ids, NEW q,
         NEW u \in DOMAIN cfg.unit, home[id] \in {Nowhere, AtCache(u)},
         n.sched = m.sched,
         n.port = m.port,
         SamePipes(m, n),
         \A v \in DOMAIN cfg.unit : v # u => n.unit[v].dCache = m.unit[v].dCache,
         n.wb = m.wb,
         n.ldq = m.ldq,
         NEW D, \A v \in DOMAIN cfg.unit : v # u => (v \in D <=> v \in caches),
         CacheAt(n, u, D, Moved(home, id, q))
  PROVE  Placed(n, gaps, ports, pipes, D, wbs, Moved(home, id, q))
<1>1. DOMAIN home = Ids /\ DOMAIN Moved(home, id, q) = Ids
  BY MoveFacts DEF Placed
<1>2. \A t \in DOMAIN cfg.sched : SchedAt(n, t, gaps, Moved(home, id, q))
  <2> SUFFICES ASSUME NEW t \in DOMAIN cfg.sched PROVE SchedAt(n, t, gaps, Moved(home, id, q))
    OBVIOUS
  <2>1. SchedAt(m, t, gaps, home)
    BY DEF Placed, MemoryHolds
  <2>2. home[id] # AtSched(t)
    BY PlacesDiffer
  <2> QED
    BY <1>1, <2>1, <2>2, PartsElsewhere DEF Placed
<1>3. \A r \in 1 .. cfg.ports : PortAt(n, r, ports, Moved(home, id, q))
  <2> SUFFICES ASSUME NEW r \in 1 .. cfg.ports PROVE PortAt(n, r, ports, Moved(home, id, q))
    OBVIOUS
  <2>1. PortAt(m, r, ports, home)
    BY DEF Placed, MemoryHolds
  <2>2. home[id] # AtPort(r)
    BY PlacesDiffer
  <2> QED
    BY <1>1, <2>1, <2>2, PartsElsewhere DEF Placed
<1>4. \A v \in DOMAIN cfg.unit : PipeAt(n, v, pipes, Moved(home, id, q))
  <2> SUFFICES ASSUME NEW v \in DOMAIN cfg.unit PROVE PipeAt(n, v, pipes, Moved(home, id, q))
    OBVIOUS
  <2>1. PipeAt(m, v, pipes, home)
    BY DEF Placed, MemoryHolds
  <2>2. home[id] # AtPipe(v)
    BY PlacesDiffer
  <2> QED
    BY <1>1, <2>1, <2>2, PartsElsewhere DEF Placed, SamePipes
<1>5. \A v \in DOMAIN cfg.unit : CacheAt(n, v, D, Moved(home, id, q))
  <2> SUFFICES ASSUME NEW v \in DOMAIN cfg.unit PROVE CacheAt(n, v, D, Moved(home, id, q))
    OBVIOUS
  <2>1. CacheAt(m, v, caches, home)
    BY DEF Placed, MemoryHolds
  <2>2. CASE v = u
    BY <2>2
  <2>3. CASE v # u
    <3>1. home[id] # AtCache(v)
      BY <2>3, PlacesDiffer
    <3>2. CacheAt(n, v, caches, Moved(home, id, q))
      BY <1>1, <2>1, <2>3, <3>1, PartsElsewhere
    <3> QED
      BY <2>3, <3>2 DEF CacheAt, LatchHolds
  <2> QED
    BY <2>2, <2>3
<1>6. \A x \in DOMAIN cfg.wb : WbAt(n, x, wbs, Moved(home, id, q))
  <2> SUFFICES ASSUME NEW x \in DOMAIN cfg.wb PROVE WbAt(n, x, wbs, Moved(home, id, q))
    OBVIOUS
  <2>1. WbAt(m, x, wbs, home)
    BY DEF Placed, MemoryHolds
  <2>2. home[id] # AtWb(x)
    BY PlacesDiffer
  <2> QED
    BY <1>1, <2>1, <2>2, PartsElsewhere DEF Placed
<1>7. LdqAt(n, Moved(home, id, q))
  <2>1. home[id] # AtLdq
    BY PlacesDiffer
  <2> QED
    BY <1>1, <2>1, PartsElsewhere DEF Placed, MemoryHolds
<1> QED
  BY <1>1, <1>2, <1>3, <1>4, <1>5, <1>6, <1>7 DEF Placed, MemoryHolds

LEMMA PlacedAtWb ==
  ASSUME NEW m, NEW n, NEW gaps, NEW ports, NEW pipes, NEW caches, NEW wbs, NEW home,
         Placed(m, gaps, ports, pipes, caches, wbs, home), NEW id \in Ids, NEW q,
         NEW w \in DOMAIN cfg.wb, home[id] \in {Nowhere, AtWb(w)},
         n.sched = m.sched,
         n.port = m.port,
         SamePipes(m, n),
         SameCaches(m, n),
         \A v \in DOMAIN cfg.wb : v # w => n.wb[v] = m.wb[v],
         n.ldq = m.ldq,
         NEW W, \A v \in DOMAIN cfg.wb : v # w => (v \in W <=> v \in wbs),
         WbAt(n, w, W, Moved(home, id, q))
  PROVE  Placed(n, gaps, ports, pipes, caches, W, Moved(home, id, q))
<1>1. DOMAIN home = Ids /\ DOMAIN Moved(home, id, q) = Ids
  BY MoveFacts DEF Placed
<1>2. \A t \in DOMAIN cfg.sched : SchedAt(n, t, gaps, Moved(home, id, q))
  <2> SUFFICES ASSUME NEW t \in DOMAIN cfg.sched PROVE SchedAt(n, t, gaps, Moved(home, id, q))
    OBVIOUS
  <2>1. SchedAt(m, t, gaps, home)
    BY DEF Placed, MemoryHolds
  <2>2. home[id] # AtSched(t)
    BY PlacesDiffer
  <2> QED
    BY <1>1, <2>1, <2>2, PartsElsewhere DEF Placed
<1>3. \A r \in 1 .. cfg.ports : PortAt(n, r, ports, Moved(home, id, q))
  <2> SUFFICES ASSUME NEW r \in 1 .. cfg.ports PROVE PortAt(n, r, ports, Moved(home, id, q))
    OBVIOUS
  <2>1. PortAt(m, r, ports, home)
    BY DEF Placed, MemoryHolds
  <2>2. home[id] # AtPort(r)
    BY PlacesDiffer
  <2> QED
    BY <1>1, <2>1, <2>2, PartsElsewhere DEF Placed
<1>4. \A v \in DOMAIN cfg.unit : PipeAt(n, v, pipes, Moved(home, id, q))
  <2> SUFFICES ASSUME NEW v \in DOMAIN cfg.unit PROVE PipeAt(n, v, pipes, Moved(home, id, q))
    OBVIOUS
  <2>1. PipeAt(m, v, pipes, home)
    BY DEF Placed, MemoryHolds
  <2>2. home[id] # AtPipe(v)
    BY PlacesDiffer
  <2> QED
    BY <1>1, <2>1, <2>2, PartsElsewhere DEF Placed, SamePipes
<1>5. \A v \in DOMAIN cfg.unit : CacheAt(n, v, caches, Moved(home, id, q))
  <2> SUFFICES ASSUME NEW v \in DOMAIN cfg.unit PROVE CacheAt(n, v, caches, Moved(home, id, q))
    OBVIOUS
  <2>1. CacheAt(m, v, caches, home)
    BY DEF Placed, MemoryHolds
  <2>2. home[id] # AtCache(v)
    BY PlacesDiffer
  <2> QED
    BY <1>1, <2>1, <2>2, PartsElsewhere DEF Placed, SameCaches
<1>6. \A x \in DOMAIN cfg.wb : WbAt(n, x, W, Moved(home, id, q))
  <2> SUFFICES ASSUME NEW x \in DOMAIN cfg.wb PROVE WbAt(n, x, W, Moved(home, id, q))
    OBVIOUS
  <2>1. WbAt(m, x, wbs, home)
    BY DEF Placed, MemoryHolds
  <2>2. CASE x = w
    BY <2>2
  <2>3. CASE x # w
    <3>1. home[id] # AtWb(x)
      BY <2>3, PlacesDiffer
    <3>2. WbAt(n, x, wbs, Moved(home, id, q))
      BY <1>1, <2>1, <2>3, <3>1, PartsElsewhere
    <3> QED
      BY <2>3, <3>2 DEF WbAt, LatchHolds
  <2> QED
    BY <2>2, <2>3
<1>7. LdqAt(n, Moved(home, id, q))
  <2>1. home[id] # AtLdq
    BY PlacesDiffer
  <2> QED
    BY <1>1, <2>1, PartsElsewhere DEF Placed, MemoryHolds
<1> QED
  BY <1>1, <1>2, <1>3, <1>4, <1>5, <1>6, <1>7 DEF Placed, MemoryHolds

LEMMA PlacedAtLdq ==
  ASSUME NEW m, NEW n, NEW gaps, NEW ports, NEW pipes, NEW caches, NEW wbs, NEW home,
         Placed(m, gaps, ports, pipes, caches, wbs, home), NEW id \in Ids, NEW q,
         home[id] \in {Nowhere, AtLdq},
         n.sched = m.sched,
         n.port = m.port,
         SamePipes(m, n),
         SameCaches(m, n),
         n.wb = m.wb,
         LdqAt(n, Moved(home, id, q))
  PROVE  Placed(n, gaps, ports, pipes, caches, wbs, Moved(home, id, q))
<1>1. DOMAIN home = Ids /\ DOMAIN Moved(home, id, q) = Ids
  BY MoveFacts DEF Placed
<1>2. \A t \in DOMAIN cfg.sched : SchedAt(n, t, gaps, Moved(home, id, q))
  <2> SUFFICES ASSUME NEW t \in DOMAIN cfg.sched PROVE SchedAt(n, t, gaps, Moved(home, id, q))
    OBVIOUS
  <2>1. SchedAt(m, t, gaps, home)
    BY DEF Placed, MemoryHolds
  <2>2. home[id] # AtSched(t)
    BY PlacesDiffer
  <2> QED
    BY <1>1, <2>1, <2>2, PartsElsewhere DEF Placed
<1>3. \A r \in 1 .. cfg.ports : PortAt(n, r, ports, Moved(home, id, q))
  <2> SUFFICES ASSUME NEW r \in 1 .. cfg.ports PROVE PortAt(n, r, ports, Moved(home, id, q))
    OBVIOUS
  <2>1. PortAt(m, r, ports, home)
    BY DEF Placed, MemoryHolds
  <2>2. home[id] # AtPort(r)
    BY PlacesDiffer
  <2> QED
    BY <1>1, <2>1, <2>2, PartsElsewhere DEF Placed
<1>4. \A v \in DOMAIN cfg.unit : PipeAt(n, v, pipes, Moved(home, id, q))
  <2> SUFFICES ASSUME NEW v \in DOMAIN cfg.unit PROVE PipeAt(n, v, pipes, Moved(home, id, q))
    OBVIOUS
  <2>1. PipeAt(m, v, pipes, home)
    BY DEF Placed, MemoryHolds
  <2>2. home[id] # AtPipe(v)
    BY PlacesDiffer
  <2> QED
    BY <1>1, <2>1, <2>2, PartsElsewhere DEF Placed, SamePipes
<1>5. \A v \in DOMAIN cfg.unit : CacheAt(n, v, caches, Moved(home, id, q))
  <2> SUFFICES ASSUME NEW v \in DOMAIN cfg.unit PROVE CacheAt(n, v, caches, Moved(home, id, q))
    OBVIOUS
  <2>1. CacheAt(m, v, caches, home)
    BY DEF Placed, MemoryHolds
  <2>2. home[id] # AtCache(v)
    BY PlacesDiffer
  <2> QED
    BY <1>1, <2>1, <2>2, PartsElsewhere DEF Placed, SameCaches
<1>6. \A x \in DOMAIN cfg.wb : WbAt(n, x, wbs, Moved(home, id, q))
  <2> SUFFICES ASSUME NEW x \in DOMAIN cfg.wb PROVE WbAt(n, x, wbs, Moved(home, id, q))
    OBVIOUS
  <2>1. WbAt(m, x, wbs, home)
    BY DEF Placed, MemoryHolds
  <2>2. home[id] # AtWb(x)
    BY PlacesDiffer
  <2> QED
    BY <1>1, <2>1, <2>2, PartsElsewhere DEF Placed
<1> QED
  BY <1>1, <1>2, <1>3, <1>4, <1>5, <1>6 DEF Placed, MemoryHolds

-----------------------------------------------------------------------------
(* What leaves a part is nowhere before it is somewhere else.              *)

LEMMA NowhereFrom ==
  ASSUME NEW home, DOMAIN home = Ids, NEW id \in Ids
  PROVE  Moved(home, id, Nowhere)[id] = Nowhere
BY DEF Moved

LEMMA TakeSlot ==
  ASSUME NEW m, NEW gaps, NEW ports, NEW pipes, NEW caches, NEW wbs, NEW home,
         Placed(m, gaps, ports, pipes, caches, wbs, home),
         NEW s \in DOMAIN cfg.sched, NEW i \in Indices(cfg.sched[s]), <<s, i>> \notin gaps,
         i \in Filled(cfg.sched[s], m.sched[s], {}), m.sched[s].q.slots[i] # Nil
  PROVE  LET id == m.sched[s].q.slots[i]
         IN  /\ IsAt(home, id, AtSched(s))
             /\ Placed(m, gaps \union {<<s, i>>}, ports, pipes, caches, wbs, Moved(home, id, Nowhere))
<1> DEFINE id == m.sched[s].q.slots[i]
           e == {k \in Indices(cfg.sched[s]) : <<s, k>> \in gaps}
           G == gaps \union {<<s, i>>}
           f == {k \in Indices(cfg.sched[s]) : <<s, k>> \in G}
<1>1. DOMAIN home = Ids /\ SchedAt(m, s, gaps, home)
  BY DEF Placed
<1>2. SchedHolds(cfg.sched[s], m.sched[s], e, home, AtSched(s))
  BY <1>1 DEF SchedAt
<1>3. i \in Filled(cfg.sched[s], m.sched[s], e)
  BY DEF Filled
<1>4. f = e \union {i}
  OBVIOUS
<1>5. /\ IsAt(home, id, AtSched(s))
      /\ SchedHolds(cfg.sched[s], m.sched[s], f, Moved(home, id, Nowhere), AtSched(s))
  <2> HIDE DEF e, f
  <2> QED
    BY <1>1, <1>2, <1>3, <1>4, SchedTake
<1>6. SchedAt(m, s, G, Moved(home, id, Nowhere))
  BY <1>1, <1>5 DEF SchedAt
<1>7. \A t \in DOMAIN cfg.sched : t # s => \A k : <<t, k>> \in G <=> <<t, k>> \in gaps
  OBVIOUS
<1>8. id \in Ids /\ home[id] = AtSched(s)
  BY <1>5 DEF IsAt
<1>9. SamePipes(m, m) /\ SameCaches(m, m)
  BY DEF SamePipes, SameCaches
<1> HIDE DEF id, G
<1>10. Placed(m, G, ports, pipes, caches, wbs, Moved(home, id, Nowhere))
  BY <1>6, <1>7, <1>8, <1>9, PlacedAtSched
<1> QED
  BY <1>5, <1>10 DEF id, G

LEMMA TakePort ==
  ASSUME NEW m, NEW gaps, NEW ports, NEW pipes, NEW caches, NEW wbs, NEW home,
         Placed(m, gaps, ports, pipes, caches, wbs, home),
         NEW p \in 1 .. cfg.ports, p \in ports, NEW x, TB!OutPort(m.port[p], cfg.rfLatency) = x,
         x # <<>>
  PROVE  LET id == InfoName[x[1]]
         IN  /\ IsAt(home, id, AtPort(p))
             /\ Placed(m, gaps, ports \ {p}, pipes, caches, wbs, Moved(home, id, Nowhere))
<1> DEFINE id == InfoName[x[1]]
           P == ports \ {p}
<1>1. DOMAIN home = Ids /\ PortAt(m, p, ports, home)
  BY DEF Placed
<1>2. LatchHolds(m.port[p], TRUE, TRUE, InfoName, home, AtPort(p))
  BY <1>1 DEF PortAt, LatchHolds
<1>3. IsAt(home, id, AtPort(p)) /\ PortAt(m, p, P, Moved(home, id, Nowhere))
  <2>1. CASE cfg.rfLatency = 0
    <3>1. x = m.port[p].in
      BY <2>1 DEF TB!OutPort
    <3>2. /\ LatchHolds(m.port[p], FALSE, TRUE, InfoName, Moved(home, id, Nowhere), AtPort(p))
          /\ IsAt(home, id, AtPort(p))
      BY <1>1, <1>2, <3>1, LatchTakeIn
    <3> QED
      BY <1>1, <2>1, <3>2 DEF PortAt, LatchHolds
  <2>2. CASE cfg.rfLatency # 0
    <3>1. x = m.port[p].out
      BY <2>2 DEF TB!OutPort
    <3>2. /\ LatchHolds(m.port[p], TRUE, FALSE, InfoName, Moved(home, id, Nowhere), AtPort(p))
          /\ IsAt(home, id, AtPort(p))
      BY <1>1, <1>2, <3>1, LatchTakeOut
    <3> QED
      BY <1>1, <2>2, <3>2 DEF PortAt, LatchHolds
  <2> QED
    BY <2>1, <2>2
<1>4. \A r \in 1 .. cfg.ports : r # p => (r \in P <=> r \in ports)
  OBVIOUS
<1>5. id \in Ids /\ home[id] = AtPort(p)
  BY <1>3 DEF IsAt
<1>6. SamePipes(m, m) /\ SameCaches(m, m)
  BY DEF SamePipes, SameCaches
<1> HIDE DEF id, P
<1>7. Placed(m, gaps, P, pipes, caches, wbs, Moved(home, id, Nowhere))
  BY <1>3, <1>4, <1>5, <1>6, PlacedAtPort
<1> QED
  BY <1>3, <1>7 DEF id, P

LEMMA TakePipe ==
  ASSUME NEW m, NEW gaps, NEW ports, NEW pipes, NEW caches, NEW wbs, NEW home,
         Placed(m, gaps, ports, pipes, caches, wbs, home),
         NEW u \in DOMAIN cfg.unit, u \in pipes, m.unit[u].pipe.out # <<>>,
         m.unit[u].pipe.out[1] \in Ids
  PROVE  LET id == m.unit[u].pipe.out[1]
         IN  /\ home[id] = AtPipe(u)
             /\ Placed(m, gaps, ports, pipes \ {u}, caches, wbs, Moved(home, id, Nowhere))
<1> DEFINE id == m.unit[u].pipe.out[1]
           U == pipes \ {u}
<1>1. DOMAIN home = Ids /\ PipeAt(m, u, pipes, home) /\ InsnName[id] = id
  BY DEF Placed, InsnName
<1>2. LatchHolds(m.unit[u].pipe, TRUE, TRUE, InsnName, home, AtPipe(u)) /\ ~m.unit[u].pipe.stall
  BY <1>1 DEF PipeAt, LatchHolds
<1>3. IsAt(home, id, AtPipe(u)) /\ PipeAt(m, u, U, Moved(home, id, Nowhere))
  <2>1. /\ LatchHolds(m.unit[u].pipe, TRUE, FALSE, InsnName, Moved(home, id, Nowhere), AtPipe(u))
        /\ IsAt(home, id, AtPipe(u))
    <3>1. /\ LatchHolds(m.unit[u].pipe, TRUE, FALSE, InsnName, Moved(home, InsnName[id], Nowhere), AtPipe(u))
          /\ IsAt(home, InsnName[id], AtPipe(u))
      BY <1>1, <1>2, LatchTakeOut
    <3> QED
      BY <1>1, <3>1
  <2> QED
    BY <1>1, <1>2, <2>1 DEF PipeAt, LatchHolds
<1>4. \A v \in DOMAIN cfg.unit : v # u => (v \in U <=> v \in pipes)
  OBVIOUS
<1>5. id \in Ids /\ home[id] = AtPipe(u)
  BY <1>3 DEF IsAt
<1>6. SamePipes(m, m) /\ SameCaches(m, m)
  BY DEF SamePipes, SameCaches
<1> HIDE DEF id, U
<1>7. Placed(m, gaps, ports, U, caches, wbs, Moved(home, id, Nowhere))
  BY <1>3, <1>4, <1>5, <1>6, PlacedAtPipe
<1> QED
  BY <1>5, <1>7 DEF id, U

LEMMA TakeCache ==
  ASSUME NEW m, NEW gaps, NEW ports, NEW pipes, NEW caches, NEW wbs, NEW home,
         Placed(m, gaps, ports, pipes, caches, wbs, home),
         NEW u \in DOMAIN cfg.unit, IsMemoryUnit(u), u \in caches, m.unit[u].dCache.out # <<>>,
         m.unit[u].dCache.out[1] \in Ids
  PROVE  LET id == m.unit[u].dCache.out[1]
         IN  /\ home[id] = AtCache(u)
             /\ Placed(m, gaps, ports, pipes, caches \ {u}, wbs, Moved(home, id, Nowhere))
<1> DEFINE id == m.unit[u].dCache.out[1]
           D == caches \ {u}
<1>1. DOMAIN home = Ids /\ CacheAt(m, u, caches, home) /\ InsnName[id] = id
  BY DEF Placed, MemoryHolds, InsnName
<1>2. LatchHolds(m.unit[u].dCache, TRUE, TRUE, InsnName, home, AtCache(u)) /\ Steady(m.unit[u].dCache)
  BY <1>1 DEF CacheAt, LatchHolds
<1>3. IsAt(home, id, AtCache(u)) /\ CacheAt(m, u, D, Moved(home, id, Nowhere))
  <2>1. /\ LatchHolds(m.unit[u].dCache, TRUE, FALSE, InsnName, Moved(home, id, Nowhere), AtCache(u))
        /\ IsAt(home, id, AtCache(u))
    <3>1. /\ LatchHolds(m.unit[u].dCache, TRUE, FALSE, InsnName, Moved(home, InsnName[id], Nowhere), AtCache(u))
          /\ IsAt(home, InsnName[id], AtCache(u))
      BY <1>1, <1>2, LatchTakeOut
    <3> QED
      BY <1>1, <3>1
  <2> QED
    BY <1>1, <1>2, <2>1 DEF CacheAt, LatchHolds
<1>4. \A v \in DOMAIN cfg.unit : v # u => (v \in D <=> v \in caches)
  OBVIOUS
<1>5. id \in Ids /\ home[id] = AtCache(u)
  BY <1>3 DEF IsAt
<1>6. SamePipes(m, m) /\ SameCaches(m, m)
  BY DEF SamePipes, SameCaches
<1> HIDE DEF id, D
<1>7. Placed(m, gaps, ports, pipes, D, wbs, Moved(home, id, Nowhere))
  BY <1>3, <1>4, <1>5, <1>6, PlacedAtCache
<1> QED
  BY <1>5, <1>7 DEF id, D

LEMMA TakeWb ==
  ASSUME NEW m, NEW gaps, NEW ports, NEW pipes, NEW caches, NEW wbs, NEW home,
         Placed(m, gaps, ports, pipes, caches, wbs, home),
         NEW w \in DOMAIN cfg.wb, w \in wbs, m.wb[w].out # <<>>, m.wb[w].out[1] \in Ids
  PROVE  LET id == m.wb[w].out[1]
         IN  /\ home[id] = AtWb(w)
             /\ Placed(m, gaps, ports, pipes, caches, wbs \ {w}, Moved(home, id, Nowhere))
<1> DEFINE id == m.wb[w].out[1]
           W == wbs \ {w}
<1>1. DOMAIN home = Ids /\ WbAt(m, w, wbs, home) /\ InsnName[id] = id
  BY DEF Placed, InsnName
<1>2. LatchHolds(m.wb[w], TRUE, TRUE, InsnName, home, AtWb(w)) /\ Steady(m.wb[w])
  BY <1>1 DEF WbAt, LatchHolds
<1>3. IsAt(home, id, AtWb(w)) /\ WbAt(m, w, W, Moved(home, id, Nowhere))
  <2>1. /\ LatchHolds(m.wb[w], TRUE, FALSE, InsnName, Moved(home, id, Nowhere), AtWb(w))
        /\ IsAt(home, id, AtWb(w))
    <3>1. /\ LatchHolds(m.wb[w], TRUE, FALSE, InsnName, Moved(home, InsnName[id], Nowhere), AtWb(w))
          /\ IsAt(home, InsnName[id], AtWb(w))
      BY <1>1, <1>2, LatchTakeOut
    <3> QED
      BY <1>1, <3>1
  <2> QED
    BY <1>1, <1>2, <2>1 DEF WbAt, LatchHolds
<1>4. \A v \in DOMAIN cfg.wb : v # w => (v \in W <=> v \in wbs)
  OBVIOUS
<1>5. id \in Ids /\ home[id] = AtWb(w)
  BY <1>3 DEF IsAt
<1>6. SamePipes(m, m) /\ SameCaches(m, m)
  BY DEF SamePipes, SameCaches
<1> HIDE DEF id, W
<1>7. Placed(m, gaps, ports, pipes, caches, W, Moved(home, id, Nowhere))
  BY <1>3, <1>4, <1>5, <1>6, PlacedAtWb
<1> QED
  BY <1>5, <1>7 DEF id, W

-----------------------------------------------------------------------------
(* What is nowhere is put in a part.                                       *)

LEMMA PutPipe ==
  ASSUME NEW m, NEW n, NEW gaps, NEW ports, NEW pipes, NEW caches, NEW wbs, NEW home,
         Placed(m, gaps, ports, pipes, caches, wbs, home), NEW id \in Ids, home[id] = Nowhere,
         NEW u \in DOMAIN cfg.unit, NEW S, m.unit[u].pipe \in Latch(S),
         n.sched = m.sched, n.port = m.port, n.wb = m.wb, n.ldq = m.ldq, SameCaches(m, n),
         \A v \in DOMAIN cfg.unit : v # u => n.unit[v].pipe = m.unit[v].pipe,
         n.unit[u].pipe = TB!Set(m.unit[u].pipe, id)
  PROVE  Placed(n, gaps, ports, pipes, caches, wbs, Moved(home, id, AtPipe(u)))
<1> DEFINE b == m.unit[u].pipe
           back == u \in pipes \/ b.stall
           k == Moved(home, id, AtPipe(u))
<1>1. DOMAIN home = Ids /\ PipeAt(m, u, pipes, home) /\ InsnName[id] = id /\ home[id] # AtPipe(u)
  BY PlacesDiffer DEF Placed, InsnName
<1>2. LatchHolds(b, TRUE, back, InsnName, home, AtPipe(u))
  BY <1>1 DEF PipeAt
<1>3. b \in Latch(S)
  OBVIOUS
<1>4. /\ TB!Set(b, id).flush = b.flush /\ TB!Set(b, id).stall = b.stall
  BY <1>3 DEF TB!Set, Latch
<1> HIDE DEF b, back
<1>5. LatchHolds(TB!Set(b, id), TRUE, back, InsnName, Moved(home, InsnName[id], AtPipe(u)), AtPipe(u))
  <2>1. InsnName[id] \in Ids /\ home[InsnName[id]] # AtPipe(u)
    BY <1>1
  <2> QED
    BY <1>1, <1>2, <1>3, <2>1, LatchPut
<1>6. PipeAt(n, u, pipes, k)
  <2>1. /\ n.unit[u].pipe = TB!Set(b, id) /\ InsnName[id] = id
        /\ ~b.flush /\ (u \in pipes => ~b.stall) /\ back = (u \in pipes \/ b.stall)
    BY <1>1 DEF b, back, PipeAt
  <2>2. LatchHolds(n.unit[u].pipe, TRUE, back, InsnName, k, AtPipe(u))
    BY <1>5, <2>1
  <2>3. n.unit[u].pipe.flush = b.flush /\ n.unit[u].pipe.stall = b.stall
    BY <1>4, <2>1
  <2>4. LatchHolds(n.unit[u].pipe, TRUE, u \in pipes \/ n.unit[u].pipe.stall, InsnName, k, AtPipe(u))
    BY <2>1, <2>2, <2>3 DEF LatchHolds
  <2> HIDE DEF k
  <2> QED
    BY <2>1, <2>3, <2>4 DEF PipeAt
<1>7. home[id] \in {Nowhere, AtPipe(u)}
  OBVIOUS
<1>8. \A v \in DOMAIN cfg.unit : v # u => (v \in pipes <=> v \in pipes)
  OBVIOUS
<1> QED
  BY <1>6, <1>7, <1>8, PlacedAtPipe

LEMMA PutPort ==
  ASSUME NEW m, NEW n, NEW gaps, NEW ports, NEW pipes, NEW caches, NEW wbs, NEW home,
         Placed(m, gaps, ports, pipes, caches, wbs, home), NEW x, NEW id \in Ids,
         InfoName[x] = id, home[id] = Nowhere,
         NEW p \in 1 .. cfg.ports, p \in ports, NEW S, m.port[p] \in Latch(S),
         n.sched = m.sched, n.wb = m.wb, n.ldq = m.ldq, SamePipes(m, n), SameCaches(m, n),
         \A r \in 1 .. cfg.ports : r # p => n.port[r] = m.port[r],
         n.port[p] = TB!Set(m.port[p], x)
  PROVE  Placed(n, gaps, ports, pipes, caches, wbs, Moved(home, id, AtPort(p)))
<1> DEFINE b == m.port[p]
           k == Moved(home, id, AtPort(p))
<1>1. DOMAIN home = Ids /\ PortAt(m, p, ports, home) /\ home[id] # AtPort(p)
  BY PlacesDiffer DEF Placed
<1>2. LatchHolds(b, TRUE, TRUE, InfoName, home, AtPort(p)) /\ Steady(b)
      /\ (cfg.rfLatency = 0 => b.out = <<>>)
  BY <1>1 DEF PortAt, LatchHolds
<1>3. b \in Latch(S)
  OBVIOUS
<1>4. /\ TB!Set(b, x).flush = b.flush /\ TB!Set(b, x).stall = b.stall
      /\ TB!Set(b, x).out = b.out
  BY <1>3 DEF TB!Set, Latch
<1> HIDE DEF b
<1>5. LatchHolds(TB!Set(b, x), TRUE, TRUE, InfoName, Moved(home, InfoName[x], AtPort(p)), AtPort(p))
  <2>1. InfoName[x] \in Ids /\ home[InfoName[x]] # AtPort(p)
    BY <1>1
  <2> QED
    BY <1>1, <1>2, <1>3, <2>1, LatchPut
<1>6. PortAt(n, p, ports, k)
  <2>1. n.port[p] = TB!Set(b, x)
    BY DEF b
  <2>2. LatchHolds(n.port[p], TRUE, TRUE, InfoName, k, AtPort(p))
    BY <1>5, <2>1
  <2>3. LatchHolds(n.port[p], p \in ports \/ cfg.rfLatency # 0, p \in ports, InfoName, k, AtPort(p))
    BY <2>2 DEF LatchHolds
  <2> HIDE DEF k
  <2> QED
    BY <1>2, <1>4, <2>1, <2>3 DEF PortAt, Steady
<1>7. home[id] \in {Nowhere, AtPort(p)}
  OBVIOUS
<1>8. \A r \in 1 .. cfg.ports : r # p => (r \in ports <=> r \in ports)
  OBVIOUS
<1> QED
  BY <1>6, <1>7, <1>8, PlacedAtPort

LEMMA PutWb ==
  ASSUME NEW m, NEW n, NEW gaps, NEW ports, NEW pipes, NEW caches, NEW wbs, NEW home,
         Placed(m, gaps, ports, pipes, caches, wbs, home), NEW id \in Ids, home[id] = Nowhere,
         NEW w \in DOMAIN cfg.wb, NEW S, m.wb[w] \in Latch(S),
         n.sched = m.sched, n.port = m.port, n.ldq = m.ldq, SamePipes(m, n), SameCaches(m, n),
         \A v \in DOMAIN cfg.wb : v # w => n.wb[v] = m.wb[v],
         n.wb[w] = TB!Set(m.wb[w], id)
  PROVE  Placed(n, gaps, ports, pipes, caches, wbs, Moved(home, id, AtWb(w)))
<1> DEFINE b == m.wb[w]
           k == Moved(home, id, AtWb(w))
           back == w \in wbs
<1>1. DOMAIN home = Ids /\ WbAt(m, w, wbs, home) /\ InsnName[id] = id /\ home[id] # AtWb(w)
  BY PlacesDiffer DEF Placed, InsnName
<1>2. LatchHolds(b, TRUE, back, InsnName, home, AtWb(w)) /\ Steady(b)
  BY <1>1 DEF WbAt
<1>3. b \in Latch(S)
  OBVIOUS
<1>4. TB!Set(b, id).flush = b.flush /\ TB!Set(b, id).stall = b.stall
  BY <1>3 DEF TB!Set, Latch
<1> HIDE DEF b, back
<1>5. LatchHolds(TB!Set(b, id), TRUE, back, InsnName, Moved(home, InsnName[id], AtWb(w)), AtWb(w))
  <2>1. InsnName[id] \in Ids /\ home[InsnName[id]] # AtWb(w)
    BY <1>1
  <2> QED
    BY <1>1, <1>2, <1>3, <2>1, LatchPut
<1>6. WbAt(n, w, wbs, k)
  <2>1. n.wb[w] = TB!Set(b, id)
    BY DEF b
  <2>2. LatchHolds(n.wb[w], TRUE, back, InsnName, k, AtWb(w))
    BY <1>1, <1>5, <2>1
  <2>3. LatchHolds(n.wb[w], TRUE, w \in wbs, InsnName, k, AtWb(w))
    BY <2>2 DEF LatchHolds, back
  <2> HIDE DEF k
  <2> QED
    BY <1>2, <1>4, <2>1, <2>3 DEF WbAt, Steady
<1>7. home[id] \in {Nowhere, AtWb(w)}
  OBVIOUS
<1>8. \A v \in DOMAIN cfg.wb : v # w => (v \in wbs <=> v \in wbs)
  OBVIOUS
<1> QED
  BY <1>6, <1>7, <1>8, PlacedAtWb

LEMMA PutCache ==
  ASSUME NEW m, NEW n, NEW gaps, NEW ports, NEW pipes, NEW caches, NEW wbs, NEW home,
         Placed(m, gaps, ports, pipes, caches, wbs, home), NEW id \in Ids, home[id] = Nowhere,
         NEW u \in DOMAIN cfg.unit, NEW S, m.unit[u].dCache \in Latch(S),
         n.sched = m.sched, n.port = m.port, n.wb = m.wb, n.ldq = m.ldq, SamePipes(m, n),
         \A v \in DOMAIN cfg.unit : v # u => n.unit[v].dCache = m.unit[v].dCache,
         n.unit[u].dCache = TB!Set(m.unit[u].dCache, id)
  PROVE  Placed(n, gaps, ports, pipes, caches, wbs, Moved(home, id, AtCache(u)))
<1> DEFINE b == m.unit[u].dCache
           k == Moved(home, id, AtCache(u))
           back == u \in caches
<1>1. DOMAIN home = Ids /\ CacheAt(m, u, caches, home) /\ InsnName[id] = id /\ home[id] # AtCache(u)
  BY PlacesDiffer DEF Placed, MemoryHolds, InsnName
<1>3. b \in Latch(S)
  OBVIOUS
<1>4. TB!Set(b, id).flush = b.flush /\ TB!Set(b, id).stall = b.stall
  BY <1>3 DEF TB!Set, Latch
<1>6. CacheAt(n, u, caches, k)
  <2> SUFFICES ASSUME IsMemoryUnit(u)
               PROVE  /\ Steady(n.unit[u].dCache)
                      /\ LatchHolds(n.unit[u].dCache, TRUE, u \in caches, InsnName, k, AtCache(u))
    BY DEF CacheAt
  <2>2. LatchHolds(b, TRUE, back, InsnName, home, AtCache(u)) /\ Steady(b)
    BY <1>1 DEF CacheAt
  <2>3. n.unit[u].dCache = TB!Set(b, id)
    OBVIOUS
  <2> HIDE DEF b, back
  <2>5. LatchHolds(TB!Set(b, id), TRUE, back, InsnName, Moved(home, InsnName[id], AtCache(u)), AtCache(u))
    <3>1. InsnName[id] \in Ids /\ home[InsnName[id]] # AtCache(u)
      BY <1>1
    <3> QED
      BY <1>1, <1>3, <2>2, <3>1, LatchPut
  <2>6. LatchHolds(n.unit[u].dCache, TRUE, back, InsnName, k, AtCache(u))
    BY <1>1, <2>3, <2>5
  <2>7. LatchHolds(n.unit[u].dCache, TRUE, u \in caches, InsnName, k, AtCache(u))
    BY <2>6 DEF LatchHolds, back
  <2> HIDE DEF k
  <2> QED
    BY <1>4, <2>2, <2>3, <2>7 DEF Steady
<1>7. home[id] \in {Nowhere, AtCache(u)}
  OBVIOUS
<1>8. \A v \in DOMAIN cfg.unit : v # u => (v \in caches <=> v \in caches)
  OBVIOUS
<1> QED
  BY <1>6, <1>7, <1>8, PlacedAtCache

LEMMA PutLdq ==
  ASSUME NEW m, NEW n, NEW gaps, NEW ports, NEW pipes, NEW caches, NEW wbs, NEW home,
         Placed(m, gaps, ports, pipes, caches, wbs, home), NEW id \in Ids, home[id] = Nowhere,
         NEW S, m.ldq \in Seq(S), n.ldq = Append(m.ldq, id),
         n.sched = m.sched, n.port = m.port, n.wb = m.wb, SamePipes(m, n), SameCaches(m, n)
  PROVE  Placed(n, gaps, ports, pipes, caches, wbs, Moved(home, id, AtLdq))
<1> DEFINE l == m.ldq
           k == Moved(home, id, AtLdq)
<1>1. DOMAIN home = Ids /\ LdqAt(m, home) /\ home[id] # AtLdq /\ home[id] \in {Nowhere, AtLdq}
  BY PlacesDiffer DEF Placed, MemoryHolds
<1>2. /\ \A j \in 1 .. Len(l) : IsAt(home, l[j], AtLdq)
      /\ \A i, j \in 1 .. Len(l) : l[i] = l[j] => i = j
      /\ l \in Seq(S)
  BY <1>1 DEF LdqAt
<1>3. /\ Len(n.ldq) = Len(l) + 1 /\ Len(l) \in Nat /\ DOMAIN n.ldq = 1 .. (Len(l) + 1)
      /\ \A j \in 1 .. Len(l) : n.ldq[j] = l[j]
      /\ n.ldq[Len(l) + 1] = id
  BY <1>2
<1> HIDE DEF l
<1>4. \A j \in 1 .. Len(l) : l[j] # id
  BY <1>1, <1>2 DEF IsAt
<1>5. LdqAt(n, k)
  <2>1. \A j \in 1 .. (Len(l) + 1) : (j \in 1 .. Len(l) /\ n.ldq[j] = l[j]) \/ (j = Len(l) + 1 /\ n.ldq[j] = id)
    BY <1>3
  <2>2. \A j \in 1 .. (Len(l) + 1) : IsAt(k, n.ldq[j], AtLdq)
    BY <1>1, <1>2, <2>1 DEF IsAt, Moved
  <2>3. \A i, j \in 1 .. (Len(l) + 1) : n.ldq[i] = n.ldq[j] => i = j
    BY <1>2, <1>4, <2>1
  <2> QED
    BY <1>3, <2>2, <2>3 DEF LdqAt
<1> HIDE DEF k
<1> QED
  BY <1>1, <1>5, PlacedAtLdq DEF k

LEMMA TakeLdq ==
  ASSUME NEW m, NEW n, NEW gaps, NEW ports, NEW pipes, NEW caches, NEW wbs, NEW home,
         Placed(m, gaps, ports, pipes, caches, wbs, home),
         NEW S, m.ldq \in Seq(S), m.ldq # <<>>, n.ldq = Tail(m.ldq),
         n.sched = m.sched, n.port = m.port, n.wb = m.wb, SamePipes(m, n), SameCaches(m, n)
  PROVE  /\ IsAt(home, Head(m.ldq), AtLdq)
         /\ Placed(n, gaps, ports, pipes, caches, wbs, Moved(home, Head(m.ldq), Nowhere))
<1> DEFINE l == m.ldq
           id == Head(l)
           k == Moved(home, id, Nowhere)
<1>1. DOMAIN home = Ids /\ LdqAt(m, home)
  BY DEF Placed, MemoryHolds
<1>2. /\ \A j \in 1 .. Len(l) : IsAt(home, l[j], AtLdq)
      /\ \A i, j \in 1 .. Len(l) : l[i] = l[j] => i = j
      /\ l \in Seq(S)
  BY <1>1 DEF LdqAt
<1>3. /\ Len(l) \in Nat /\ Len(l) >= 1 /\ id = l[1] /\ DOMAIN n.ldq = 1 .. (Len(l) - 1)
      /\ \A j \in 1 .. (Len(l) - 1) : n.ldq[j] = l[j + 1]
  BY <1>2
<1> HIDE DEF l, id
<1>4. IsAt(home, id, AtLdq) /\ id \in Ids /\ home[id] \in {Nowhere, AtLdq}
  BY <1>2, <1>3 DEF IsAt
<1>5. LdqAt(n, k)
  <2>1. \A j \in 1 .. (Len(l) - 1) : IsAt(home, n.ldq[j], AtLdq) /\ n.ldq[j] # id
    BY <1>2, <1>3
  <2>2. \A j \in 1 .. (Len(l) - 1) : IsAt(k, n.ldq[j], AtLdq)
    BY <1>1, <2>1 DEF IsAt, Moved
  <2>3. \A i, j \in 1 .. (Len(l) - 1) : n.ldq[i] = n.ldq[j] => i = j
    BY <1>2, <1>3
  <2> QED
    BY <1>3, <2>2, <2>3 DEF LdqAt
<1> HIDE DEF k
<1>6. Placed(n, gaps, ports, pipes, caches, wbs, k)
  BY <1>4, <1>5, PlacedAtLdq DEF k
<1> QED
  BY <1>4, <1>6 DEF k, id, l

-----------------------------------------------------------------------------
(* The destinations of an instruction.                                     *)

LEMMA IssueToUnitFields ==
  ASSUME NEW m, NEW done, Sound(m, done), NEW u \in DOMAIN cfg.unit, NEW id
  PROVE  LET n == IssueToUnit(m, u, id)
         IN  /\ n.sched = m.sched /\ n.port = m.port /\ n.wb = m.wb /\ n.ldq = m.ldq
             /\ \A v \in DOMAIN cfg.unit : v # u => n.unit[v] = m.unit[v]
             /\ n.unit[u].pipe = TB!Set(m.unit[u].pipe, id)
             /\ n.unit[u].dCache = m.unit[u].dCache
<1> DEFINE f == Fires(m, m.unit[u].pipe.in # <<>>, "FuncUnit issued twice in a cycle")
           x == [f.unit[u] EXCEPT !.taken = TRUE, !.pipe = TB!Set(@, id)]
           n == [f EXCEPT !.unit[u] = x]
<1>1. /\ Sound(f, done) /\ f.sched = m.sched /\ f.unit = m.unit /\ f.port = m.port
      /\ f.wb = m.wb /\ f.ldq = m.ldq
  <2>1. ASSUME NEW failed, NEW name
        PROVE  LET g == Fires(m, failed, name)
               IN  /\ Sound(g, done) /\ g.sched = m.sched /\ g.unit = m.unit /\ g.port = m.port
                   /\ g.wb = m.wb /\ g.ldq = m.ldq
    BY SoundFires
  <2> QED
    BY <2>1
<1>2. Parts(f) /\ f.unit[u] \in UnitState(Complete(f.insn)) /\ DOMAIN f.unit = DOMAIN cfg.unit
  <2> HIDE DEF f
  <2> QED
    BY <1>1, SoundParts, UnitFields DEF Sound
<1>3. IssueToUnit(m, u, id) = n
  <2>1. IssueToUnit(m, u, id) = [f EXCEPT !.unit[u].taken = TRUE, !.unit[u].pipe = TB!Set(@, id)]
    BY DEF IssueToUnit
  <2> HIDE DEF f
  <2> QED
    BY <1>2, <2>1 DEF Parts, UnitState
<1> HIDE DEF f
<1>4. x.pipe = TB!Set(f.unit[u].pipe, id) /\ x.dCache = f.unit[u].dCache
  BY <1>2 DEF UnitState
<1> HIDE DEF x
<1>5. /\ n.sched = f.sched /\ n.port = f.port /\ n.wb = f.wb /\ n.ldq = f.ldq
      /\ n.unit = [f.unit EXCEPT ![u] = x]
  BY <1>2 DEF Parts
<1> HIDE DEF n
<1> QED
  BY <1>1, <1>2, <1>3, <1>4, <1>5

LEMMA IssueToUnitPlaced ==
  ASSUME NEW m, NEW done, Sound(m, done), NEW u \in DOMAIN cfg.unit,
         NEW gaps, NEW ports, NEW pipes, NEW caches, NEW wbs, NEW home,
         Placed(m, gaps, ports, pipes, caches, wbs, home), NEW id \in Ids, home[id] = Nowhere
  PROVE  Placed(IssueToUnit(m, u, id), gaps, ports, pipes, caches, wbs, Moved(home, id, AtPipe(u)))
<1> DEFINE n == IssueToUnit(m, u, id)
<1>1. /\ n.sched = m.sched /\ n.port = m.port /\ n.wb = m.wb /\ n.ldq = m.ldq
      /\ \A v \in DOMAIN cfg.unit : v # u => n.unit[v] = m.unit[v]
      /\ n.unit[u].pipe = TB!Set(m.unit[u].pipe, id)
      /\ n.unit[u].dCache = m.unit[u].dCache
  BY IssueToUnitFields
<1> HIDE DEF n
<1>2. SameCaches(m, n)
  BY <1>1 DEF SameCaches
<1>3. m.unit[u].pipe \in Latch(Complete(m.insn))
  BY UnitFields DEF UnitState
<1>4. \A v \in DOMAIN cfg.unit : v # u => n.unit[v].pipe = m.unit[v].pipe
  BY <1>1
<1>5. Placed(n, gaps, ports, pipes, caches, wbs, Moved(home, id, AtPipe(u)))
  BY <1>1, <1>2, <1>3, <1>4, PutPipe
<1> QED
  BY <1>5 DEF n

\* A state that differs in one scheduler.
OnlySched(m, n, s) ==
  /\ \A t \in DOMAIN cfg.sched : t # s => n.sched[t] = m.sched[t]
  /\ n.port = m.port /\ n.wb = m.wb /\ n.ldq = m.ldq /\ n.unit = m.unit

LEMMA AllocateInFields ==
  ASSUME Wiring(cfg), NEW m, NEW done, Sound(m, done), NEW s \in DOMAIN cfg.sched,
         ~SchedBusy(m, s)
  PROVE  LET n == AllocateIn(m, s)
         IN  /\ OnlySched(m, n, s) /\ n.sched[s] = Allocated(cfg.sched[s], m.sched[s])
             /\ Sound(n, done) /\ n.insn = m.insn
<1> DEFINE n == AllocateIn(m, s)
           f == Fires(m, NextIndex(cfg.sched[s], m.sched[s].q) \notin Indices(cfg.sched[s]),
                      "Allocate When there is no available entry!")
           x == AllocateEntry(cfg.sched[s], f.sched[s].q)
           r == f.sched[s].room - 1
<1>1. /\ Sound(n, done) /\ n.insn = m.insn /\ n.unit = m.unit /\ n.port = m.port
      /\ n.sched = [m.sched EXCEPT ![s] = Allocated(cfg.sched[s], m.sched[s])]
  BY AllocateInSound
<1>2. Sound(f, done) /\ f.wb = m.wb /\ f.ldq = m.ldq
  <2>1. ASSUME NEW failed, NEW name
        PROVE  LET g == Fires(m, failed, name) IN Sound(g, done) /\ g.wb = m.wb /\ g.ldq = m.ldq
    BY SoundFires
  <2> QED
    BY <2>1
<1>3. n.wb = m.wb /\ n.ldq = m.ldq
  <2>1. n = [f EXCEPT !.sched[s].q = AllocateEntry(cfg.sched[s], @), !.sched[s].room = @ - 1]
    BY DEF AllocateIn
  <2> HIDE DEF f, n
  <2>2. Parts(f)
    BY <1>2, SoundParts
  <2> QED
    BY <1>2, <2>1, <2>2 DEF Parts
<1> HIDE DEF n
<1>4. DOMAIN m.sched = DOMAIN cfg.sched
  BY DEF Sound
<1>5. OnlySched(m, n, s) /\ n.sched[s] = Allocated(cfg.sched[s], m.sched[s])
  BY <1>1, <1>3, <1>4 DEF OnlySched
<1> QED
  BY <1>1, <1>5 DEF n

LEMMA ScheduleFields ==
  ASSUME NEW m, NEW done, Sound(m, done), NEW s \in DOMAIN cfg.sched, NEW i \in Int,
         NEW id \in DOMAIN m.insn
  PROVE  LET n == Schedule(m, s, i, id)
         IN  /\ OnlySched(m, n, s) /\ n.sched[s] = Enqueued(m.sched[s], i, id)
             /\ Sound(n, done) /\ n.insn = m.insn
<1> DEFINE n == Schedule(m, s, i, id)
<1>1. /\ Sound(n, done) /\ n.insn = m.insn /\ n.unit = m.unit /\ n.port = m.port
      /\ n.sched = [m.sched EXCEPT ![s] = Enqueued(m.sched[s], i, id)]
  BY ScheduleSound
<1>3. n.wb = m.wb /\ n.ldq = m.ldq
  BY SoundParts DEF Parts, Schedule
<1> HIDE DEF n
<1>4. DOMAIN m.sched = DOMAIN cfg.sched
  BY DEF Sound
<1>5. OnlySched(m, n, s) /\ n.sched[s] = Enqueued(m.sched[s], i, id)
  BY <1>1, <1>3, <1>4 DEF OnlySched
<1> QED
  BY <1>1, <1>5 DEF n

LEMMA LeftFields ==
  ASSUME Wiring(cfg), NEW m, NEW done, Sound(m, done), NEW s \in DOMAIN cfg.sched, NEW i
  PROVE  LET n == Left(m, s, i)
         IN  /\ OnlySched(m, n, s)
             /\ n.sched[s].q = Deallocate(cfg.sched[s], m.sched[s].q, i)
             /\ n.sched[s].enq = m.sched[s].enq /\ n.sched[s].flush = m.sched[s].flush
<1> DEFINE n == Left(m, s, i)
           d == Deallocate(cfg.sched[s], m.sched[s].q, i)
           x == [m.sched[s] EXCEPT !.q = d]
<1>1. Parts(m) /\ DOMAIN m.sched = DOMAIN cfg.sched
      /\ m.sched[s] \in SchedState(cfg.sched[s], DOMAIN m.insn)
  BY SoundParts DEF Sound
<1>2. n = [m EXCEPT !.sched[s].q = d]
  BY <1>1 DEF Left, Parts
<1> HIDE DEF n, d
<1>3. x.q = d /\ x.enq = m.sched[s].enq /\ x.flush = m.sched[s].flush
  BY <1>1 DEF SchedState
<1>4. /\ n.sched = [m.sched EXCEPT ![s] = x]
      /\ n.port = m.port /\ n.wb = m.wb /\ n.ldq = m.ldq /\ n.unit = m.unit
  BY <1>1, <1>2 DEF Parts
<1> HIDE DEF x
<1>5. OnlySched(m, n, s) /\ n.sched[s] = x
  BY <1>1, <1>4 DEF OnlySched
<1> QED
  BY <1>3, <1>5 DEF n, d

LEMMA OnlySchedPlaced ==
  ASSUME NEW m, NEW n, NEW gaps, NEW ports, NEW pipes, NEW caches, NEW wbs, NEW home,
         Placed(m, gaps, ports, pipes, caches, wbs, home), NEW id \in Ids, NEW q,
         NEW s \in DOMAIN cfg.sched, home[id] \in {Nowhere, AtSched(s)}, OnlySched(m, n, s),
         NEW G, \A t \in DOMAIN cfg.sched : t # s => \A i : <<t, i>> \in G <=> <<t, i>> \in gaps,
         SchedAt(n, s, G, Moved(home, id, q))
  PROVE  Placed(n, G, ports, pipes, caches, wbs, Moved(home, id, q))
<1>1. SamePipes(m, n) /\ SameCaches(m, n)
  BY DEF OnlySched, SamePipes, SameCaches
<1>2. /\ \A t \in DOMAIN cfg.sched : t # s => n.sched[t] = m.sched[t]
      /\ n.port = m.port /\ n.wb = m.wb /\ n.ldq = m.ldq
  BY DEF OnlySched
<1> QED
  BY <1>1, <1>2, PlacedAtSched

LEMMA SchedStays ==
  ASSUME NEW m, NEW n, NEW gaps, NEW ports, NEW pipes, NEW caches, NEW wbs, NEW home,
         Placed(m, gaps, ports, pipes, caches, wbs, home),
         NEW s \in DOMAIN cfg.sched, OnlySched(m, n, s),
         NEW G, \A t \in DOMAIN cfg.sched : t # s => \A i : <<t, i>> \in G <=> <<t, i>> \in gaps,
         SchedAt(n, s, G, home)
  PROVE  Placed(n, G, ports, pipes, caches, wbs, home)
<1>1. DOMAIN home = Ids
  BY DEF Placed
<1>2. \A t \in DOMAIN cfg.sched : SchedAt(n, t, G, home)
  <2>1. ASSUME NEW t \in DOMAIN cfg.sched, t # s
        PROVE  SchedAt(n, t, G, home)
    <3>1. SchedAt(m, t, gaps, home) /\ n.sched[t] = m.sched[t]
      BY <2>1 DEF Placed, OnlySched
    <3>2. {i \in Indices(cfg.sched[t]) : <<t, i>> \in G} = {i \in Indices(cfg.sched[t]) : <<t, i>> \in gaps}
      BY <2>1
    <3> QED
      BY <3>1, <3>2 DEF SchedAt
  <2> QED
    BY <2>1
<1>3. \A p \in 1 .. cfg.ports : PortAt(n, p, ports, home)
  BY DEF Placed, PortAt, OnlySched
<1>4. \A u \in DOMAIN cfg.unit : PipeAt(n, u, pipes, home)
  BY DEF Placed, PipeAt, OnlySched
<1>5. \A w \in DOMAIN cfg.wb : WbAt(n, w, wbs, home)
  BY DEF Placed, WbAt, OnlySched
<1>6. \A u \in DOMAIN cfg.unit : CacheAt(n, u, caches, home)
  BY DEF Placed, MemoryHolds, CacheAt, OnlySched
<1>7. LdqAt(n, home)
  BY DEF Placed, MemoryHolds, LdqAt, OnlySched
<1> QED
  BY <1>1, <1>2, <1>3, <1>4, <1>5, <1>6, <1>7 DEF Placed, MemoryHolds

LEMMA SchedulePlaced ==
  ASSUME NEW m, NEW done, Sound(m, done), NEW s \in DOMAIN cfg.sched, NEW i \in Int,
         NEW gaps, NEW ports, NEW pipes, NEW caches, NEW wbs, NEW home,
         Placed(m, gaps, ports, pipes, caches, wbs, home),
         NEW id \in DOMAIN m.insn, id \in Ids, home[id] = Nowhere
  PROVE  Placed(Schedule(m, s, i, id), gaps, ports, pipes, caches, wbs, Moved(home, id, AtSched(s)))
<1> DEFINE n == Schedule(m, s, i, id)
           c == cfg.sched[s]
           x == m.sched[s]
           e == {j \in Indices(c) : <<s, j>> \in gaps}
<1>1. OnlySched(m, n, s) /\ n.sched[s] = Enqueued(x, i, id)
  BY ScheduleFields
<1>2. SchedAt(m, s, gaps, home) /\ DOMAIN home = Ids /\ home[id] # AtSched(s)
  BY PlacesDiffer DEF Placed
<1>3. x \in SchedState(c, DOMAIN m.insn)
  BY SchedFields
<1>4. ~x.flush /\ SchedHolds(c, x, e, home, AtSched(s))
  BY <1>2 DEF SchedAt
<1> HIDE DEF n, e
<1>5. SchedHolds(c, Enqueued(x, i, id), e, Moved(home, id, AtSched(s)), AtSched(s))
  <2> HIDE DEF c, x
  <2> QED
    BY <1>2, <1>3, <1>4, SchedEnqueued
<1>6. ~Enqueued(x, i, id).flush
  BY <1>3, <1>4 DEF Enqueued, SchedState
<1>7. SchedAt(n, s, gaps, Moved(home, id, AtSched(s)))
  BY <1>1, <1>5, <1>6 DEF SchedAt, e
<1>8. \A t \in DOMAIN cfg.sched : t # s => \A j : <<t, j>> \in gaps <=> <<t, j>> \in gaps
  OBVIOUS
<1>9. Placed(n, gaps, ports, pipes, caches, wbs, Moved(home, id, AtSched(s)))
  BY <1>1, <1>7, <1>8, OnlySchedPlaced
<1> QED
  BY <1>9 DEF n

\* A slot of a queue that clears it is claimed for an instruction on its way.
LEMMA AllocateInPlaced ==
  ASSUME Wiring(cfg), NEW m, NEW done, Sound(m, done), NEW s \in DOMAIN cfg.sched,
         ~SchedBusy(m, s), cfg.sched[s].order = "In-Age-Order",
         NEW gaps, NEW ports, NEW pipes, NEW caches, NEW wbs, NEW home,
         Placed(m, gaps, ports, pipes, caches, wbs, home)
  PROVE  Placed(AllocateIn(m, s), gaps, ports, pipes, caches, wbs, home)
<1> DEFINE n == AllocateIn(m, s)
           c == cfg.sched[s]
           x == m.sched[s]
           e == {j \in Indices(c) : <<s, j>> \in gaps}
<1>1. OnlySched(m, n, s) /\ n.sched[s] = Allocated(c, x)
  BY AllocateInFields
<1>2. SchedAt(m, s, gaps, home) /\ DOMAIN home = Ids
  BY DEF Placed
<1>3. x \in SchedState(c, DOMAIN m.insn)
  BY SchedFields
<1>4. ~x.flush /\ SchedHolds(c, x, e, home, AtSched(s))
  BY <1>2 DEF SchedAt
<1>5. c.order = "In-Age-Order" /\ c.entries \in Nat \ {0} /\ GetAvailibleEntryCount(c, x.q) # 0
  BY SchedFacts DEF SchedBusy
<1> HIDE DEF n, e
<1>6. SchedHolds(c, Allocated(c, x), e, home, AtSched(s)) /\ ~Allocated(c, x).flush
  <2> HIDE DEF c, x
  <2>1. SchedHolds(c, Allocated(c, x), e, home, AtSched(s))
    BY <1>2, <1>3, <1>4, <1>5, SchedAllocated
  <2>2. ~Allocated(c, x).flush
    BY <1>3, <1>4 DEF Allocated, SchedState
  <2> QED
    BY <2>1, <2>2
<1>8. SchedAt(n, s, gaps, home)
  BY <1>1, <1>6 DEF SchedAt, e
<1>9. \A t \in DOMAIN cfg.sched : t # s => \A j : <<t, j>> \in gaps <=> <<t, j>> \in gaps
  OBVIOUS
<1>10. Placed(n, gaps, ports, pipes, caches, wbs, home)
  BY <1>1, <1>8, <1>9, SchedStays
<1> QED
  BY <1>10 DEF n

\* A slot is claimed and the instruction is on its way to it.
Claim(m, s, id) == Schedule(AllocateIn(m, s), s, NextIndex(cfg.sched[s], m.sched[s].q), id)

LEMMA ClaimPlaced ==
  ASSUME Wiring(cfg), NEW m, NEW done, Sound(m, done), NEW s \in DOMAIN cfg.sched,
         ~SchedBusy(m, s), cfg.sched[s].order \in {"In-Order", "In-Age-Order"},
         NEW gaps, NEW ports, NEW pipes, NEW caches, NEW wbs, NEW home,
         Placed(m, gaps, ports, pipes, caches, wbs, home),
         NEW id \in DOMAIN m.insn, id \in Ids, home[id] = Nowhere
  PROVE  /\ Placed(Claim(m, s, id), gaps, ports, pipes, caches, wbs, Moved(home, id, AtSched(s)))
         /\ Sound(Claim(m, s, id), done) /\ Claim(m, s, id).insn = m.insn
         /\ OnlySched(m, Claim(m, s, id), s)
         /\ cfg.sched[s].order = "In-Order" => Claim(m, s, id).sched[s].q.usage = m.sched[s].q.usage + 1
<1> DEFINE a == AllocateIn(m, s)
           n == Claim(m, s, id)
           c == cfg.sched[s]
           x == m.sched[s]
           i == NextIndex(c, x.q)
           e == {j \in Indices(c) : <<s, j>> \in gaps}
<1>1. OnlySched(m, a, s) /\ a.sched[s] = Allocated(c, x) /\ Sound(a, done) /\ a.insn = m.insn
  BY AllocateInFields
<1>2. SchedAt(m, s, gaps, home) /\ DOMAIN home = Ids /\ home[id] # AtSched(s)
  BY PlacesDiffer DEF Placed
<1>3. x \in SchedState(c, DOMAIN m.insn) /\ x.q \in QueueState(c, DOMAIN m.insn)
  BY SchedFields
<1>4. ~x.flush /\ SchedHolds(c, x, e, home, AtSched(s))
  BY <1>2 DEF SchedAt
<1>5. /\ c.order \in Orders /\ c.entries \in Nat \ {0} /\ GetAvailibleEntryCount(c, x.q) # 0
      /\ c.order \in {"In-Order", "In-Age-Order"}
  BY SchedFacts DEF SchedBusy
<1>6. i \in Int
  <2> HIDE DEF c, x
  <2> QED
    BY <1>3, <1>5, QueueNextIndex
<1>7. n = Schedule(a, s, i, id)
  BY DEF Claim
<1> HIDE DEF a, n, i
<1>8. /\ OnlySched(a, n, s) /\ n.sched[s] = Enqueued(a.sched[s], i, id) /\ Sound(n, done)
      /\ n.insn = a.insn
  BY <1>1, <1>6, <1>7, ScheduleFields
<1>9. OnlySched(m, n, s) /\ n.sched[s] = Enqueued(Allocated(c, x), i, id)
  BY <1>1, <1>8 DEF OnlySched
<1> HIDE DEF e
<1>10. SchedHolds(c, Enqueued(Allocated(c, x), i, id), e, Moved(home, id, AtSched(s)), AtSched(s))
  <2>1. i = NextIndex(c, x.q)
    BY DEF i
  <2> HIDE DEF c, x, i
  <2>2. SchedHolds(c, Enqueued(Allocated(c, x), NextIndex(c, x.q), id), e, Moved(home, id, AtSched(s)), AtSched(s))
    BY <1>2, <1>3, <1>4, <1>5, SchedClaimed
  <2> QED
    BY <2>1, <2>2
<1>11. Allocated(c, x).flush = x.flush /\ Allocated(c, x).q = AllocateEntry(c, x.q)
  BY <1>3 DEF Allocated, SchedState
<1>12. /\ Enqueued(Allocated(c, x), i, id).flush = x.flush
       /\ Enqueued(Allocated(c, x), i, id).q = AllocateEntry(c, x.q)
  <2>1. Enqueued(Allocated(c, x), i, id).flush = Allocated(c, x).flush
    BY <1>3 DEF Enqueued, Allocated, SchedState
  <2>2. Enqueued(Allocated(c, x), i, id).q = Allocated(c, x).q
    BY <1>3 DEF Enqueued, Allocated, SchedState
  <2> QED
    BY <1>11, <2>1, <2>2
<1>13. SchedAt(n, s, gaps, Moved(home, id, AtSched(s)))
  BY <1>4, <1>9, <1>10, <1>12 DEF SchedAt, e
<1>14. \A t \in DOMAIN cfg.sched : t # s => \A j : <<t, j>> \in gaps <=> <<t, j>> \in gaps
  OBVIOUS
<1>15. Placed(n, gaps, ports, pipes, caches, wbs, Moved(home, id, AtSched(s)))
  BY <1>9, <1>13, <1>14, OnlySchedPlaced
<1>16. ASSUME c.order = "In-Order"
       PROVE  n.sched[s].q.usage = x.q.usage + 1
  <2>1. x.q \in RingState(c, DOMAIN m.insn)
    BY <1>3, <1>16 DEF QueueState
  <2>2. AllocateEntry(c, x.q) = [x.q EXCEPT !.usage = @ + 1]
    BY <1>16 DEF AllocateEntry
  <2> HIDE DEF c, x
  <2> QED
    BY <1>9, <1>12, <2>1, <2>2 DEF RingState
<1> QED
  BY <1>1, <1>8, <1>9, <1>15, <1>16 DEF n

LEMMA LeftPlaced ==
  ASSUME Wiring(cfg), NEW m, NEW done, Sound(m, done), NEW s \in DOMAIN cfg.sched,
         NEW i \in Indices(cfg.sched[s]), cfg.sched[s].order \in {"In-Order", "In-Age-Order"},
         cfg.sched[s].order = "In-Order" => m.sched[s].q.usage # 0 /\ i = m.sched[s].q.header,
         NEW ports, NEW pipes, NEW caches, NEW wbs, NEW home,
         Placed(m, {<<s, i>>}, ports, pipes, caches, wbs, home)
  PROVE  Placed(Left(m, s, i), {}, ports, pipes, caches, wbs, home)
<1> DEFINE n == Left(m, s, i)
           c == cfg.sched[s]
           x == m.sched[s]
           y == n.sched[s]
<1>1. /\ OnlySched(m, n, s) /\ y.q = Deallocate(c, x.q, i)
      /\ y.enq = x.enq /\ y.flush = x.flush
  BY LeftFields
<1>2. SchedAt(m, s, {<<s, i>>}, home) /\ DOMAIN home = Ids
  BY DEF Placed
<1>3. x \in SchedState(c, DOMAIN m.insn)
  BY SchedFields
<1>4. ~x.flush /\ SchedHolds(c, x, {} \union {i}, home, AtSched(s))
  <2>1. {j \in Indices(c) : <<s, j>> \in {<<s, i>>}} = {} \union {i}
    OBVIOUS
  <2> QED
    BY <1>2, <2>1 DEF SchedAt
<1>5. /\ c.order \in {"In-Order", "In-Age-Order"} /\ c.entries \in Nat \ {0}
      /\ i \in Indices(c) /\ (c.order = "In-Order" => x.q.usage # 0 /\ i = x.q.header)
  BY SchedFacts
<1> HIDE DEF n
<1>6. SchedHolds(c, y, {}, home, AtSched(s))
  <2> HIDE DEF c, x, y
  <2> QED
    BY <1>1, <1>2, <1>3, <1>4, <1>5, SchedLeft
<1>8. SchedAt(n, s, {}, home)
  <2>1. {j \in Indices(c) : <<s, j>> \in {}} = {}
    OBVIOUS
  <2> QED
    BY <1>1, <1>4, <1>6, <2>1 DEF SchedAt
<1>9. \A t \in DOMAIN cfg.sched : t # s => \A j : <<t, j>> \in {} <=> <<t, j>> \in {<<s, i>>}
  OBVIOUS
<1>10. Placed(n, {}, ports, pipes, caches, wbs, home)
  BY <1>1, <1>8, <1>9, SchedStays
<1> QED
  BY <1>10 DEF n

-----------------------------------------------------------------------------
(* What instructions may do during a tick: one that is nowhere stays so,   *)
(* and one the memory has, or will have, moves only while it is expected.  *)

Follows(insn, r, h, g) ==
  \A id \in Ids :
    h[id] # Nowhere =>
      /\ g[id] # Nowhere
      /\ \/ h[id] = g[id]
         \/ Expected(insn, r, id)
         \/ g[id][1] # "dCache" /\ h[id][1] \notin {"dCache", "ldq"}

LEMMA FollowsSelf ==
  ASSUME NEW insn, NEW r, NEW h
  PROVE  Follows(insn, r, h, h)
BY DEF Follows

LEMMA FollowsOn ==
  ASSUME NEW insn, NEW r, NEW f, NEW g, NEW h, Follows(insn, r, h, g), Follows(insn, r, g, f)
  PROVE  Follows(insn, r, h, f)
<1> SUFFICES ASSUME NEW id \in Ids, h[id] # Nowhere
             PROVE  /\ f[id] # Nowhere
                    /\ \/ h[id] = f[id]
                       \/ Expected(insn, r, id)
                       \/ f[id][1] # "dCache" /\ h[id][1] \notin {"dCache", "ldq"}
  BY DEF Follows
<1>1. /\ g[id] # Nowhere
      /\ \/ h[id] = g[id]
         \/ Expected(insn, r, id)
         \/ g[id][1] # "dCache" /\ h[id][1] \notin {"dCache", "ldq"}
  BY DEF Follows
<1>2. /\ f[id] # Nowhere
      /\ \/ g[id] = f[id]
         \/ Expected(insn, r, id)
         \/ f[id][1] # "dCache" /\ g[id][1] \notin {"dCache", "ldq"}
  BY <1>1 DEF Follows
<1> QED
  BY <1>1, <1>2

LEMMA FollowsLeft ==
  ASSUME NEW insn, NEW r, NEW h, DOMAIN h = Ids, NEW id \in Ids
  PROVE  Follows(insn, r, Moved(h, id, Nowhere), h)
BY DEF Follows, Moved

LEMMA FollowsMoved ==
  ASSUME NEW insn, NEW r, NEW h, DOMAIN h = Ids, NEW id \in Ids, h[id] # Nowhere, NEW q,
         \/ Expected(insn, r, id)
         \/ h[id][1] # "dCache" /\ q[1] \notin {"dCache", "ldq"}
  PROVE  Follows(insn, r, Moved(Moved(h, id, Nowhere), id, q), h)
<1> DEFINE k == Moved(h, id, Nowhere)
           l == Moved(k, id, q)
<1>1. DOMAIN k = Ids /\ k[id] = Nowhere /\ \A x \in Ids : x # id => k[x] = h[x]
  BY MoveFacts
<1> HIDE DEF k
<1>2. l[id] = q /\ \A x \in Ids : x # id => l[x] = k[x]
  BY <1>1, MoveFacts
<1> HIDE DEF l
<1>3. Follows(insn, r, l, h)
  BY <1>1, <1>2 DEF Follows
<1> QED
  BY <1>3 DEF l, k

LEMMA ControlFollows ==
  ASSUME NEW insn, NEW r, NEW h, NEW g, Control(insn, r, g), Follows(insn, r, h, g)
  PROVE  Control(insn, r, h)
<1>1. Ring(insn, r) /\ Recovery(insn, r) /\ Owned(insn, r, g) /\ Resumable(insn, r, g)
  BY DEF Control
<1>2. ASSUME NEW id \in Ids, Expected(insn, r, id)
      PROVE  ~insn[id].killed
  <2>1. PICK j \in DOMAIN r.queue : id = r.queue[j]
    BY <1>2 DEF Expected, ToSet
  <2>2. DOMAIN r.queue = 1 .. Len(r.queue)
    BY <1>1 DEF Ring
  <2> QED
    BY <1>1, <2>1, <2>2 DEF Ring
<1>3. Owned(insn, r, h)
  <2> SUFFICES ASSUME NEW id \in Ids, h[id] # Nowhere
               PROVE  /\ id \in DOMAIN insn
                      /\ \/ Expected(insn, r, id)
                         \/ Lingers(insn, r, id) /\ h[id] # AtLdq
                         \/ insn[id].killed /\ h[id][1] = "dCache"
    BY DEF Owned
  <2>1. /\ g[id] # Nowhere
        /\ \/ h[id] = g[id]
           \/ Expected(insn, r, id)
           \/ g[id][1] # "dCache" /\ h[id][1] \notin {"dCache", "ldq"}
    BY DEF Follows
  <2>2. /\ id \in DOMAIN insn
        /\ \/ Expected(insn, r, id)
           \/ Lingers(insn, r, id) /\ g[id] # AtLdq
           \/ insn[id].killed /\ g[id][1] = "dCache"
    BY <1>1, <2>1 DEF Owned
  <2>3. AtLdq[1] = "ldq"
    BY PartOfPlace
  <2> QED
    BY <2>1, <2>2, <2>3
<1>4. Resumable(insn, r, h)
  <2> SUFFICES ASSUME r.state # "Idle", ~TargetOf(insn, r).bad, NEW id \in Ids,
                      h[id] # Nowhere, h[id][1] # "dCache"
               PROVE  ~insn[id].killed
    BY <1>1 DEF Resumable
  <2>1. /\ g[id] # Nowhere
        /\ \/ h[id] = g[id]
           \/ Expected(insn, r, id)
           \/ g[id][1] # "dCache" /\ h[id][1] \notin {"dCache", "ldq"}
    BY DEF Follows
  <2> QED
    BY <1>1, <1>2, <2>1 DEF Resumable
<1> QED
  BY <1>1, <1>3, <1>4 DEF Control

-----------------------------------------------------------------------------
(* Selection: an instruction leaves its queue for a unit, a queue behind   *)
(* it, or a read port.                                                     *)

LEMMA CandidateFilled ==
  ASSUME Wiring(cfg), Orderly, NEW m, NEW done, Sound(m, done), Gathered(m),
         NEW s \in DOMAIN cfg.sched, Live(cfg.sched[s], Q(m, s)) # 0, NEW i \in Candidates(m, s)
  PROVE  /\ i \in Filled(cfg.sched[s], m.sched[s], {})
         /\ cfg.sched[s].order = "In-Order" => m.sched[s].q.usage # 0 /\ i = m.sched[s].q.header
<1> DEFINE c == cfg.sched[s]
           q == m.sched[s].q
<1>1. c.order \in {"In-Order", "In-Age-Order"} /\ c.entries \in Nat \ {0}
  BY SchedFacts DEF Orderly
<1>2. CASE c.order = "In-Order"
  <2>1. i = q.header
    BY <1>2 DEF Candidates, AtHead, Q
  <2>2. q \in RingState(c, DOMAIN m.insn)
    BY <1>2, SchedFields DEF QueueState
  <2>3. q.usage \in Nat \ {0} /\ q.header \in 0 .. (c.entries - 1)
    BY <1>2, <2>2, LiveRing DEF Q, RingState, Indices
  <2>4. (q.header + 0) % c.entries = q.header
    <3>1. q.header \in Nat /\ q.header < c.entries /\ q.header + 0 = q.header
      BY <1>1, <2>3
    <3> HIDE DEF q, c
    <3> QED
      BY <1>1, <3>1, ModSmall
  <2>5. i \in Listening(c, q)
    <3>1. Listening(c, q) = {(q.header + k) % c.entries : k \in 0 .. (q.usage - 1)}
      BY <1>2 DEF Listening
    <3>2. 0 \in 0 .. (q.usage - 1)
      BY <2>3
    <3> QED
      BY <2>1, <2>4, <3>1, <3>2
  <2>6. m.sched[s].enq = <<>>
    BY <1>2 DEF Gathered
  <2> QED
    BY <1>2, <2>1, <2>3, <2>5, <2>6 DEF Filled
<1>3. CASE c.order = "In-Age-Order"
  <2>1. i \in ToSet(q.bust)
    BY <1>3 DEF Candidates, ByAge, Q
  <2> QED
    BY <1>3, <2>1 DEF Filled, Listening
<1> QED
  BY <1>1, <1>2, <1>3

LEMMA InsnIds ==
  ASSUME MaxInsns \in Nat, NEW m, NEW done, Sound(m, done)
  PROVE  DOMAIN m.insn \subseteq Ids
<1>1. m.insn \in Seq(DynInsn) /\ Len(m.insn) <= MaxInsns
  BY DEF Sound, Insns
<1> QED
  BY <1>1 DEF Ids

LEMMA GatheredBut ==
  ASSUME NEW m, NEW n, Gathered(m), NEW s \in DOMAIN cfg.sched, OnlySched(m, n, s),
         cfg.sched[s].order # "In-Order" \/ n.sched[s].enq = m.sched[s].enq
  PROVE  Gathered(n)
BY DEF Gathered, OnlySched

\* Where the instructions of IEW may be after a selection.
Kept(m, home) ==
  \E h : Placed(m, {}, 1 .. cfg.ports, {}, {}, {}, h) /\ Follows(iew.insn, rob, h, home)

LEMMA ToTakerPlaced ==
  ASSUME Wiring(cfg), MaxInsns \in Nat, Orderly, NEW m, NEW done, Sound(m, done),
         m.insn = iew.insn, Gathered(m),
         NEW s \in DOMAIN cfg.sched, Live(cfg.sched[s], Q(m, s)) # 0,
         NEW C \in SUBSET Candidates(m, s),
         OperandsAwaited => \/ cfg.sched[s].units = <<>>
                            \/ \A i \in C : OperandsReady(Q(m, s).slots[i]),
         ToTaker(m, s, C) # <<>>, NEW home, Placed(m, {}, 1 .. cfg.ports, {}, {}, {}, home)
  PROVE  Gathered(ToTaker(m, s, C)[1]) /\ Kept(ToTaker(m, s, C)[1], home)
<1> DEFINE q == Q(m, s)
           ok == {i \in C : Takers(m, s, q.slots[i]) # {}}
           i == Earliest(cfg.sched[s], q, ok)
           id == q.slots[i]
           d == Taker(m, s, id)
           slot == NextIndex(cfg.sched[d.des], m.sched[d.des].q)
           sent == IF d.toFu THEN IssueToUnit(m, d.des, id)
                   ELSE Schedule(AllocateIn(m, d.des), d.des, slot, id)
           P == 1 .. cfg.ports
           g == Moved(home, id, Nowhere)
<1>1. ok # {} /\ ToTaker(m, s, C) = <<Left(sent, s, i)>>
  BY DEF ToTaker, Q
<1>2. i \in ok
  BY <1>1, EarliestIsCandidate
<1>3. i \in Indices(cfg.sched[s]) /\ id \in DOMAIN m.insn /\ Takers(m, s, id) # {}
  BY <1>2, CandidateSlots
<1>4. OperandsAwaited => cfg.sched[s].units = <<>> \/ OperandsReady(id)
  BY <1>2
<1>5. /\ i \in Filled(cfg.sched[s], m.sched[s], {})
      /\ cfg.sched[s].order = "In-Order" => m.sched[s].q.usage # 0 /\ i = m.sched[s].q.header
  <2>1. i \in Candidates(m, s)
    BY <1>2
  <2> HIDE DEF i
  <2> QED
    BY <2>1, CandidateFilled
<1>6. id = m.sched[s].q.slots[i]
  BY DEF Q
<1> HIDE DEF id, i, ok, P
<1>7. id \in Ids /\ id # Nil
  BY <1>3, InsnIds DEF Ids, Nil
<1>8. IsAt(home, id, AtSched(s)) /\ Placed(m, {<<s, i>>}, P, {}, {}, {}, g)
  <2>1. <<s, i>> \notin {} /\ m.sched[s].q.slots[i] # Nil
    BY <1>6, <1>7
  <2>2. /\ IsAt(home, m.sched[s].q.slots[i], AtSched(s))
        /\ Placed(m, {} \union {<<s, i>>}, P, {}, {}, {}, Moved(home, m.sched[s].q.slots[i], Nowhere))
    BY <1>3, <1>5, <2>1, TakeSlot DEF P
  <2>3. {} \union {<<s, i>>} = {<<s, i>>}
    OBVIOUS
  <2> QED
    BY <1>6, <2>2, <2>3
<1>9. DOMAIN home = Ids /\ DOMAIN g = Ids /\ g[id] = Nowhere
  <2>1. DOMAIN home = Ids
    BY DEF Placed
  <2> QED
    BY <1>7, <2>1, MoveFacts
<1> HIDE DEF g
<1>10. PICK to : /\ Placed(sent, {<<s, i>>}, P, {}, {}, {}, Moved(g, id, to))
                 /\ to[1] \in {"pipe", "sched"}
                 /\ Sound(sent, done) /\ Gathered(sent) /\ sent.sched[s].enq = sent.sched[s].enq
                 /\ cfg.sched[s].order = "In-Order" => sent.sched[s] = m.sched[s]
  <2>1. CASE d.toFu = TRUE
    <3> DEFINE u == d.des
               n == IssueToUnit(m, u, id)
    <3>1. u \in DOMAIN cfg.unit /\ cfg.sched[s].units # <<>>
      BY <1>3, <2>1, TakerIsFree
    <3>2. id \in Complete(m.insn)
      BY <1>3, <1>4, <3>1 DEF Complete, OperandsReady
    <3>3. sent = n
      BY <2>1
    <3> HIDE DEF d, u, sent, n
    <3>4. Sound(n, done) /\ n.sched = m.sched
      BY <3>1, <3>2, IssueToUnitSound, IssueToUnitSched DEF n
    <3>5. Placed(n, {<<s, i>>}, P, {}, {}, {}, Moved(g, id, AtPipe(u)))
      BY <1>7, <1>8, <1>9, <3>1, IssueToUnitPlaced DEF n
    <3>6. Gathered(n)
      BY <3>4 DEF Gathered
    <3>7. AtPipe(u)[1] \in {"pipe", "sched"}
      BY PartOfPlace
    <3> QED
      BY <3>3, <3>4, <3>5, <3>6, <3>7
  <2>2. CASE d.toFu = FALSE
    <3> DEFINE t == d.des
               n == Claim(m, t, id)
    <3>1. t \in DOMAIN cfg.sched /\ ~SchedBusy(m, t) /\ cfg.sched[t].order = "In-Age-Order"
      <4>1. \/ d.toFu = TRUE
            \/ /\ d.toFu = FALSE /\ d.des \in DOMAIN cfg.sched /\ ~SchedBusy(m, d.des)
               /\ \E k \in DOMAIN cfg.sched[s].subs : d.des = cfg.sched[s].subs[k]
        BY <1>3, TakerIsFree
      <4> HIDE DEF d
      <4> QED
        BY <2>2, <4>1 DEF Orderly
    <3>2. sent = n
      BY <2>2 DEF Claim
    <3> HIDE DEF d, t, sent, n
    <3>3. /\ Placed(n, {<<s, i>>}, P, {}, {}, {}, Moved(g, id, AtSched(t)))
          /\ Sound(n, done) /\ OnlySched(m, n, t)
      BY <1>3, <1>7, <1>8, <1>9, <3>1, ClaimPlaced DEF n
    <3>4. Gathered(n)
      BY <3>1, <3>3, GatheredBut
    <3>5. cfg.sched[s].order = "In-Order" => n.sched[s] = m.sched[s]
      BY <3>1, <3>3 DEF OnlySched
    <3>6. AtSched(t)[1] \in {"pipe", "sched"}
      BY PartOfPlace
    <3> QED
      BY <3>2, <3>3, <3>4, <3>5, <3>6
  <2> QED
    BY <1>3, <2>1, <2>2, TakerIsFree
<1> HIDE DEF sent
<1> DEFINE n == Left(sent, s, i)
           h == Moved(g, id, to)
<1>11. Placed(n, {}, P, {}, {}, {}, h)
  <2>1. cfg.sched[s].order = "In-Order" => sent.sched[s].q.usage # 0 /\ i = sent.sched[s].q.header
    BY <1>5, <1>10
  <2>2. cfg.sched[s].order \in {"In-Order", "In-Age-Order"}
    BY DEF Orderly
  <2> HIDE DEF h
  <2>3. Placed(sent, {<<s, i>>}, P, {}, {}, {}, h)
    BY <1>10 DEF h
  <2> QED
    BY <1>3, <1>10, <2>1, <2>2, <2>3, LeftPlaced
<1>12. Gathered(n)
  <2>1. OnlySched(sent, n, s) /\ n.sched[s].enq = sent.sched[s].enq
    BY <1>10, LeftFields
  <2> QED
    BY <1>10, <2>1, GatheredBut
<1>13. Follows(iew.insn, rob, h, home)
  <2>1. home[id] # Nowhere /\ home[id][1] # "dCache"
    BY <1>8, PlacesDiffer, PartOfPlace DEF IsAt
  <2>2. to[1] \notin {"dCache", "ldq"}
    BY <1>10
  <2> QED
    BY <1>7, <1>9, <2>1, <2>2, FollowsMoved DEF g
<1>14. Gathered(n) /\ Kept(n, home)
  BY <1>11, <1>12, <1>13 DEF Kept, P
<1>15. ToTaker(m, s, C)[1] = n
  BY <1>1
<1> HIDE DEF n
<1> QED
  BY <1>14, <1>15

LEMMA TakingPlaced ==
  ASSUME NEW m, NEW done, Sound(m, done), NEW u \in DOMAIN cfg.unit, NEW v \in BOOLEAN,
         NEW gaps, NEW ports, NEW pipes, NEW caches, NEW wbs, NEW home,
         Placed(m, gaps, ports, pipes, caches, wbs, home)
  PROVE  /\ Placed(Taking(m, u, v), gaps, ports, pipes, caches, wbs, home)
         /\ Taking(m, u, v).sched = m.sched /\ Taking(m, u, v).port = m.port
         /\ Taking(m, u, v).wb = m.wb /\ Taking(m, u, v).ldq = m.ldq
<1> DEFINE n == Taking(m, u, v)
           x == [m.unit[u] EXCEPT !.taken = v]
<1>1. Parts(m) /\ m.unit[u] \in UnitState(Complete(m.insn)) /\ DOMAIN m.unit = DOMAIN cfg.unit
  BY SoundParts, UnitFields DEF Sound
<1>2. n = [m EXCEPT !.unit[u] = x]
  BY <1>1 DEF Parts, Taking
<1>3. x.pipe = m.unit[u].pipe /\ x.dCache = m.unit[u].dCache
  BY <1>1 DEF UnitState
<1> HIDE DEF x, n
<1>4. /\ n.sched = m.sched /\ n.port = m.port /\ n.wb = m.wb /\ n.ldq = m.ldq
      /\ n.unit = [m.unit EXCEPT ![u] = x]
  BY <1>1, <1>2 DEF Parts
<1>5. SamePipes(m, n) /\ SameCaches(m, n)
  BY <1>1, <1>3, <1>4 DEF SamePipes, SameCaches
<1>6. Placed(n, gaps, ports, pipes, caches, wbs, home)
  BY <1>4, <1>5, PlacedSame
<1> QED
  BY <1>4, <1>6 DEF n

LEMMA PortedPlaced ==
  ASSUME MaxInsns \in Nat, NEW m, NEW done, Sound(m, done), NEW p \in 1 .. cfg.ports,
         NEW x \in Entry(m.insn, done), NEW gaps, NEW ports, p \in ports, NEW pipes, NEW caches,
         NEW wbs, NEW home, Placed(m, gaps, ports, pipes, caches, wbs, home), home[x.id] = Nowhere
  PROVE  /\ Placed(Ported(m, p, x), gaps, ports, pipes, caches, wbs, Moved(home, x.id, AtPort(p)))
         /\ Ported(m, p, x).sched = m.sched
<1> DEFINE n == Ported(m, p, x)
           b == TB!Set(m.port[p], x)
<1>1. Parts(m) /\ DOMAIN m.port = 1 .. cfg.ports /\ m.port[p] \in Latch(Entry(m.insn, done))
  BY SoundParts DEF Sound
<1>2. n = [m EXCEPT !.port[p] = b]
  BY <1>1 DEF Parts, Ported
<1> HIDE DEF b, n
<1>3. /\ n.sched = m.sched /\ n.unit = m.unit /\ n.wb = m.wb /\ n.ldq = m.ldq
      /\ n.port = [m.port EXCEPT ![p] = b]
  BY <1>1, <1>2 DEF Parts
<1>4. SamePipes(m, n) /\ SameCaches(m, n)
  BY <1>3 DEF SamePipes, SameCaches
<1>5. x.id \in Ids /\ InfoName[x] = x.id
  <2>1. x \in [toFu : BOOLEAN, des : Nat, index : Int, id : DOMAIN m.insn]
    BY DEF Entry
  <2>2. DOMAIN m.insn \subseteq Ids
    BY InsnIds
  <2>3. x \in Infos
    BY <2>1, <2>2 DEF Infos
  <2> QED
    BY <2>1, <2>2, <2>3 DEF InfoName
<1>6. /\ n.port[p] = TB!Set(m.port[p], x)
      /\ \A r \in 1 .. cfg.ports : r # p => n.port[r] = m.port[r]
  BY <1>1, <1>3 DEF b
<1>7. Placed(n, gaps, ports, pipes, caches, wbs, Moved(home, x.id, AtPort(p)))
  BY <1>1, <1>3, <1>4, <1>5, <1>6, PutPort
<1> QED
  BY <1>3, <1>7 DEF n

LEMMA ToReadPortPlaced ==
  ASSUME Wiring(cfg), MaxInsns \in Nat, Orderly, NEW m, NEW done, Sound(m, done),
         m.insn = iew.insn, Gathered(m),
         NEW s \in DOMAIN cfg.sched, Live(cfg.sched[s], Q(m, s)) # 0,
         NEW C \in SUBSET Candidates(m, s),
         OperandsAwaited => \/ cfg.sched[s].units = <<>>
                            \/ \A i \in C : iew.insn[Q(m, s).slots[i]].srcs \subseteq done,
         ToReadPort(m, s, C) # <<>>, NEW home, Placed(m, {}, 1 .. cfg.ports, {}, {}, {}, home)
  PROVE  Gathered(ToReadPort(m, s, C)[1]) /\ Kept(ToReadPort(m, s, C)[1], home)
<1> DEFINE i == Earliest(cfg.sched[s], m.sched[s].q, C)
           id == m.sched[s].q.slots[i]
           p == cfg.sched[s].ports[Min(FreePorts(m, s))]
           d == Taker(m, s, id)
           slot == IF d.toFu THEN Nil ELSE NextIndex(cfg.sched[d.des], m.sched[d.des].q)
           claimed == IF d.toFu THEN [m EXCEPT !.unit[d.des].taken = TRUE]
                      ELSE AllocateIn(m, d.des)
           info == [toFu |-> d.toFu, des |-> d.des, index |-> slot, id |-> id]
           sent == [claimed EXCEPT !.port[p] = TB!Set(@, info)]
           P == 1 .. cfg.ports
           g == Moved(home, id, Nowhere)
<1>1. /\ C # {} /\ FreePorts(m, s) # {} /\ Takers(m, s, id) # {}
      /\ ToReadPort(m, s, C) = <<Left(sent, s, i)>>
  BY DEF ToReadPort
<1>2. i \in C
  BY <1>1, EarliestIsCandidate DEF Q
<1>3. i \in Indices(cfg.sched[s]) /\ id \in DOMAIN m.insn
  BY <1>2, CandidateSlots DEF Q
<1>4. OperandsAwaited => cfg.sched[s].units = <<>> \/ m.insn[id].srcs \subseteq done
  BY <1>2 DEF Q
<1>5. p \in 1 .. cfg.ports
  <2>1. /\ DOMAIN cfg.sched[s].ports = 1 .. Len(cfg.sched[s].ports)
        /\ \A k \in DOMAIN cfg.sched[s].ports : cfg.sched[s].ports[k] \in 1 .. cfg.ports
    BY SchedFacts
  <2>2. FreePorts(m, s) \subseteq DOMAIN cfg.sched[s].ports
    BY DEF FreePorts
  <2>3. FreePorts(m, s) \subseteq Nat
    BY <2>1, <2>2
  <2>4. Min(FreePorts(m, s)) \in FreePorts(m, s)
    BY <1>1, <2>3, MinOfNats
  <2> QED
    BY <2>1, <2>2, <2>4
<1>6. /\ i \in Filled(cfg.sched[s], m.sched[s], {})
      /\ cfg.sched[s].order = "In-Order" => m.sched[s].q.usage # 0 /\ i = m.sched[s].q.header
  <2>1. i \in Candidates(m, s)
    BY <1>2
  <2> HIDE DEF i
  <2> QED
    BY <2>1, CandidateFilled
<1>7. id = m.sched[s].q.slots[i]
  OBVIOUS
<1> HIDE DEF id, i, p, P
<1>8. id \in Ids /\ id # Nil
  BY <1>3, InsnIds DEF Ids, Nil
<1>9. IsAt(home, id, AtSched(s)) /\ Placed(m, {<<s, i>>}, P, {}, {}, {}, g)
  <2>1. <<s, i>> \notin {} /\ m.sched[s].q.slots[i] # Nil
    BY <1>7, <1>8
  <2>2. /\ IsAt(home, m.sched[s].q.slots[i], AtSched(s))
        /\ Placed(m, {} \union {<<s, i>>}, P, {}, {}, {}, Moved(home, m.sched[s].q.slots[i], Nowhere))
    BY <1>3, <1>6, <2>1, TakeSlot DEF P
  <2>3. {} \union {<<s, i>>} = {<<s, i>>}
    OBVIOUS
  <2> QED
    BY <1>7, <2>2, <2>3
<1>10. DOMAIN home = Ids /\ DOMAIN g = Ids /\ g[id] = Nowhere
  <2>1. DOMAIN home = Ids
    BY DEF Placed
  <2> QED
    BY <1>8, <2>1, MoveFacts
<1> HIDE DEF g
<1>11. /\ Placed(claimed, {<<s, i>>}, P, {}, {}, {}, g)
       /\ Sound(claimed, done) /\ claimed.insn = m.insn
       /\ info \in Entry(m.insn, done) /\ info.id = id
       /\ Gathered(claimed)
       /\ cfg.sched[s].order = "In-Order" => claimed.sched[s] = m.sched[s]
  <2>1. CASE d.toFu = TRUE
    <3> DEFINE u == d.des
    <3>1. u \in DOMAIN cfg.unit /\ cfg.sched[s].units # <<>>
      BY <1>1, <2>1, TakerIsFree
    <3> HIDE DEF d
    <3>2. claimed = Taking(m, u, TRUE) /\ info = [toFu |-> TRUE, des |-> u, index |-> Nil, id |-> id]
      BY <2>1 DEF Taking
    <3> HIDE DEF u, claimed, info
    <3>3. Sound(claimed, done) /\ claimed.insn = m.insn
      BY <3>1, <3>2, TakingSound
    <3>4. Placed(claimed, {<<s, i>>}, P, {}, {}, {}, g) /\ claimed.sched = m.sched
      BY <1>9, <3>1, <3>2, TakingPlaced
    <3>5. info \in Entry(m.insn, done) /\ info.id = id
      <4>1. u \in Nat
        BY <3>1, WiringFacts
      <4>2. OperandsAwaited => m.insn[id].srcs \subseteq m.insn[id].ready \union done
        BY <1>4, <3>1
      <4> QED
        BY <1>3, <3>1, <3>2, <4>1, <4>2 DEF Entry, Nil
    <3>6. Gathered(claimed)
      BY <3>4 DEF Gathered
    <3> QED
      BY <3>3, <3>4, <3>5, <3>6
  <2>2. CASE d.toFu = FALSE
    <3> DEFINE t == d.des
               j == NextIndex(cfg.sched[t], m.sched[t].q)
    <3>1. t \in DOMAIN cfg.sched /\ ~SchedBusy(m, t) /\ cfg.sched[t].order = "In-Age-Order"
      <4>1. \/ d.toFu = TRUE
            \/ /\ d.toFu = FALSE /\ d.des \in DOMAIN cfg.sched /\ ~SchedBusy(m, d.des)
               /\ \E k \in DOMAIN cfg.sched[s].subs : d.des = cfg.sched[s].subs[k]
        BY <1>1, TakerIsFree
      <4> HIDE DEF d
      <4> QED
        BY <2>2, <4>1 DEF Orderly
    <3> HIDE DEF d
    <3>2. claimed = AllocateIn(m, t) /\ info = [toFu |-> FALSE, des |-> t, index |-> j, id |-> id]
      BY <2>2
    <3> HIDE DEF t, claimed, info
    <3>3. Sound(claimed, done) /\ claimed.insn = m.insn /\ OnlySched(m, claimed, t)
          /\ claimed.sched[t] = Allocated(cfg.sched[t], m.sched[t])
      BY <3>1, <3>2, AllocateInFields
    <3>4. Placed(claimed, {<<s, i>>}, P, {}, {}, {}, g)
      BY <1>9, <3>1, <3>2, AllocateInPlaced
    <3>5. info \in Entry(m.insn, done) /\ info.id = id
      <4>1. t \in Nat
        BY <3>1, WiringFacts
      <4>2. GetAvailibleEntryCount(cfg.sched[t], m.sched[t].q) # 0
        BY <3>1 DEF SchedBusy
      <4>3. m.sched[t].q \in QueueState(cfg.sched[t], DOMAIN m.insn)
        BY <3>1, SchedFields
      <4>4. cfg.sched[t].order \in Orders /\ cfg.sched[t].entries \in Nat \ {0}
        BY <3>1, SchedFacts
      <4>5. j \in Int
        BY <4>2, <4>3, <4>4, QueueNextIndex
      <4> HIDE DEF j
      <4> QED
        BY <1>3, <3>1, <3>2, <4>1, <4>5 DEF Entry
    <3>6. Gathered(claimed)
      BY <3>1, <3>3, GatheredBut
    <3>7. cfg.sched[s].order = "In-Order" => claimed.sched[s] = m.sched[s]
      BY <3>1, <3>3 DEF OnlySched
    <3> QED
      BY <3>3, <3>4, <3>5, <3>6, <3>7
  <2> QED
    BY <1>1, <2>1, <2>2, TakerIsFree
<1> HIDE DEF claimed, info
<1>12. sent = Ported(claimed, p, info)
  BY DEF Ported
<1> HIDE DEF sent
<1> DEFINE h == Moved(g, id, AtPort(p))
<1>13. Placed(sent, {<<s, i>>}, P, {}, {}, {}, h) /\ sent.sched = claimed.sched
  <2>1. p \in P /\ info \in Entry(claimed.insn, done) /\ g[info.id] = Nowhere
    BY <1>5, <1>10, <1>11 DEF P
  <2>2. /\ Placed(Ported(claimed, p, info), {<<s, i>>}, P, {}, {}, {}, Moved(g, info.id, AtPort(p)))
        /\ Ported(claimed, p, info).sched = claimed.sched
    BY <1>5, <1>11, <2>1, PortedPlaced
  <2> QED
    BY <1>11, <1>12, <2>2
<1>14. Sound(sent, done)
  <2>1. info \in Entry(claimed.insn, done)
    BY <1>11
  <2> QED
    BY <1>5, <1>11, <1>12, <2>1, PortedSound
<1>15. Follows(iew.insn, rob, h, home)
  <2>1. home[id] # Nowhere /\ home[id][1] # "dCache"
    BY <1>9, PlacesDiffer, PartOfPlace DEF IsAt
  <2>2. AtPort(p)[1] \notin {"dCache", "ldq"}
    BY PartOfPlace
  <2> QED
    BY <1>8, <1>10, <2>1, <2>2, FollowsMoved DEF g
<1> HIDE DEF h
<1> DEFINE n == Left(sent, s, i)
<1>16. Placed(n, {}, P, {}, {}, {}, h)
  <2>1. cfg.sched[s].order = "In-Order" => sent.sched[s].q.usage # 0 /\ i = sent.sched[s].q.header
    BY <1>6, <1>11, <1>13
  <2>2. cfg.sched[s].order \in {"In-Order", "In-Age-Order"}
    BY DEF Orderly
  <2> QED
    BY <1>3, <1>13, <1>14, <2>1, <2>2, LeftPlaced
<1>17. Gathered(n)
  <2>1. OnlySched(sent, n, s) /\ n.sched[s].enq = sent.sched[s].enq
    BY <1>14, LeftFields
  <2>2. Gathered(sent)
    BY <1>11, <1>13 DEF Gathered
  <2> QED
    BY <2>1, <2>2, GatheredBut
<1>18. Gathered(n) /\ Kept(n, home)
  BY <1>15, <1>16, <1>17 DEF Kept, P
<1>19. ToReadPort(m, s, C)[1] = n
  BY <1>1
<1> HIDE DEF n
<1> QED
  BY <1>18, <1>19

LEMMA KeptOn ==
  ASSUME NEW m, NEW home, Kept(m, home), NEW n,
         \A h : Placed(m, {}, 1 .. cfg.ports, {}, {}, {}, h) => Kept(n, h)
  PROVE  Kept(n, home)
<1>1. PICK h : Placed(m, {}, 1 .. cfg.ports, {}, {}, {}, h) /\ Follows(iew.insn, rob, h, home)
  BY DEF Kept
<1>2. PICK k : Placed(n, {}, 1 .. cfg.ports, {}, {}, {}, k) /\ Follows(iew.insn, rob, k, h)
  BY <1>1 DEF Kept
<1>3. Follows(iew.insn, rob, k, home)
  BY <1>1, <1>2, FollowsOn
<1> QED
  BY <1>2, <1>3 DEF Kept

LEMMA SelectOnePlaced ==
  ASSUME Wiring(cfg), MaxInsns \in Nat, Orderly, Registers, NEW s \in DOMAIN cfg.sched, NEW a,
         a = [m |-> a.m, go |-> a.go], Sound(a.m, regs.done), a.m.insn = iew.insn,
         Gathered(a.m), NEW home, Kept(a.m, home)
  PROVE  Gathered(SelectOne(s, a).m) /\ Kept(SelectOne(s, a).m, home)
<1> DEFINE m == a.m
           c == cfg.sched[s]
           next == IssueSelect(m, s)
<1>1. CASE ~a.go \/ Live(c, Q(m, s)) = 0 \/ next = <<>>
  <2>1. SelectOne(s, a) = [a EXCEPT !.go = FALSE]
    BY <1>1 DEF SelectOne
  <2>2. SelectOne(s, a).m = a.m
    BY <2>1
  <2> QED
    BY <2>2
<1>2. CASE Live(c, Q(m, s)) # 0 /\ next # <<>> /\ a.go
  <2>1. SelectOne(s, a) = [a EXCEPT !.m = next[1]]
    BY <1>2 DEF SelectOne
  <2>2. ASSUME NEW g, Placed(m, {}, 1 .. cfg.ports, {}, {}, {}, g)
        PROVE  Gathered(next[1]) /\ Kept(next[1], g)
    <3> HIDE DEF m
    <3>1. PICK C \in SUBSET Candidates(m, s) :
             \/ c.wakeUp = "None" /\ next = ToTaker(m, s, C)
             \/ /\ c.wakeUp = "ResvrStation" /\ next = ToTaker(m, s, C)
                /\ \A i \in C : OperandsReady(Q(m, s).slots[i])
             \/ /\ c.wakeUp = "OperandReady" /\ next = ToReadPort(m, s, C)
                /\ \A i \in C : OperandsDone(Q(m, s).slots[i])
             \/ c.wakeUp = "RfQueue" /\ next = ToReadPort(m, s, C)
             \/ /\ c.wakeUp = "Commit" /\ next = ToReadPort(m, s, C)
                /\ \A i \in C : /\ ReadyForCommit(rob, iew.insn[Q(m, s).slots[i]].tag)
                                /\ \/ c.order = "In-Order" /\ OperandsDone(Q(m, s).slots[i])
                                   \/ c.order # "In-Order" /\ OperandsForwarding(Q(m, s).slots[i])
      BY Selects
    <3>2. Sound(m, regs.done) /\ m.insn = iew.insn /\ Gathered(m)
      BY DEF m
    <3>3. CASE c.wakeUp \in {"None", "ResvrStation"}
      <4>1. next = ToTaker(m, s, C)
        BY <3>1, <3>3
      <4>2. OperandsAwaited => c.units = <<>> \/ \A i \in C : OperandsReady(Q(m, s).slots[i])
        BY <3>1, <3>3 DEF OperandsAwaited
      <4> HIDE DEF c
      <4> QED
        BY <1>2, <2>2, <3>2, <4>1, <4>2, ToTakerPlaced DEF c
    <3>4. CASE c.wakeUp \in {"OperandReady", "RfQueue", "Commit"}
      <4>1. next = ToReadPort(m, s, C)
        BY <3>1, <3>4
      <4>2. OperandsAwaited => \/ c.units = <<>>
                               \/ \A i \in C : iew.insn[Q(m, s).slots[i]].srcs \subseteq regs.done
        <5>1. CASE c.wakeUp = "RfQueue"
          BY <5>1 DEF OperandsAwaited
        <5>2. CASE c.wakeUp = "OperandReady"
          BY <3>1, <5>2 DEF OperandsDone
        <5>3. CASE c.wakeUp = "Commit"
          BY <3>1, <5>3 DEF OperandsDone, OperandsForwarding, OperandsAwaited, Registers
        <5> QED
          BY <3>4, <5>1, <5>2, <5>3
      <4> HIDE DEF c
      <4> QED
        BY <1>2, <2>2, <3>2, <4>1, <4>2, ToReadPortPlaced DEF c
    <3> QED
      BY <3>1, <3>3, <3>4
  <2> HIDE DEF m, next
  <2>3. SelectOne(s, a).m = next[1]
    BY <2>1
  <2>4. Kept(m, home)
    BY DEF m
  <2>5. Kept(next[1], home)
    BY <2>2, <2>4, KeptOn
  <2>6. Gathered(next[1])
    BY <2>2, <2>4 DEF Kept
  <2> QED
    BY <2>3, <2>5, <2>6
<1> QED
  BY <1>1, <1>2

LEMMA EvaluateSchedPlaced ==
  ASSUME Wiring(cfg), MaxInsns \in Nat, Orderly, Registers, NEW s \in DOMAIN cfg.sched, NEW m,
         Sound(m, regs.done), m.insn = iew.insn, Gathered(m), NEW home, Kept(m, home)
  PROVE  Gathered(EvaluateSched(m, s)) /\ Kept(EvaluateSched(m, s), home)
<1> DEFINE n == cfg.sched[s].dequeWidth
           Good(a) == /\ a = [m |-> a.m, go |-> a.go]
                      /\ Sound(a.m, regs.done) /\ a.m.insn = iew.insn
                      /\ Gathered(a.m) /\ Kept(a.m, home)
<1>1. PICK h : /\ EvaluateSched(m, s) = h[n].m
               /\ h[0] = [m |-> m, go |-> TRUE]
               /\ \A k \in 1 .. n : h[k] = SelectOne(s, h[k - 1])
  BY SelectionsRun
<1> DEFINE T == {k \in 0 .. n : Good(h[k])}
<1>2. n \in Nat
  BY SchedFacts
<1>3. 0 \in T
  BY <1>1, <1>2
<1>4. ASSUME NEW k \in 1 .. n, k - 1 \in T
      PROVE  k \in T
  <2>1. Good(h[k - 1]) /\ h[k] = SelectOne(s, h[k - 1])
    BY <1>1, <1>4
  <2> DEFINE a == h[k - 1]
             b == SelectOne(s, a)
  <2> HIDE DEF a
  <2>2. /\ a = [m |-> a.m, go |-> a.go] /\ Sound(a.m, regs.done) /\ a.m.insn = iew.insn
        /\ Gathered(a.m) /\ Kept(a.m, home)
    BY <2>1 DEF a
  <2>3. b = [m |-> b.m, go |-> b.go] /\ Sound(b.m, regs.done) /\ b.m.insn = iew.insn
    BY <2>2, SelectOneSound
  <2>4. Gathered(b.m) /\ Kept(b.m, home)
    BY <2>2, SelectOnePlaced
  <2> HIDE DEF b
  <2>5. Good(b)
    BY <2>3, <2>4
  <2> HIDE DEF Good
  <2> QED
    BY <2>1, <2>5 DEF a, b
<1> HIDE DEF n
<1>5. n \in T
  <2> HIDE DEF T
  <2> QED
    BY <1>2, <1>3, <1>4, LastRound
<1> QED
  BY <1>1, <1>5

LEMMA IssuePlaced ==
  ASSUME Wiring(cfg), MaxInsns \in Nat, Orderly, Registers, Sound(iew, regs.done), Gathered(iew),
         Issue, NEW home, Placed(iew, {}, 1 .. cfg.ports, {}, {}, {}, home)
  PROVE  /\ iew'.insn = iew.insn
         /\ \E h : /\ Placed(iew', {}, 1 .. cfg.ports, {}, {}, {}, h)
                   /\ Follows(iew.insn, rob, h, home)
<1> DEFINE n == Len(cfg.sched)
           Good(m) == Sound(m, regs.done) /\ m.insn = iew.insn /\ Gathered(m) /\ Kept(m, home)
<1>1. PICK h : /\ iew' = h[n]
               /\ h[0] = iew
               /\ \A k \in 1 .. n : h[k] = EvaluateSched(h[k - 1], k)
  BY IssueRuns
<1> DEFINE T == {k \in 0 .. n : Good(h[k])}
<1>2. n \in Nat /\ DOMAIN cfg.sched = 1 .. n
  BY WiringFacts
<1>3. 0 \in T
  <2>1. Kept(iew, home)
    BY FollowsSelf DEF Kept
  <2> QED
    BY <1>1, <1>2, <2>1
<1>4. ASSUME NEW k \in 1 .. n, k - 1 \in T
      PROVE  k \in T
  <2>1. Good(h[k - 1]) /\ h[k] = EvaluateSched(h[k - 1], k) /\ k \in DOMAIN cfg.sched
    BY <1>1, <1>2, <1>4
  <2> DEFINE m == h[k - 1]
  <2> HIDE DEF m
  <2>2. Sound(m, regs.done) /\ m.insn = iew.insn /\ Gathered(m) /\ Kept(m, home)
    BY <2>1 DEF m
  <2>3. Sound(EvaluateSched(m, k), regs.done) /\ EvaluateSched(m, k).insn = iew.insn
    BY <2>1, <2>2, EvaluateSchedSound
  <2>4. Gathered(EvaluateSched(m, k)) /\ Kept(EvaluateSched(m, k), home)
    BY <2>1, <2>2, EvaluateSchedPlaced
  <2>5. Good(EvaluateSched(m, k))
    BY <2>3, <2>4
  <2> HIDE DEF Good
  <2> QED
    BY <2>1, <2>5 DEF m
<1> HIDE DEF n
<1>5. n \in T
  <2> HIDE DEF T
  <2> QED
    BY <1>2, <1>3, <1>4, LastRound
<1>6. Kept(iew', home) /\ iew'.insn = iew.insn
  BY <1>1, <1>5
<1> QED
  BY <1>6 DEF Kept

-----------------------------------------------------------------------------
(* ReadOperand: what comes out of a read port goes to its unit or queue.   *)

LEMMA IssueToUnitInsns ==
  ASSUME NEW m, NEW done, Sound(m, done), NEW u \in DOMAIN cfg.unit, NEW id
  PROVE  IssueToUnit(m, u, id).insn = m.insn
<1>1. Parts(m)
  BY SoundParts
<1> QED
  BY <1>1 DEF IssueToUnit, Fires, Parts

LEMMA SameInsnsOn ==
  ASSUME NEW i, NEW j, NEW k, SameInsns(i, j), SameInsns(j, k)
  PROVE  SameInsns(i, k)
BY DEF SameInsns

LEMMA DeliverPlaced ==
  ASSUME Wiring(cfg), MaxInsns \in Nat, Registers, NEW p \in 1 .. cfg.ports, NEW m,
         Sound(m, regs.done), NEW ports, p \in ports, NEW home,
         Placed(m, {}, ports, {}, {}, {}, home)
  PROVE  /\ \E h : /\ Placed(Deliver(m, p), {}, ports \ {p}, {}, {}, {}, h)
                   /\ Follows(iew.insn, rob, h, home)
         /\ SameInsns(m.insn, Deliver(m, p).insn)
<1> DEFINE out == TB!OutPort(m.port[p], cfg.rfLatency)
           x == out[1]
           P == ports \ {p}
           d == Deliver(m, p)
<1>0. P \in SUBSET ports
  OBVIOUS
<1>1. CASE out = <<>>
  <2>1. d = m
    BY <1>1 DEF Deliver
  <2>2. Placed(m, {}, P, {}, {}, {}, home)
    <3>1. \A S : {} \in SUBSET S
      OBVIOUS
    <3> HIDE DEF P
    <3> QED
      BY <1>0, <3>1, PlacedLess
  <2>3. SameInsns(m.insn, m.insn)
    BY DEF SameInsns
  <2> HIDE DEF d, P
  <2> QED
    BY <2>1, <2>2, <2>3, FollowsSelf DEF d, P
<1>2. CASE out # <<>>
  <2>1. x \in Entry(m.insn, regs.done)
    <3>1. m.port[p] \in Latch(Entry(m.insn, regs.done))
      BY DEF Sound
    <3> QED
      BY <1>2, <3>1, LatchOut
  <2> DEFINE id == x.id
             g == Moved(home, id, Nowhere)
             n == [m EXCEPT !.insn[id] = ReadRegisters(@)]
  <2>2. id \in Ids /\ InfoName[x] = id /\ id \in DOMAIN m.insn /\ x.index \in Int
    <3> HIDE DEF x
    <3>1. x \in [toFu : BOOLEAN, des : Nat, index : Int, id : DOMAIN m.insn]
      BY <2>1 DEF Entry
    <3>2. DOMAIN m.insn \subseteq Ids
      BY InsnIds
    <3>3. x \in Infos
      BY <3>1, <3>2 DEF Infos
    <3> QED
      BY <3>1, <3>2, <3>3 DEF InfoName
  <2>3. home[id] = AtPort(p) /\ Placed(m, {}, P, {}, {}, {}, g)
    <3> HIDE DEF id, P
    <3>1. LET i == InfoName[out[1]]
          IN  /\ IsAt(home, i, AtPort(p))
              /\ Placed(m, {}, ports \ {p}, {}, {}, {}, Moved(home, i, Nowhere))
      <4> HIDE DEF out
      <4> QED
        BY <1>2, TakePort DEF out
    <3> QED
      BY <2>2, <3>1 DEF IsAt, P
  <2>4. d = IF x.toFu THEN IssueToUnit(n, x.des, id) ELSE Schedule(n, x.des, x.index, id)
    BY <1>2 DEF Deliver
  <2>5. /\ Sound(n, regs.done) /\ SameInsns(m.insn, n.insn)
        /\ n.sched = m.sched /\ n.unit = m.unit /\ n.port = m.port /\ n.wb = m.wb /\ n.ldq = m.ldq
    <3> HIDE DEF id
    <3>2. LET r == [m EXCEPT !.insn[id] = ReadRegisters(@)]
          IN  /\ Sound(r, regs.done) /\ SameInsns(m.insn, r.insn)
              /\ r.sched = m.sched /\ r.unit = m.unit /\ r.port = m.port /\ r.wb = m.wb /\ r.ldq = m.ldq
      BY <2>2, ReadRegistersSound
    <3> QED
      BY <3>2
  <2> DEFINE u == x.des
             i == x.index
  <2>6. IF x.toFu THEN u \in DOMAIN cfg.unit ELSE u \in DOMAIN cfg.sched
    BY <2>1 DEF Entry
  <2> HIDE DEF n, d, x
  <2>7. SamePipes(m, n) /\ SameCaches(m, n)
    BY <2>5 DEF SamePipes, SameCaches
  <2>8. Placed(n, {}, P, {}, {}, {}, g)
    <3> HIDE DEF P, g
    <3> QED
      BY <2>3, <2>5, <2>7, PlacedSame
  <2>9. id \in DOMAIN n.insn
    BY <2>2, <2>5 DEF SameInsns
  <2>10. DOMAIN home = Ids /\ g[id] = Nowhere
    <3>1. DOMAIN home = Ids
      BY DEF Placed
    <3> HIDE DEF id
    <3> QED
      BY <2>2, <3>1, NowhereFrom
  <2>11. \A q : q[1] \notin {"dCache", "ldq"} => Follows(iew.insn, rob, Moved(g, id, q), home)
    <3>1. home[id] # Nowhere /\ home[id][1] # "dCache"
      BY <2>3, PlacesDiffer, PartOfPlace
    <3> HIDE DEF id
    <3> QED
      BY <2>2, <2>10, <3>1, FollowsMoved DEF g
  <2> HIDE DEF u, i, id, g, P
  <2>12. CASE x.toFu
    <3>1. d = IssueToUnit(n, u, id) /\ u \in DOMAIN cfg.unit
      BY <2>4, <2>6, <2>12 DEF u, id
    <3>2. Placed(d, {}, P, {}, {}, {}, Moved(g, id, AtPipe(u)))
      BY <2>2, <2>5, <2>8, <2>10, <3>1, IssueToUnitPlaced
    <3>3. Follows(iew.insn, rob, Moved(g, id, AtPipe(u)), home)
      BY <2>11, PartOfPlace
    <3>4. d.insn = n.insn
      BY <2>5, <3>1, IssueToUnitInsns
    <3> QED
      BY <2>5, <3>2, <3>3, <3>4 DEF P, d
  <2>13. CASE ~x.toFu
    <3>1. d = Schedule(n, u, i, id) /\ u \in DOMAIN cfg.sched /\ i \in Int
      BY <2>2, <2>4, <2>6, <2>13 DEF u, id, i
    <3>2. Placed(d, {}, P, {}, {}, {}, Moved(g, id, AtSched(u)))
      BY <2>2, <2>5, <2>8, <2>9, <2>10, <3>1, SchedulePlaced
    <3>3. Follows(iew.insn, rob, Moved(g, id, AtSched(u)), home)
      BY <2>11, PartOfPlace
    <3>4. d.insn = n.insn
      BY <2>5, <2>9, <3>1, ScheduleKeeps
    <3> QED
      BY <2>5, <3>2, <3>3, <3>4 DEF P, d
  <2> QED
    BY <2>12, <2>13
<1> QED
  BY <1>1, <1>2

LEMMA ReadOperandPlaced ==
  ASSUME Wiring(cfg), MaxInsns \in Nat, Registers, Sound(iew, regs.done),
         ReadOperand, NEW home, Placed(iew, {}, 1 .. cfg.ports, {}, {}, {}, home)
  PROVE  /\ \E h : /\ Placed(iew', {}, {}, {}, {}, {}, h)
                   /\ Follows(iew.insn, rob, h, home)
         /\ SameInsns(iew.insn, iew'.insn)
<1> DEFINE n == cfg.ports
           Kept2(m, k) == \E g : /\ Placed(m, {}, (k + 1) .. n, {}, {}, {}, g)
                                 /\ Follows(iew.insn, rob, g, home)
           Good(m, k) == /\ Sound(m, regs.done) /\ SameInsns(iew.insn, m.insn)
                         /\ Kept2(m, k)
<1>1. PICK h : /\ iew' = h[n]
               /\ h[0] = iew
               /\ \A k \in 1 .. n : h[k] = Deliver(h[k - 1], k)
  BY ReadPortsRun
<1> DEFINE T == {k \in 0 .. n : Good(h[k], k)}
<1>2. n \in Nat
  BY WiringFacts
<1>3. 0 \in T
  <2>1. SameInsns(iew.insn, iew.insn)
    BY DEF SameInsns
  <2>2. 0 + 1 = 1
    OBVIOUS
  <2>3. Kept2(iew, 0)
    BY <2>2, FollowsSelf
  <2> HIDE DEF Kept2
  <2> QED
    BY <1>1, <1>2, <2>1, <2>3
<1>4. ASSUME NEW k \in 1 .. n, k - 1 \in T
      PROVE  k \in T
  <2>1. Good(h[k - 1], k - 1) /\ h[k] = Deliver(h[k - 1], k)
    BY <1>1, <1>4
  <2> DEFINE m == h[k - 1]
             d == Deliver(m, k)
  <2>a. h[k] = d
    BY <2>1
  <2> HIDE DEF m
  <2>2. Sound(m, regs.done) /\ SameInsns(iew.insn, m.insn)
    BY <2>1 DEF m
  <2>3. (k - 1) + 1 = k /\ k \in k .. n /\ (k .. n) \ {k} = (k + 1) .. n
    BY <1>2
  <2>4. PICK g : Placed(m, {}, k .. n, {}, {}, {}, g) /\ Follows(iew.insn, rob, g, home)
    BY <2>1, <2>3 DEF m
  <2>5. Sound(d, regs.done)
    BY <2>2, DeliverSound
  <2>6. /\ \E f : Placed(d, {}, (k .. n) \ {k}, {}, {}, {}, f) /\ Follows(iew.insn, rob, f, g)
        /\ SameInsns(m.insn, d.insn)
    BY <2>2, <2>3, <2>4, DeliverPlaced
  <2> HIDE DEF d
  <2>7. PICK f : Placed(d, {}, (k + 1) .. n, {}, {}, {}, f) /\ Follows(iew.insn, rob, f, g)
    BY <2>3, <2>6
  <2>8. Follows(iew.insn, rob, f, home)
    BY <2>4, <2>7, FollowsOn
  <2>9. SameInsns(iew.insn, d.insn)
    BY <2>2, <2>6, SameInsnsOn
  <2>10. Good(d, k)
    BY <2>5, <2>7, <2>8, <2>9
  <2> HIDE DEF Good
  <2> QED
    BY <2>a, <2>10
<1>5. n \in T
  <2> HIDE DEF T, n
  <2> QED
    BY <1>2, <1>3, <1>4, LastRound
<1>6. Good(iew', n)
  BY <1>1, <1>5
<1>7. (n + 1) .. n = {}
  BY <1>2
<1> HIDE DEF n
<1> QED
  BY <1>6, <1>7

-----------------------------------------------------------------------------
(* The ring of the re-order buffer.                                        *)

LEMMA DistanceIs ==
  ASSUME Wiring(cfg), NEW r, r.header \in 0 .. (cfg.robSize - 1),
         NEW tag \in 0 .. (cfg.robSize - 1)
  PROVE  /\ Distance(r, tag) = IF tag >= r.header THEN tag - r.header
                               ELSE tag - r.header + cfg.robSize
         /\ Distance(r, tag) \in 0 .. (cfg.robSize - 1)
<1> DEFINE n == cfg.robSize
           x == tag - r.header + n
<1>1. n \in Nat \ {0}
  BY WiringFacts
<1>2. x \in Nat /\ x < 2 * n /\ (x < n <=> tag < r.header) /\ tag \in Int /\ r.header \in Int
  BY <1>1
<1>3. Distance(r, tag) = x % n
  BY DEF Distance
<1> HIDE DEF x
<1>4. CASE x < n
  <2>1. x % n = x
    BY <1>1, <1>2, <1>4, ModSmall
  <2> QED
    BY <1>1, <1>2, <1>3, <1>4, <2>1 DEF x
<1>5. CASE n <= x
  <2>1. x % n = x - n
    BY <1>1, <1>2, <1>5, ModOnce
  <2> QED
    BY <1>1, <1>2, <1>3, <1>5, <2>1 DEF x
<1> QED
  BY <1>1, <1>2, <1>4, <1>5

LEMMA TagAt ==
  ASSUME Wiring(cfg), NEW r, r.header \in 0 .. (cfg.robSize - 1),
         NEW k \in 0 .. (cfg.robSize - 1)
  PROVE  /\ (r.header + k) % cfg.robSize = IF r.header + k < cfg.robSize THEN r.header + k
                                           ELSE r.header + k - cfg.robSize
         /\ (r.header + k) % cfg.robSize \in 0 .. (cfg.robSize - 1)
         /\ Distance(r, (r.header + k) % cfg.robSize) = k
<1> DEFINE n == cfg.robSize
           x == r.header + k
           y == x % n
<1>1. n \in Nat \ {0}
  BY WiringFacts
<1>2. x \in Nat /\ x < 2 * n /\ k \in Int /\ r.header \in Int /\ r.header < n
  BY <1>1
<1> HIDE DEF x
<1>3. y = IF x < n THEN x ELSE x - n
  BY <1>1, <1>2, ModSmall, ModOnce
<1> HIDE DEF y
<1>4. y \in 0 .. (n - 1)
  BY <1>1, <1>2, <1>3
<1>5. Distance(r, y) = IF y >= r.header THEN y - r.header ELSE y - r.header + n
  BY <1>4, DistanceIs
<1>6. Distance(r, y) = k
  BY <1>1, <1>2, <1>3, <1>4, <1>5 DEF x
<1>7. y = (r.header + k) % cfg.robSize /\ x = r.header + k
  BY DEF x, y
<1>8. (r.header + k) % cfg.robSize = IF r.header + k < cfg.robSize THEN r.header + k
                                     ELSE r.header + k - cfg.robSize
  BY <1>1, <1>2, <1>3, <1>7
<1>9. (r.header + k) % cfg.robSize \in 0 .. (cfg.robSize - 1)
  BY <1>4, <1>7
<1>10. Distance(r, (r.header + k) % cfg.robSize) = k
  BY <1>6, <1>7
<1> QED
  BY <1>8, <1>9, <1>10

\* The instruction that has a tag of the buffer.
LEMMA TargetIsInsn ==
  ASSUME Wiring(cfg), NEW insn, NEW r, Ring(insn, r), NEW tag \in 0 .. (cfg.robSize - 1),
         InRob(r, tag)
  PROVE  LET j == Distance(r, tag) + 1
         IN  /\ j \in 1 .. Len(r.queue) /\ r.queue[j] \in DOMAIN insn
             /\ insn[r.queue[j]].tag = tag
<1> DEFINE d == Distance(r, tag)
           n == cfg.robSize
<1>1. /\ r.header \in 0 .. (n - 1) /\ r.queue \in Seq(DOMAIN insn)
      /\ \A j \in 1 .. Len(r.queue) : insn[r.queue[j]].tag = (r.header + j - 1) % n
  BY DEF Ring
<1>2. n \in Nat \ {0}
  BY WiringFacts
<1>3. /\ d = IF tag >= r.header THEN tag - r.header ELSE tag - r.header + n
      /\ d \in 0 .. (n - 1)
  BY <1>1, DistanceIs
<1>4. d < Len(r.queue) /\ Len(r.queue) \in Nat
  <2>1. \A S : \A q \in Seq(S) : Len(q) \in Nat
    OBVIOUS
  <2> QED
    BY <1>1, <2>1 DEF InRob
<1> HIDE DEF d
<1>5. d + 1 \in 1 .. Len(r.queue) /\ r.header + (d + 1) - 1 = r.header + d
  BY <1>1, <1>2, <1>3, <1>4, SMTT(40)
<1>6. r.queue[d + 1] \in DOMAIN insn
  <2>1. \A S : \A q \in Seq(S) : \A k \in 1 .. Len(q) : q[k] \in S
    OBVIOUS
  <2> QED
    BY <1>1, <1>5, <2>1
<1>7. insn[r.queue[d + 1]].tag = (r.header + d) % n
  BY <1>1, <1>5
<1>8. (r.header + d) % n = IF r.header + d < n THEN r.header + d ELSE r.header + d - n
  BY <1>1, <1>3, TagAt
<1>9. (r.header + d) % n = tag
  BY <1>1, <1>2, <1>3, <1>8, SMTT(40)
<1> QED
  BY <1>5, <1>6, <1>7, <1>9 DEF d

\* The re-order buffer asks nothing about operands.
LEMMA ControlSame ==
  ASSUME Wiring(cfg), NEW i, NEW j, SameInsns(i, j), NEW r, NEW home, Control(i, r, home)
  PROVE  Control(j, r, home)
<1>1. DOMAIN j = DOMAIN i
  BY DEF SameInsns
<1>2. \A id \in DOMAIN i : /\ j[id].bad = i[id].bad /\ j[id].tag = i[id].tag
                           /\ j[id].killed = i[id].killed
  BY DEF SameInsns
<1>3. Ring(i, r) /\ Recovery(i, r) /\ Owned(i, r, home) /\ Resumable(i, r, home)
  BY DEF Control
<1>4. Ring(j, r)
  <2>1. \A k \in 1 .. Len(r.queue) : r.queue[k] \in DOMAIN i
    <3>1. \A S : \A q \in Seq(S) : \A k \in 1 .. Len(q) : q[k] \in S
      OBVIOUS
    <3> QED
      BY <1>3, <3>1 DEF Ring
  <2> QED
    BY <1>1, <1>2, <1>3, <2>1, SMTT(40) DEF Ring
<1>5. Recovery(j, r)
  BY <1>3 DEF Recovery
<1>6. Owned(j, r, home)
  <2> SUFFICES ASSUME NEW id \in Ids, home[id] # Nowhere
      PROVE  /\ id \in DOMAIN j
             /\ \/ Expected(j, r, id)
                \/ Lingers(j, r, id) /\ home[id] # AtLdq
                \/ j[id].killed /\ home[id][1] = "dCache"
    BY DEF Owned
  <2>1. /\ id \in DOMAIN i
        /\ \/ Expected(i, r, id)
           \/ Lingers(i, r, id) /\ home[id] # AtLdq
           \/ i[id].killed /\ home[id][1] = "dCache"
    BY <1>3 DEF Owned
  <2>2. j[id].tag = i[id].tag /\ j[id].killed = i[id].killed
    BY <1>2, <2>1
  <2> QED
    BY <1>1, <2>1, <2>2 DEF Expected, Lingers
<1>7. Resumable(j, r, home)
  <2>1. ASSUME r.state # "Idle"
        PROVE  TargetOf(i, r) = i[r.queue[Distance(r, r.rollBackTag) + 1]]
               /\ r.queue[Distance(r, r.rollBackTag) + 1] \in DOMAIN i
    <3>1. r.rollBackTag \in 0 .. (cfg.robSize - 1) /\ InRob(r, r.rollBackTag)
      BY <1>3, <2>1 DEF Recovery
    <3> QED
      BY <1>3, <3>1, TargetIsInsn DEF TargetOf
  <2> QED
    BY <1>1, <1>2, <1>3, <2>1 DEF Resumable, Owned, TargetOf
<1> QED
  BY <1>4, <1>5, <1>6, <1>7 DEF Control

-----------------------------------------------------------------------------
(* Execute: units and memory.                                              *)

\* What the buffer has is of the path that is kept.
LEMMA BufferAlive ==
  ASSUME NEW insn, NEW r, Ring(insn, r), NEW id \in ToSet(r.queue)
  PROVE  ~insn[id].killed
<1>1. PICK j \in DOMAIN r.queue : id = r.queue[j]
  BY DEF ToSet
<1>2. DOMAIN r.queue = 1 .. Len(r.queue)
  BY DEF Ring
<1> QED
  BY <1>1, <1>2 DEF Ring

\* What is somewhere, and in the buffer, is expected; so is what the load queue holds.
LEMMA OwnedExpected ==
  ASSUME NEW insn, NEW r, NEW home, Control(insn, r, home), NEW id \in Ids, home[id] # Nowhere,
         id \in ToSet(r.queue) \/ home[id] = AtLdq
  PROVE  Expected(insn, r, id)
<1>1. Ring(insn, r) /\ Owned(insn, r, home)
  BY DEF Control
<1>2. \/ Expected(insn, r, id)
      \/ Lingers(insn, r, id) /\ home[id] # AtLdq
      \/ insn[id].killed /\ home[id][1] = "dCache"
  BY <1>1 DEF Owned
<1>3. id \in ToSet(r.queue) => ~insn[id].killed
  BY <1>1, BufferAlive
<1>4. AtLdq[1] = "ldq"
  BY PartOfPlace
<1> QED
  BY <1>2, <1>3, <1>4 DEF Lingers

LEMMA PipeStays ==
  ASSUME NEW m, NEW n, NEW gaps, NEW ports, NEW pipes, NEW caches, NEW wbs, NEW home,
         Placed(m, gaps, ports, pipes, caches, wbs, home), NEW u \in DOMAIN cfg.unit,
         n.sched = m.sched, n.port = m.port, n.wb = m.wb, n.ldq = m.ldq, SameCaches(m, n),
         \A v \in DOMAIN cfg.unit : v # u => n.unit[v].pipe = m.unit[v].pipe,
         NEW U, \A v \in DOMAIN cfg.unit : v # u => (v \in U <=> v \in pipes),
         PipeAt(n, u, U, home)
  PROVE  Placed(n, gaps, ports, U, caches, wbs, home)
<1>1. DOMAIN home = Ids
  BY DEF Placed
<1>2. \A s \in DOMAIN cfg.sched : SchedAt(n, s, gaps, home)
  BY DEF Placed, SchedAt
<1>3. \A p \in 1 .. cfg.ports : PortAt(n, p, ports, home)
  BY DEF Placed, PortAt
<1>4. \A v \in DOMAIN cfg.unit : PipeAt(n, v, U, home)
  <2>1. ASSUME NEW v \in DOMAIN cfg.unit, v # u
        PROVE  PipeAt(n, v, U, home)
    <3>1. PipeAt(m, v, pipes, home) /\ n.unit[v].pipe = m.unit[v].pipe /\ (v \in U <=> v \in pipes)
      BY <2>1 DEF Placed
    <3> QED
      BY <3>1, ZenonT(40) DEF PipeAt, LatchHolds
  <2> QED
    BY <2>1
<1>5. \A w \in DOMAIN cfg.wb : WbAt(n, w, wbs, home)
  BY DEF Placed, WbAt
<1>6. \A v \in DOMAIN cfg.unit : CacheAt(n, v, caches, home)
  BY DEF Placed, MemoryHolds, CacheAt, SameCaches
<1>7. LdqAt(n, home)
  BY DEF Placed, MemoryHolds, LdqAt
<1> QED
  BY <1>1, <1>2, <1>3, <1>4, <1>5, <1>6, <1>7 DEF Placed, MemoryHolds

LEMMA ToWbPortPlaced ==
  ASSUME Wiring(cfg), NEW m, NEW done, Sound(m, done), NEW u \in DOMAIN cfg.unit,
         FreeWbPorts(m, u) # {}, NEW id \in Ids,
         NEW gaps, NEW ports, NEW pipes, NEW caches, NEW wbs, NEW home,
         Placed(m, gaps, ports, pipes, caches, wbs, home), home[id] = Nowhere
  PROVE  \E w \in DOMAIN cfg.wb :
           Placed(ToWbPort(m, u, id), gaps, ports, pipes, caches, wbs, Moved(home, id, AtWb(w)))
<1> DEFINE w == cfg.unit[u].wb[Min(FreeWbPorts(m, u))]
           b == TB!Set(m.wb[w], id)
           n == ToWbPort(m, u, id)
<1>1. w \in DOMAIN cfg.wb
  <2>1. FreeWbPorts(m, u) \subseteq DOMAIN cfg.unit[u].wb
    BY DEF FreeWbPorts
  <2>2. /\ DOMAIN cfg.unit[u].wb \subseteq Nat
        /\ \A k \in DOMAIN cfg.unit[u].wb : cfg.unit[u].wb[k] \in DOMAIN cfg.wb
    BY UnitFacts
  <2>3. FreeWbPorts(m, u) \subseteq Nat
    BY <2>1, <2>2
  <2>4. Min(FreeWbPorts(m, u)) \in FreeWbPorts(m, u)
    BY <2>3, MinOfNats
  <2> QED
    BY <2>1, <2>2, <2>4
<1>2. n = [m EXCEPT !.wb[w] = TB!Set(@, id)]
  BY DEF ToWbPort
<1> HIDE DEF w
<1>3. Parts(m) /\ m.wb \in [DOMAIN cfg.wb -> Latch(Complete(m.insn))]
  BY SoundParts DEF Sound
<1>4. n = [m EXCEPT !.wb[w] = b]
  BY <1>2, <1>3 DEF Parts
<1>5. m.wb[w] \in Latch(Complete(m.insn))
  BY <1>1, <1>3
<1> HIDE DEF b, n
<1>6. /\ n.sched = m.sched /\ n.port = m.port /\ n.unit = m.unit /\ n.ldq = m.ldq
      /\ n.wb = [m.wb EXCEPT ![w] = b]
  BY <1>3, <1>4 DEF Parts
<1>7. SamePipes(m, n) /\ SameCaches(m, n)
  BY <1>6 DEF SamePipes, SameCaches
<1>8. /\ n.wb[w] = TB!Set(m.wb[w], id)
      /\ \A v \in DOMAIN cfg.wb : v # w => n.wb[v] = m.wb[v]
  BY <1>1, <1>3, <1>6 DEF b
<1>9. Placed(n, gaps, ports, pipes, caches, wbs, Moved(home, id, AtWb(w)))
  BY <1>1, <1>5, <1>6, <1>7, <1>8, PutWb
<1> QED
  BY <1>1, <1>9 DEF n

\* Unit u is evaluated: nothing of the other units changes.
OnlyUnit(m, n, u) ==
  n.insn = m.insn /\ \A v \in DOMAIN cfg.unit : v # u => n.unit[v].pipe = m.unit[v].pipe

LEMMA ComputePlaced ==
  ASSUME Wiring(cfg), MaxInsns \in Nat, NEW m, NEW done, Sound(m, done),
         NEW u \in DOMAIN cfg.unit, ~IsMemoryUnit(u),
         NEW ports, NEW pipes, u \in pipes, NEW caches, NEW home,
         Placed(m, {}, ports, pipes, caches, {}, home)
  PROVE  /\ OnlyUnit(m, Compute(m, u), u)
         /\ \E h : /\ Placed(Compute(m, u), {}, ports, pipes \ {u}, caches \ {u}, {}, h)
                   /\ Follows(iew.insn, rob, h, home)
<1> DEFINE out == TB!OutPort(m.unit[u].pipe, cfg.unit[u].latency)
           U == pipes \ {u}
           D == caches \ {u}
           n == Compute(m, u)
<1>1. m.unit[u].pipe \in Latch(Complete(m.insn))
  BY UnitFields DEF UnitState
<1>2. out = <<>> \/ out[1] \in Complete(m.insn)
  BY <1>1, LatchOut
<1>3. out = m.unit[u].pipe.out
  BY UnitFacts DEF TB!OutPort
<1>4. Parts(m) /\ DOMAIN m.unit = DOMAIN cfg.unit /\ m.unit[u] \in UnitState(Complete(m.insn))
  BY SoundParts, UnitFields DEF Sound
<1>5. \A h : Placed(n, {}, ports, U, caches, {}, h) => Placed(n, {}, ports, U, D, {}, h)
  <2>1. D \in SUBSET caches /\ \A S : S \in SUBSET S
    OBVIOUS
  <2> HIDE DEF U, D, n
  <2> QED
    BY <2>1, PlacedLess
<1>6. DOMAIN home = Ids /\ U \in SUBSET pipes
  BY DEF Placed
<1>7. CASE out = <<>>
  <2>1. n = m
    BY <1>7 DEF Compute
  <2>2. OnlyUnit(m, n, u)
    BY <2>1 DEF OnlyUnit
  <2>3. Placed(n, {}, ports, U, caches, {}, home)
    <3>1. \A S : S \in SUBSET S
      OBVIOUS
    <3> HIDE DEF U, n
    <3> QED
      BY <1>6, <2>1, <3>1, PlacedLess
  <2> HIDE DEF n, U, D
  <2> QED
    BY <1>5, <2>2, <2>3, FollowsSelf DEF n, U, D
<1>8. CASE out # <<>> /\ FreeWbPorts(m, u) = {}
  <2> DEFINE b == TB!Stall(m.unit[u].pipe)
             x == [m.unit[u] EXCEPT !.pipe = b]
  <2>1. n = [m EXCEPT !.unit[u].pipe = TB!Stall(@)]
    BY <1>8 DEF Compute
  <2>2. n = [m EXCEPT !.unit[u] = x]
    BY <1>4, <2>1 DEF Parts
  <2>3. x.pipe = b /\ x.dCache = m.unit[u].dCache
    BY <1>4 DEF UnitState
  <2> HIDE DEF x, n
  <2>4. /\ n.sched = m.sched /\ n.port = m.port /\ n.wb = m.wb /\ n.ldq = m.ldq
        /\ n.insn = m.insn /\ n.unit = [m.unit EXCEPT ![u] = x]
    BY <1>4, <2>2 DEF Parts
  <2>5. /\ \A v \in DOMAIN cfg.unit : v # u => n.unit[v].pipe = m.unit[v].pipe
        /\ n.unit[u].pipe = b /\ SameCaches(m, n)
    BY <1>4, <2>3, <2>4 DEF SameCaches
  <2>6. PipeAt(n, u, U, home)
    <3>1. PipeAt(m, u, pipes, home)
      BY DEF Placed
    <3>2. /\ b.in = m.unit[u].pipe.in /\ b.out = m.unit[u].pipe.out /\ b.queue = m.unit[u].pipe.queue
          /\ b.flush = m.unit[u].pipe.flush /\ b.stall = TRUE
      BY <1>1 DEF Latch, TB!Stall
    <3> HIDE DEF b
    <3>3. LatchHolds(m.unit[u].pipe, TRUE, TRUE, InsnName, home, AtPipe(u)) /\ ~m.unit[u].pipe.flush
      BY <3>1 DEF PipeAt, LatchHolds
    <3>4. LatchHolds(b, TRUE, TRUE, InsnName, home, AtPipe(u))
      BY <3>2, <3>3, ZenonT(40) DEF LatchHolds
    <3>5. LatchHolds(b, TRUE, u \in U \/ b.stall, InsnName, home, AtPipe(u))
      BY <3>4 DEF LatchHolds
    <3>6. ~b.flush /\ u \notin U
      BY <3>2, <3>3
    <3> HIDE DEF U
    <3> QED
      BY <2>5, <3>5, <3>6 DEF PipeAt
  <2>7. \A v \in DOMAIN cfg.unit : v # u => (v \in U <=> v \in pipes)
    OBVIOUS
  <2>8. Placed(n, {}, ports, U, caches, {}, home)
    <3> HIDE DEF U
    <3> QED
      BY <2>4, <2>5, <2>6, <2>7, PipeStays
  <2>9. OnlyUnit(m, n, u)
    BY <2>4, <2>5 DEF OnlyUnit
  <2> HIDE DEF U, D
  <2> QED
    BY <1>5, <2>8, <2>9, FollowsSelf DEF n, U, D
<1>9. CASE out # <<>> /\ FreeWbPorts(m, u) # {}
  <2> DEFINE id == out[1]
             k == ToWbPort(m, u, id)
             g == Moved(home, id, Nowhere)
  <2>1. n = Taking(k, u, FALSE)
    BY <1>9 DEF Compute, Taking
  <2>2. id \in Complete(m.insn) /\ id \in Ids
    <3>1. id \in Complete(m.insn)
      BY <1>2, <1>9
    <3>2. DOMAIN m.insn \subseteq Ids
      BY InsnIds
    <3> QED
      BY <3>1, <3>2 DEF Complete
  <2>3. home[id] = AtPipe(u) /\ Placed(m, {}, ports, U, caches, {}, g)
    <3>1. m.unit[u].pipe.out # <<>> /\ m.unit[u].pipe.out[1] = id
      BY <1>3, <1>9
    <3>2. m.unit[u].pipe.out[1] \in Ids
      BY <2>2, <3>1
    <3>3. LET i == m.unit[u].pipe.out[1]
          IN  /\ home[i] = AtPipe(u)
              /\ Placed(m, {}, ports, pipes \ {u}, caches, {}, Moved(home, i, Nowhere))
      BY <3>1, <3>2, TakePipe
    <3> HIDE DEF id, U
    <3> QED
      BY <3>1, <3>3 DEF U
  <2> HIDE DEF id, n
  <2>4. g[id] = Nowhere
    BY <1>6, <2>2, NowhereFrom
  <2> HIDE DEF g, U
  <2>5. PICK w \in DOMAIN cfg.wb : Placed(k, {}, ports, U, caches, {}, Moved(g, id, AtWb(w)))
    BY <1>9, <2>2, <2>3, <2>4, ToWbPortPlaced
  <2>6. Sound(k, done) /\ k.insn = m.insn /\ k.unit = m.unit
    BY <1>9, <2>2, ToWbPortSound
  <2> HIDE DEF k
  <2>7. Placed(n, {}, ports, U, caches, {}, Moved(g, id, AtWb(w)))
    BY <2>1, <2>5, <2>6, TakingPlaced
  <2>8. n.insn = m.insn
    BY <2>1, <2>6, TakingSound
  <2>9. \A v \in DOMAIN cfg.unit : v # u => n.unit[v].pipe = m.unit[v].pipe
    <3> DEFINE y == [k.unit[u] EXCEPT !.taken = FALSE]
    <3>1. Parts(k)
      BY <2>6, SoundParts
    <3>2. n = [k EXCEPT !.unit[u] = y]
      BY <2>1, <3>1 DEF Parts, Taking
    <3> HIDE DEF y
    <3>3. n.unit = [k.unit EXCEPT ![u] = y]
      BY <3>1, <3>2 DEF Parts
    <3> QED
      BY <1>4, <2>6, <3>3
  <2>10. Follows(iew.insn, rob, Moved(g, id, AtWb(w)), home)
    <3>1. home[id] # Nowhere /\ home[id][1] # "dCache" /\ AtWb(w)[1] \notin {"dCache", "ldq"}
      BY <2>3, PlacesDiffer, PartOfPlace
    <3> QED
      BY <1>6, <2>2, <3>1, FollowsMoved DEF g
  <2>11. OnlyUnit(m, n, u)
    BY <2>8, <2>9 DEF OnlyUnit
  <2> HIDE DEF D
  <2> QED
    BY <1>5, <2>7, <2>10, <2>11 DEF n, U, D
<1> QED
  BY <1>7, <1>8, <1>9

\* What comes out of the pipe of a memory unit, unless it is a load, is nowhere.
StoreGone(m, u, h) ==
  LET out == TB!OutPort(m.unit[u].pipe, cfg.unit[u].latency)
  IN  out # <<>> /\ iew.insn[out[1]].fu # "LDU" => h[out[1]] = Nowhere

\* A store that shows at the output of the pipe is on no path any more.
LEMMA StoreLeft ==
  ASSUME NEW m, NEW u, NEW h, NEW x, StoreGone(m, u, h),
         TB!OutPort(m.unit[u].pipe, cfg.unit[u].latency) = <<x>>, iew.insn[x].fu # "LDU"
  PROVE  h[x] = Nowhere
<1>1. <<x>> # <<>> /\ <<x>>[1] = x
  OBVIOUS
<1> QED
  BY <1>1, Zenon DEF StoreGone

\* A load leaves the pipe for the load queue, the rest for good.
LEMMA AddrGenPlaced ==
  ASSUME Wiring(cfg), MaxInsns \in Nat, NEW m, NEW done, Sound(m, done),
         NEW u \in DOMAIN cfg.unit, NEW ports, NEW pipes, u \in pipes, NEW caches, NEW home,
         Placed(m, {}, ports, pipes, caches, {}, home), Control(iew.insn, rob, home)
  PROVE  /\ OnlyUnit(m, AddrGen(m, u), u)
         /\ \E h : /\ Placed(AddrGen(m, u), {}, ports, pipes \ {u}, caches, {}, h)
                   /\ Follows(iew.insn, rob, h, home) /\ StoreGone(m, u, h)
<1> DEFINE out == TB!OutPort(m.unit[u].pipe, cfg.unit[u].latency)
           waits == out # <<>> /\ iew.insn[out[1]].fu = "LDU" /\ InBuffer(out[1])
           v == m.unit[u].taken /\ out = <<>>
           l == IF waits THEN Append(m.ldq, out[1]) ELSE m.ldq
           k == Taking(m, u, v)
           n == AddrGen(m, u)
           U == pipes \ {u}
<1>1. m.unit[u].pipe \in Latch(Complete(m.insn))
  BY UnitFields DEF UnitState
<1>2. out = <<>> \/ out[1] \in Complete(m.insn)
  BY <1>1, LatchOut
<1>3. out = m.unit[u].pipe.out
  BY UnitFacts DEF TB!OutPort
<1>4. v \in BOOLEAN
  OBVIOUS
<1>5. Parts(m)
  BY SoundParts
<1>6. n = [m EXCEPT !.unit[u].taken = v, !.ldq = l]
  BY <1>5 DEF Parts, AddrGen
<1> HIDE DEF v, l
<1>7. [m EXCEPT !.unit[u].taken = v, !.ldq = l] = Queued(k, l)
  BY <1>5 DEF Parts, Queued, Taking
<1>8. Sound(k, done) /\ k.insn = m.insn
  BY <1>4, TakingSound
<1>9. /\ Placed(k, {}, ports, pipes, caches, {}, home)
      /\ k.sched = m.sched /\ k.port = m.port /\ k.wb = m.wb /\ k.ldq = m.ldq
  BY <1>4, TakingPlaced
<1>10. \A w \in DOMAIN cfg.unit : k.unit[w].pipe = m.unit[w].pipe
  <2> DEFINE y == [m.unit[u] EXCEPT !.taken = v]
  <2>1. k = [m EXCEPT !.unit[u] = y]
    BY <1>5 DEF Parts, Taking
  <2>2. m.unit[u] \in UnitState(Complete(m.insn)) /\ DOMAIN m.unit = DOMAIN cfg.unit
    BY UnitFields DEF Sound
  <2>3. y.pipe = m.unit[u].pipe
    BY <2>2 DEF UnitState
  <2> HIDE DEF y
  <2>4. k.unit = [m.unit EXCEPT ![u] = y]
    BY <1>5, <2>1 DEF Parts
  <2> QED
    BY <2>2, <2>3, <2>4
<1> HIDE DEF k
<1>11. /\ n.sched = k.sched /\ n.port = k.port /\ n.wb = k.wb /\ n.unit = k.unit
       /\ n.ldq = l /\ n.insn = k.insn
  <2>1. Parts(k)
    BY <1>8, SoundParts
  <2> HIDE DEF n
  <2> QED
    BY <1>6, <1>7, <2>1 DEF Parts, Queued
<1> HIDE DEF n
<1>12. SamePipes(k, n) /\ SameCaches(k, n)
  BY <1>11 DEF SamePipes, SameCaches
<1>13. OnlyUnit(m, n, u)
  BY <1>8, <1>10, <1>11 DEF OnlyUnit
<1>14. DOMAIN home = Ids /\ U \in SUBSET pipes
  BY DEF Placed
<1>15. CASE out = <<>>
  <2>1. l = m.ldq
    BY <1>15 DEF l
  <2>2. Placed(n, {}, ports, pipes, caches, {}, home)
    BY <1>9, <1>11, <1>12, <2>1, PlacedSame
  <2>3. Placed(n, {}, ports, U, caches, {}, home)
    <3>1. \A S : S \in SUBSET S
      OBVIOUS
    <3> HIDE DEF U
    <3> QED
      BY <1>14, <2>2, <3>1, PlacedLess
  <2>4. Follows(iew.insn, rob, home, home)
    BY FollowsSelf
  <2>5. StoreGone(m, u, home)
    BY <1>15 DEF StoreGone
  <2> HIDE DEF U
  <2> QED
    BY <1>13, <2>3, <2>4, <2>5 DEF n, U
<1>16. CASE out # <<>>
  <2> DEFINE id == out[1]
             g == Moved(home, id, Nowhere)
  <2>1. id \in Complete(m.insn) /\ id \in Ids
    <3>1. id \in Complete(m.insn)
      BY <1>2, <1>16
    <3>2. DOMAIN m.insn \subseteq Ids
      BY InsnIds
    <3> QED
      BY <3>1, <3>2 DEF Complete
  <2>2. home[id] = AtPipe(u) /\ Placed(k, {}, ports, U, caches, {}, g)
    <3>1. k.unit[u].pipe.out # <<>> /\ k.unit[u].pipe.out[1] = id
      BY <1>3, <1>10, <1>16
    <3>2. k.unit[u].pipe.out[1] \in Ids
      BY <2>1, <3>1
    <3>3. LET i == k.unit[u].pipe.out[1]
          IN  /\ home[i] = AtPipe(u)
              /\ Placed(k, {}, ports, pipes \ {u}, caches, {}, Moved(home, i, Nowhere))
      BY <1>9, <3>1, <3>2, TakePipe
    <3> HIDE DEF id, U
    <3> QED
      BY <3>1, <3>3 DEF U
  <2>3. g[id] = Nowhere /\ Follows(iew.insn, rob, g, home)
    <3> HIDE DEF id
    <3> QED
      BY <1>14, <2>1, NowhereFrom, FollowsLeft
  <2>4. CASE waits
    <3>1. l = Append(k.ldq, id) /\ iew.insn[id].fu = "LDU" /\ InBuffer(id)
      BY <1>9, <2>4 DEF l
    <3>2. k.ldq \in Seq(Complete(m.insn))
      BY <1>9 DEF Sound
    <3> HIDE DEF id, g, U, out
    <3>3. Placed(n, {}, ports, U, caches, {}, Moved(g, id, AtLdq))
      BY <1>11, <1>12, <2>1, <2>2, <2>3, <3>1, <3>2, PutLdq
    <3>4. Follows(iew.insn, rob, Moved(g, id, AtLdq), home)
      <4>1. home[id] # Nowhere
        BY <2>2, PlacesDiffer
      <4>2. Expected(iew.insn, rob, id)
        BY <2>1, <3>1, <4>1, OwnedExpected DEF InBuffer
      <4> QED
        BY <1>14, <2>1, <4>1, <4>2, FollowsMoved DEF g
    <3>5. StoreGone(m, u, Moved(g, id, AtLdq))
      BY <3>1 DEF StoreGone, out, id
    <3> QED
      BY <1>13, <3>3, <3>4, <3>5 DEF n, U
  <2>5. CASE ~waits
    <3>1. l = k.ldq
      BY <1>9, <2>5 DEF l
    <3> HIDE DEF g, U, id
    <3>2. Placed(n, {}, ports, U, caches, {}, g)
      BY <1>11, <1>12, <2>2, <3>1, PlacedSame
    <3>3. StoreGone(m, u, g)
      BY <2>3 DEF StoreGone, id
    <3> QED
      BY <1>13, <2>3, <3>2, <3>3 DEF n, U
  <2> QED
    BY <2>4, <2>5
<1> QED
  BY <1>15, <1>16

\* The first of the load queue is sent to the memory.
LEMMA SendLoadReqPlaced ==
  ASSUME Wiring(cfg), MaxInsns \in Nat, NEW m, NEW done, Sound(m, done),
         NEW u \in DOMAIN cfg.unit, NEW ports, NEW pipes, NEW caches, NEW home,
         Placed(m, {}, ports, pipes, caches, {}, home), Control(iew.insn, rob, home)
  PROVE  /\ SamePipes(m, SendLoadReq(m, u)) /\ SendLoadReq(m, u).insn = m.insn
         /\ \E h : /\ Placed(SendLoadReq(m, u), {}, ports, pipes, caches, {}, h)
                   /\ Follows(iew.insn, rob, h, home)
<1> DEFINE n == SendLoadReq(m, u)
<1>1. CASE m.ldq = <<>>
  <2>1. n = m
    BY <1>1 DEF SendLoadReq
  <2> HIDE DEF n
  <2> QED
    BY <2>1, FollowsSelf DEF n, SamePipes
<1>2. CASE m.ldq # <<>>
  <2> DEFINE id == Head(m.ldq)
             b == TB!Set(m.unit[u].dCache, id)
             l == Tail(m.ldq)
             k == Queued(m, l)
             g == Moved(home, id, Nowhere)
             x == [m.unit[u] EXCEPT !.dCache = b]
  <2>1. m.ldq \in Seq(Complete(m.insn))
    BY DEF Sound
  <2>2. l \in Seq(Complete(m.insn)) /\ id \in Complete(m.insn)
    <3> DEFINE C == Complete(m.insn)
    <3> HIDE DEF C
    <3>1. \A q \in Seq(C) : q # <<>> => Head(q) \in C /\ Tail(q) \in Seq(C)
      OBVIOUS
    <3> QED
      BY <1>2, <2>1, <3>1 DEF C
  <2>3. m.unit[u].dCache \in Latch(Complete(m.insn)) /\ m.unit[u] \in UnitState(Complete(m.insn))
        /\ DOMAIN m.unit = DOMAIN cfg.unit
    BY UnitFields DEF UnitState, Sound
  <2>4. Parts(m) /\ DOMAIN home = Ids
    BY SoundParts DEF Placed
  <2>5. n = [m EXCEPT !.unit[u].dCache = b, !.ldq = l]
    BY <1>2, <2>4 DEF Parts, SendLoadReq
  <2> HIDE DEF b, l
  <2>6. [m EXCEPT !.unit[u].dCache = b, !.ldq = l] = [m EXCEPT !.unit[u] = x, !.ldq = l]
    BY <2>3, <2>4 DEF Parts
  <2>7. x.pipe = m.unit[u].pipe /\ x.dCache = b
    BY <2>3 DEF UnitState
  <2> HIDE DEF n, x, id
  <2>8. /\ n.sched = m.sched /\ n.port = m.port /\ n.wb = m.wb /\ n.ldq = l
        /\ n.insn = m.insn /\ n.unit = [m.unit EXCEPT ![u] = x]
    BY <2>4, <2>5, <2>6 DEF Parts
  <2>9. /\ k.sched = m.sched /\ k.port = m.port /\ k.wb = m.wb /\ k.unit = m.unit /\ k.ldq = l
    BY <2>4 DEF Parts, Queued
  <2>10. SamePipes(m, k) /\ SameCaches(m, k)
    BY <2>9 DEF SamePipes, SameCaches
  <2> HIDE DEF k
  <2>11. home[id] = AtLdq /\ id \in Ids /\ Placed(k, {}, ports, pipes, caches, {}, g)
    BY <1>2, <2>1, <2>9, <2>10, TakeLdq DEF id, l, IsAt
  <2>12. g[id] = Nowhere
    BY <2>4, <2>11, NowhereFrom
  <2> HIDE DEF g
  <2>13. /\ SamePipes(m, n) /\ SamePipes(k, n)
         /\ n.unit[u].dCache = TB!Set(k.unit[u].dCache, id)
         /\ k.unit[u].dCache \in Latch(Complete(m.insn))
         /\ \A v \in DOMAIN cfg.unit : v # u => n.unit[v].dCache = k.unit[v].dCache
    BY <2>3, <2>7, <2>8, <2>9 DEF SamePipes, b
  <2>14. Placed(n, {}, ports, pipes, caches, {}, Moved(g, id, AtCache(u)))
    BY <2>8, <2>9, <2>11, <2>12, <2>13, PutCache
  <2>15. Follows(iew.insn, rob, Moved(g, id, AtCache(u)), home)
    <3>1. home[id] # Nowhere
      BY <2>11, PlacesDiffer
    <3>2. Expected(iew.insn, rob, id)
      BY <2>11, <3>1, OwnedExpected
    <3> QED
      BY <2>4, <2>11, <3>1, <3>2, FollowsMoved DEF g
  <2> QED
    BY <2>8, <2>13, <2>14, <2>15 DEF n
<1> QED
  BY <1>1, <1>2

\* What the memory answers goes to a write-back port while it is expected.
LEMMA ReceiveResponsePlaced ==
  ASSUME Wiring(cfg), MaxInsns \in Nat, NEW m, NEW done, Sound(m, done),
         NEW u \in DOMAIN cfg.unit, IsMemoryUnit(u), NEW ports, NEW pipes, NEW caches,
         u \in caches, NEW home,
         Placed(m, {}, ports, pipes, caches, {}, home), Control(iew.insn, rob, home)
  PROVE  /\ SamePipes(m, ReceiveResponse(m, u)) /\ ReceiveResponse(m, u).insn = m.insn
         /\ \E h : /\ Placed(ReceiveResponse(m, u), {}, ports, pipes, caches \ {u}, {}, h)
                   /\ Follows(iew.insn, rob, h, home)
<1> DEFINE out == TB!OutPort(m.unit[u].dCache, cfg.dCacheLatency)
           n == ReceiveResponse(m, u)
           D == caches \ {u}
<1>1. m.unit[u].dCache \in Latch(Complete(m.insn))
  BY UnitFields DEF UnitState
<1>2. out = <<>> \/ out[1] \in Complete(m.insn)
  BY <1>1, LatchOut
<1>3. out = m.unit[u].dCache.out
  BY WiringFacts DEF TB!OutPort
<1>4. DOMAIN home = Ids /\ D \in SUBSET caches
  BY DEF Placed
<1>5. Placed(m, {}, ports, pipes, D, {}, home)
  <2>1. \A S : S \in SUBSET S
    OBVIOUS
  <2> HIDE DEF D
  <2> QED
    BY <1>4, <2>1, PlacedLess
<1>6. CASE out = <<>> \/ ~InBuffer(out[1])
  <2>1. n = m
    BY <1>6 DEF ReceiveResponse
  <2> HIDE DEF n, D
  <2> QED
    BY <1>5, <2>1, FollowsSelf DEF SamePipes, n, D
<1>7. CASE out # <<>> /\ InBuffer(out[1]) /\ FreeWbPorts(m, u) = {}
  <2>1. n = Fires(m, TRUE, "UnAllowed WriteBack Failed")
    BY <1>7 DEF ReceiveResponse
  <2>2. /\ n.insn = m.insn /\ n.sched = m.sched /\ n.unit = m.unit /\ n.port = m.port
        /\ n.wb = m.wb /\ n.ldq = m.ldq
    <3>1. \A failed, name :
            LET f == Fires(m, failed, name)
            IN  /\ f.insn = m.insn /\ f.sched = m.sched /\ f.unit = m.unit /\ f.port = m.port
                /\ f.wb = m.wb /\ f.ldq = m.ldq
      BY SoundFires
    <3> HIDE DEF n
    <3> QED
      BY <2>1, <3>1
  <2> HIDE DEF n, D
  <2>3. SamePipes(m, n) /\ SameCaches(m, n)
    BY <2>2 DEF SamePipes, SameCaches
  <2>4. Placed(n, {}, ports, pipes, D, {}, home)
    BY <1>5, <2>2, <2>3, PlacedSame
  <2> QED
    BY <2>2, <2>3, <2>4, FollowsSelf DEF n, D
<1>8. CASE out # <<>> /\ InBuffer(out[1]) /\ FreeWbPorts(m, u) # {}
  <2> DEFINE id == out[1]
             g == Moved(home, id, Nowhere)
  <2>1. n = ToWbPort(m, u, id)
    BY <1>8 DEF ReceiveResponse
  <2>2. id \in Complete(m.insn) /\ id \in Ids
    <3>1. id \in Complete(m.insn)
      BY <1>2, <1>8
    <3>2. DOMAIN m.insn \subseteq Ids
      BY InsnIds
    <3> QED
      BY <3>1, <3>2 DEF Complete
  <2>3. home[id] = AtCache(u) /\ Placed(m, {}, ports, pipes, D, {}, g)
    <3>1. m.unit[u].dCache.out # <<>> /\ m.unit[u].dCache.out[1] = id
      BY <1>3, <1>8
    <3>2. m.unit[u].dCache.out[1] \in Ids
      BY <2>2, <3>1
    <3>3. LET i == m.unit[u].dCache.out[1]
          IN  /\ home[i] = AtCache(u)
              /\ Placed(m, {}, ports, pipes, caches \ {u}, {}, Moved(home, i, Nowhere))
      BY <3>1, <3>2, TakeCache
    <3> HIDE DEF id, D
    <3> QED
      BY <3>1, <3>3 DEF D
  <2>a. id \in ToSet(rob.queue)
    BY <1>8 DEF InBuffer
  <2> HIDE DEF id, n
  <2>4. g[id] = Nowhere
    BY <1>4, <2>2, NowhereFrom
  <2> HIDE DEF g, D
  <2>5. PICK w \in DOMAIN cfg.wb : Placed(n, {}, ports, pipes, D, {}, Moved(g, id, AtWb(w)))
    BY <1>8, <2>1, <2>2, <2>3, <2>4, ToWbPortPlaced
  <2>6. n.insn = m.insn /\ n.unit = m.unit
    BY <1>8, <2>1, <2>2, ToWbPortSound
  <2>7. Follows(iew.insn, rob, Moved(g, id, AtWb(w)), home)
    <3>1. home[id] # Nowhere
      BY <2>3, PlacesDiffer
    <3>2. Expected(iew.insn, rob, id)
      BY <2>2, <2>a, <3>1, OwnedExpected
    <3> QED
      BY <1>4, <2>2, <3>1, <3>2, FollowsMoved DEF g
  <2> QED
    BY <2>5, <2>6, <2>7 DEF n, D, SamePipes
<1> QED
  BY <1>6, <1>7, <1>8

LEMMA EvaluateUnitPlaced ==
  ASSUME Wiring(cfg), MaxInsns \in Nat, NEW m, NEW done, Sound(m, done),
         NEW u \in DOMAIN cfg.unit, NEW ports, NEW pipes, u \in pipes, NEW caches, u \in caches,
         NEW home, Placed(m, {}, ports, pipes, caches, {}, home), Control(iew.insn, rob, home)
  PROVE  /\ OnlyUnit(m, EvaluateUnit(m, u), u) /\ Sound(EvaluateUnit(m, u), done)
         /\ \E h : /\ Placed(EvaluateUnit(m, u), {}, ports, pipes \ {u}, caches \ {u}, {}, h)
                   /\ Follows(iew.insn, rob, h, home)
                   /\ IsMemoryUnit(u) => StoreGone(m, u, h)
<1> DEFINE out == TB!OutPort(m.unit[u].pipe, cfg.unit[u].latency)
           U == pipes \ {u}
           D == caches \ {u}
           n == EvaluateUnit(m, u)
<1>1. CASE ~IsMemoryUnit(u)
  <2>1. n = Compute(m, u)
    BY <1>1 DEF EvaluateUnit
  <2>2. Sound(n, done)
    BY <2>1, ComputeSound
  <2>3. /\ OnlyUnit(m, Compute(m, u), u)
        /\ \E h : Placed(Compute(m, u), {}, ports, U, D, {}, h) /\ Follows(iew.insn, rob, h, home)
    BY <1>1, ComputePlaced
  <2> HIDE DEF n, U, D
  <2> QED
    BY <1>1, <2>1, <2>2, <2>3 DEF n, U, D
<1>2. CASE IsMemoryUnit(u)
  <2> DEFINE a == AddrGen(m, u)
             b == SendLoadReq(a, u)
  <2>1. n = ReceiveResponse(b, u)
    BY <1>2 DEF EvaluateUnit
  <2>2. Sound(a, done)
    BY AddrGenSound
  <2>3. /\ OnlyUnit(m, a, u)
        /\ \E h : /\ Placed(a, {}, ports, U, caches, {}, h) /\ Follows(iew.insn, rob, h, home)
                  /\ StoreGone(m, u, h)
    BY AddrGenPlaced
  <2> HIDE DEF a, n
  <2>4. Sound(b, done)
    BY <2>2, SendLoadReqSound
  <2>5. PICK f : /\ Placed(a, {}, ports, U, caches, {}, f) /\ Follows(iew.insn, rob, f, home)
                 /\ StoreGone(m, u, f)
    BY <2>3
  <2>6. Control(iew.insn, rob, f)
    BY <2>5, ControlFollows
  <2> HIDE DEF U
  <2>7. /\ SamePipes(a, b) /\ b.insn = a.insn
        /\ \E h : Placed(b, {}, ports, U, caches, {}, h) /\ Follows(iew.insn, rob, h, f)
    BY <2>2, <2>5, <2>6, SendLoadReqPlaced
  <2> HIDE DEF b
  <2>8. PICK g : Placed(b, {}, ports, U, caches, {}, g) /\ Follows(iew.insn, rob, g, f)
    BY <2>7
  <2>9. Control(iew.insn, rob, g)
    BY <2>6, <2>8, ControlFollows
  <2>10. /\ SamePipes(b, n) /\ n.insn = b.insn
         /\ \E h : Placed(n, {}, ports, U, D, {}, h) /\ Follows(iew.insn, rob, h, g)
    BY <1>2, <2>1, <2>4, <2>8, <2>9, ReceiveResponsePlaced
  <2> HIDE DEF D
  <2>11. PICK h : Placed(n, {}, ports, U, D, {}, h) /\ Follows(iew.insn, rob, h, g)
    BY <2>10
  <2>12. Follows(iew.insn, rob, h, home) /\ Follows(iew.insn, rob, h, f)
    BY <2>5, <2>8, <2>11, FollowsOn
  <2>13. StoreGone(m, u, h)
    <3> SUFFICES ASSUME out # <<>>, iew.insn[out[1]].fu # "LDU"
                 PROVE  h[out[1]] = Nowhere
      BY DEF StoreGone
    <3>1. f[out[1]] = Nowhere
      BY <2>5 DEF StoreGone
    <3>2. out[1] \in Ids
      <4>1. m.unit[u].pipe \in Latch(Complete(m.insn))
        BY UnitFields DEF UnitState
      <4>2. out[1] \in Complete(m.insn)
        BY <4>1, LatchOut
      <4>3. DOMAIN m.insn \subseteq Ids
        BY InsnIds
      <4> QED
        BY <4>2, <4>3 DEF Complete
    <3> HIDE DEF out
    <3> QED
      BY <2>12, <3>1, <3>2 DEF Follows
  <2>14. Sound(n, done)
    BY <2>1, <2>4, ReceiveResponseSound
  <2>15. OnlyUnit(m, n, u)
    BY <2>3, <2>7, <2>10 DEF OnlyUnit, SamePipes
  <2> QED
    BY <2>11, <2>12, <2>13, <2>14, <2>15 DEF n, U, D
<1> QED
  BY <1>1, <1>2

\* A store whose address is generated is done, and gone.
LEMMA ExecutePlaced ==
  ASSUME Wiring(cfg), MaxInsns \in Nat, NEW done, Sound(iew, done), Execute, NEW home,
         Placed(iew, {}, 1 .. cfg.ports, DOMAIN cfg.unit, DOMAIN cfg.unit, {}, home),
         Control(iew.insn, rob, home)
  PROVE  /\ iew'.insn = iew.insn
         /\ \E h : /\ Placed(iew', {}, 1 .. cfg.ports, {}, {}, {}, h)
                   /\ Follows(iew.insn, rob, h, home)
                   /\ \A u \in DOMAIN cfg.unit : IsMemoryUnit(u) => StoreGone(iew, u, h)
<1> DEFINE n == Len(cfg.unit)
           P == 1 .. cfg.ports
           Out(u) == TB!OutPort(iew.unit[u].pipe, cfg.unit[u].latency)
           Gone(u, g) == IsMemoryUnit(u) => StoreGone(iew, u, g)
           Still(m, k) == \E g : /\ Placed(m, {}, P, (k + 1) .. n, (k + 1) .. n, {}, g)
                                 /\ Follows(iew.insn, rob, g, home)
                                 /\ \A v \in 1 .. k : Gone(v, g)
           Good(m, k) == /\ Sound(m, done) /\ m.insn = iew.insn
                         /\ \A v \in (k + 1) .. n : m.unit[v].pipe = iew.unit[v].pipe
                         /\ Still(m, k)
<1>1. PICK h : /\ iew' = h[n]
               /\ h[0] = iew
               /\ \A k \in 1 .. n : h[k] = EvaluateUnit(h[k - 1], k)
  BY UnitsRun
<1> DEFINE T == {k \in 0 .. n : Good(h[k], k)}
<1>2. n \in Nat /\ DOMAIN cfg.unit = 1 .. n
  BY WiringFacts
<1>3. 0 \in T
  <2>1. 0 + 1 = 1 /\ 1 .. 0 = {}
    OBVIOUS
  <2> HIDE DEF P, Gone, n
  <2>2. Still(iew, 0)
    BY <1>2, <2>1, FollowsSelf DEF P
  <2> HIDE DEF Still
  <2> QED
    BY <1>1, <1>2, <2>1, <2>2
<1>4. ASSUME NEW k \in 1 .. n, k - 1 \in T
      PROVE  k \in T
  <2>1. Good(h[k - 1], k - 1) /\ h[k] = EvaluateUnit(h[k - 1], k) /\ k \in DOMAIN cfg.unit
    BY <1>1, <1>2, <1>4
  <2> DEFINE m == h[k - 1]
             d == EvaluateUnit(m, k)
  <2>a. h[k] = d
    BY <2>1
  <2>2. (k - 1) + 1 = k /\ k \in k .. n /\ (k .. n) \ {k} = (k + 1) .. n /\ (k + 1) .. n \subseteq k .. n
        /\ \A v \in 1 .. k : v = k \/ v \in 1 .. (k - 1)
    BY <1>2
  <2> HIDE DEF m, P, Gone, n
  <2>3. Sound(m, done) /\ m.insn = iew.insn /\ \A v \in k .. n : m.unit[v].pipe = iew.unit[v].pipe
    BY <2>1, <2>2 DEF m
  <2>4. PICK g : /\ Placed(m, {}, P, k .. n, k .. n, {}, g)
                 /\ Follows(iew.insn, rob, g, home) /\ \A v \in 1 .. (k - 1) : Gone(v, g)
    BY <2>1, <2>2 DEF m
  <2>5. Control(iew.insn, rob, g)
    BY <2>4, ControlFollows
  <2>6. /\ OnlyUnit(m, d, k) /\ Sound(d, done)
        /\ \E f : /\ Placed(d, {}, P, (k .. n) \ {k}, (k .. n) \ {k}, {}, f)
                  /\ Follows(iew.insn, rob, f, g)
                  /\ IsMemoryUnit(k) => StoreGone(m, k, f)
    <3> DEFINE K == k .. n
    <3>1. k \in K /\ Placed(m, {}, P, K, K, {}, g)
      BY <2>2, <2>4
    <3> HIDE DEF K
    <3> QED
      BY <2>1, <2>3, <2>5, <3>1, EvaluateUnitPlaced DEF K
  <2> HIDE DEF d
  <2>7. PICK f : /\ Placed(d, {}, P, (k + 1) .. n, (k + 1) .. n, {}, f)
                 /\ Follows(iew.insn, rob, f, g)
                 /\ IsMemoryUnit(k) => StoreGone(m, k, f)
    BY <2>2, <2>6
  <2>b. Gone(k, f)
    BY <2>2, <2>3, <2>7 DEF Gone, StoreGone
  <2>8. Follows(iew.insn, rob, f, home)
    BY <2>4, <2>7, FollowsOn
  <2>9. \A v \in 1 .. k : Gone(v, f)
    <3> SUFFICES ASSUME NEW v \in 1 .. (k - 1), IsMemoryUnit(v), Out(v) # <<>>,
                        iew.insn[Out(v)[1]].fu # "LDU"
                 PROVE  f[Out(v)[1]] = Nowhere
      BY <2>2, <2>b DEF Gone, StoreGone
    <3>1. g[Out(v)[1]] = Nowhere
      BY <2>4 DEF Gone, StoreGone
    <3>2. Out(v)[1] \in Ids
      <4>1. v \in DOMAIN cfg.unit
        BY <1>2, SMTT(40)
      <4>2. iew.unit[v].pipe \in Latch(Complete(iew.insn))
        BY <4>1, UnitFields DEF UnitState
      <4>3. Out(v)[1] \in Complete(iew.insn)
        BY <4>2, LatchOut
      <4>4. DOMAIN iew.insn \subseteq Ids
        BY InsnIds
      <4> QED
        BY <4>3, <4>4 DEF Complete
    <3> HIDE DEF Out
    <3> QED
      BY <2>7, <3>1, <3>2 DEF Follows
  <2>10. d.insn = iew.insn /\ \A v \in (k + 1) .. n : d.unit[v].pipe = iew.unit[v].pipe
    <3>1. \A v \in (k + 1) .. n : v # k /\ v \in DOMAIN cfg.unit
      BY <1>2
    <3> QED
      BY <2>2, <2>3, <2>6, <3>1 DEF OnlyUnit
  <2>11. Good(d, k)
    BY <2>6, <2>7, <2>8, <2>9, <2>10
  <2> HIDE DEF Good
  <2> QED
    BY <2>a, <2>11
<1>5. n \in T
  <2> HIDE DEF T, n
  <2> QED
    BY <1>2, <1>3, <1>4, LastRound
<1>6. Good(iew', n)
  BY <1>1, <1>5
<1>7. (n + 1) .. n = {}
  BY <1>2
<1> HIDE DEF n
<1>8. PICK g : /\ Placed(iew', {}, P, {}, {}, {}, g)
               /\ Follows(iew.insn, rob, g, home)
               /\ \A v \in 1 .. n : Gone(v, g)
  <2> HIDE DEF Gone
  <2> QED
    BY <1>6, <1>7
<1> QED
  BY <1>2, <1>6, <1>8

\* The tag of what the buffer has.
LEMMA TagInRob ==
  ASSUME Wiring(cfg), NEW insn, NEW r, Ring(insn, r), NEW id \in ToSet(r.queue)
  PROVE  /\ InRob(r, insn[id].tag) /\ insn[id].tag \in 0 .. (cfg.robSize - 1)
         /\ id = r.queue[Distance(r, insn[id].tag) + 1]
         /\ id \in DOMAIN insn
<1>1. PICK j \in DOMAIN r.queue : id = r.queue[j]
  BY DEF ToSet
<1>2. /\ DOMAIN r.queue = 1 .. Len(r.queue) /\ Len(r.queue) \in Nat
      /\ r.queue[j] \in DOMAIN insn
  <2>1. \A S : \A q \in Seq(S) : /\ DOMAIN q = 1 .. Len(q) /\ Len(q) \in Nat
                                 /\ \A k \in 1 .. Len(q) : q[k] \in S
    OBVIOUS
  <2> QED
    BY <1>1, <2>1 DEF Ring
<1>3. /\ r.header \in 0 .. (cfg.robSize - 1) /\ cfg.robSize \in Nat \ {0}
      /\ Len(r.queue) <= cfg.robSize /\ j \in 1 .. Len(r.queue)
      /\ insn[id].tag = (r.header + j - 1) % cfg.robSize
  BY <1>1, <1>2, WiringFacts DEF Ring
<1>4. /\ j - 1 \in 0 .. (cfg.robSize - 1) /\ r.header + j - 1 = r.header + (j - 1)
      /\ (j - 1) + 1 = j /\ j - 1 < Len(r.queue)
  BY <1>2, <1>3, SMTT(40)
<1> DEFINE k == j - 1
<1>5. k \in 0 .. (cfg.robSize - 1)
  BY <1>4
<1> HIDE DEF k
<1>6. /\ (r.header + k) % cfg.robSize \in 0 .. (cfg.robSize - 1)
      /\ Distance(r, (r.header + k) % cfg.robSize) = k
  BY <1>3, <1>5, TagAt
<1>7. insn[id].tag = (r.header + k) % cfg.robSize
  BY <1>3, <1>4 DEF k
<1> QED
  BY <1>1, <1>2, <1>4, <1>6, <1>7 DEF InRob, k

LEMMA AguControl ==
  ASSUME Wiring(cfg), NEW r, NEW home, Control(iew.insn, r, home), NEW done,
         r.done \subseteq done, NEW n, n.done = done, n.queue = r.queue, n.header = r.header,
         n.state = r.state, n.rollBackTag = r.rollBackTag, n.toCommit = r.toCommit,
         \A t \in done \ r.done : ~InRob(r, t) \/ \E x \in ToSet(r.queue) :
             iew.insn[x].tag = t /\ home[x] = Nowhere
  PROVE  Control(iew.insn, n, home)
<1>1. /\ Ring(iew.insn, r) /\ Recovery(iew.insn, r) /\ Owned(iew.insn, r, home)
      /\ Resumable(iew.insn, r, home)
  BY DEF Control
<1>2. \A t : Distance(n, t) = Distance(r, t) /\ (InRob(n, t) <=> InRob(r, t))
  BY DEF Distance, InRob
<1>3. Ring(iew.insn, n)
  BY <1>1 DEF Ring
<1>4. Recovery(iew.insn, n)
  BY <1>1, <1>2 DEF Recovery
<1>5. Resumable(iew.insn, n, home)
  BY <1>1, <1>2 DEF Resumable, TargetOf
<1>6. Owned(iew.insn, n, home)
  <2>1. ASSUME NEW id \in Ids, home[id] # Nowhere, Expected(iew.insn, r, id)
        PROVE  Expected(iew.insn, n, id)
    <3>1. id \in ToSet(r.queue) /\ iew.insn[id].tag \notin r.done
      BY <2>1 DEF Expected
    <3>2. InRob(r, iew.insn[id].tag) /\ id = r.queue[Distance(r, iew.insn[id].tag) + 1]
      BY <1>1, <3>1, TagInRob
    <3>3. \A x \in ToSet(r.queue) : x = r.queue[Distance(r, iew.insn[x].tag) + 1]
      BY <1>1, TagInRob
    <3>4. iew.insn[id].tag \notin done
      BY <2>1, <3>1, <3>2, <3>3
    <3> QED
      BY <3>1, <3>4 DEF Expected
  <2> QED
    BY <1>1, <1>2, <2>1 DEF Owned, Lingers
<1> QED
  BY <1>3, <1>4, <1>5, <1>6 DEF Control

LEMMA ExecuteControl ==
  ASSUME Wiring(cfg), MaxInsns \in Nat, Buffer, NEW done, Sound(iew, done), Execute, NEW home,
         Placed(iew, {}, 1 .. cfg.ports, DOMAIN cfg.unit, DOMAIN cfg.unit, {}, home),
         Control(iew.insn, rob, home)
  PROVE  /\ iew'.insn = iew.insn
         /\ \E h : /\ Placed(iew', {}, 1 .. cfg.ports, {}, {}, {}, h)
                   /\ Control(iew.insn, rob', h)
<1> DEFINE agu == {id \in DOMAIN iew.insn : \E u \in DOMAIN cfg.unit :
                     /\ IsMemoryUnit(u)
                     /\ TB!OutPort(iew.unit[u].pipe, cfg.unit[u].latency) = <<id>>}
           d == rob.done \union {iew.insn[id].tag : id \in {x \in agu : iew.insn[x].fu = "STU"}}
<1>1. iew'.insn = iew.insn
  BY ExecutePlaced
<1>2. PICK h : /\ Placed(iew', {}, 1 .. cfg.ports, {}, {}, {}, h)
               /\ Follows(iew.insn, rob, h, home)
               /\ \A u \in DOMAIN cfg.unit : IsMemoryUnit(u) => StoreGone(iew, u, h)
  BY ExecutePlaced
<1>3. rob' = AGUFastDetect(rob, agu)
  BY DEF Execute
<1> HIDE DEF agu
<1>4. rob' = [rob EXCEPT !.stable = rob'.stable, !.done = d]
  BY <1>3 DEF AGUFastDetect, Buffer
<1> HIDE DEF d
<1>5. /\ rob'.done = d /\ rob'.queue = rob.queue /\ rob'.header = rob.header
      /\ rob'.state = rob.state /\ rob'.rollBackTag = rob.rollBackTag
      /\ rob'.toCommit = rob.toCommit
  BY <1>4 DEF Buffer
<1>6. Control(iew.insn, rob, h)
  BY <1>2, ControlFollows
<1>7. ASSUME NEW t \in d \ rob.done
      PROVE  ~InRob(rob, t) \/ \E x \in ToSet(rob.queue) : iew.insn[x].tag = t /\ h[x] = Nowhere
  <2>1. PICK x \in agu : iew.insn[x].fu = "STU" /\ t = iew.insn[x].tag
    BY <1>7 DEF d
  <2>2. PICK u \in DOMAIN cfg.unit :
           IsMemoryUnit(u) /\ TB!OutPort(iew.unit[u].pipe, cfg.unit[u].latency) = <<x>>
    BY <2>1 DEF agu
  <2>3. x \in DOMAIN iew.insn /\ x \in Ids
    BY <2>1, InsnIds DEF agu
  <2>4. h[x] = Nowhere
    <3>1. StoreGone(iew, u, h) /\ iew.insn[x].fu # "LDU"
      BY <1>2, <2>1, <2>2
    <3> QED
      BY <2>2, <3>1, StoreLeft, Zenon
  <2>5. home[x] = AtPipe(u)
    <3>1. iew.unit[u].pipe.out = <<x>>
      BY <2>2, UnitFacts DEF TB!OutPort
    <3>2. PipeAt(iew, u, DOMAIN cfg.unit, home)
      BY DEF Placed
    <3>3. LatchHolds(iew.unit[u].pipe, TRUE, TRUE, InsnName, home, AtPipe(u))
      BY <3>2 DEF PipeAt
    <3> QED
      BY <2>3, <3>1, <3>3, LatchOutAt, ZenonT(40)
  <2>6. home[x] # Nowhere /\ home[x][1] # "dCache"
    BY <2>5, PlacesDiffer, PartOfPlace
  <2>7. Expected(iew.insn, rob, x) \/ Lingers(iew.insn, rob, x)
    BY <2>3, <2>6 DEF Control, Owned
  <2> QED
    BY <2>1, <2>4, <2>7 DEF Expected, Lingers
<1>8. rob.done \subseteq d
  BY DEF d
<1>9. Control(iew.insn, rob', h)
  BY <1>5, <1>6, <1>7, <1>8, AguControl
<1> QED
  BY <1>1, <1>2, <1>9

-----------------------------------------------------------------------------
(* WriteBack: what the buffer expects is done, and may start or end a      *)
(* recovery.                                                               *)

LEMMA RcuWriteBackFields ==
  ASSUME NEW a, LeftByPorts(a), NEW id
  PROVE  LET y == iew.insn[id]
             r == a.rob
             b == RcuWriteBack(a, id)
         IN  /\ b.redirect = IF TakesOver(r, y) /\ Mispredicts(y) THEN id ELSE a.redirect
             /\ ~InRob(r, y.tag) => b.rob = r
             /\ InRob(r, y.tag) =>
                  /\ b.rob.queue = r.queue /\ b.rob.header = r.header
                  /\ b.rob.toCommit = r.toCommit /\ b.rob.done = r.done \union {y.tag}
                  /\ b.rob.state = IF TakesOver(r, y) THEN "Undo"
                                   ELSE IF Resumes(r, y) THEN "Idle" ELSE r.state
                  /\ b.rob.rollBackTag = IF TakesOver(r, y) THEN y.tag ELSE r.rollBackTag
<1> DEFINE y == iew.insn[id]
           r == a.rob
           st == IF TakesOver(r, y) THEN "Undo" ELSE IF Resumes(r, y) THEN "Idle" ELSE r.state
           tag == IF TakesOver(r, y) THEN y.tag ELSE r.rollBackTag
           d == r.done \union {y.tag}
           s == r.stable \union {y.tag}
           p == [r EXCEPT !.done = d, !.stable = s, !.state = st, !.rollBackTag = tag]
           q == IF ~InRob(r, y.tag) THEN r ELSE p
           x == IF TakesOver(r, y) /\ Mispredicts(y) THEN id ELSE a.redirect
<1>1. r = [queue |-> r.queue, header |-> r.header, done |-> r.done, stable |-> r.stable,
           state |-> r.state, rollBackTag |-> r.rollBackTag, toCommit |-> r.toCommit]
  BY DEF LeftByPorts
<1>2. RcuWriteBack(a, id) = [rob |-> q, redirect |-> x]
  <2>1. [r EXCEPT !.done = @ \union {y.tag}, !.stable = @ \union {y.tag},
                  !.state = IF TakesOver(r, y) THEN "Undo"
                            ELSE IF Resumes(r, y) THEN "Idle" ELSE @,
                  !.rollBackTag = IF TakesOver(r, y) THEN y.tag ELSE @] = p
    BY <1>1
  <2> QED
    BY <2>1 DEF RcuWriteBack
<1> HIDE DEF st, tag, d, s, x
<1>3. /\ p.queue = r.queue /\ p.header = r.header /\ p.toCommit = r.toCommit
      /\ p.done = d /\ p.state = st /\ p.rollBackTag = tag
  BY <1>1
<1> HIDE DEF p, y, r
<1>4. RcuWriteBack(a, id).redirect = x /\ RcuWriteBack(a, id).rob = q
  BY <1>2
<1>5. ~InRob(r, y.tag) => q = r
  OBVIOUS
<1>6. InRob(r, y.tag) => q = p
  OBVIOUS
<1> HIDE DEF q
<1> QED
  BY <1>3, <1>4, <1>5, <1>6 DEF y, r, x, st, tag, d

\* Only a branch comes back mispredicted, only a load faults.
MayGoWrong(insn) == \A id \in DOMAIN insn : insn[id].bad => insn[id].fu \in {"BRU", "LDU"}

\* The request of a branch that is not the target was overtaken by an older load.
RedirectOk(redirect, r) ==
  redirect # Nil =>
    /\ redirect \in DOMAIN iew.insn
    /\ r.state = "Undo"
    /\ LET tag == iew.insn[redirect].tag
       IN  \/ tag = r.rollBackTag
           \/ IsOlder(r, r.rollBackTag, tag) /\ Faults(TargetOf(iew.insn, r))

LEMMA RcuWriteBackControl ==
  ASSUME Wiring(cfg), NEW a, LeftByPorts(a), NEW id \in Ids, id \in DOMAIN iew.insn, NEW home,
         DOMAIN home = Ids, Control(iew.insn, a.rob, home), home[id] # Nowhere,
         home[id][1] # "dCache"
  PROVE  Control(iew.insn, RcuWriteBack(a, id).rob, Moved(home, id, Nowhere))
<1> DEFINE y == iew.insn[id]
           r == a.rob
           q == RcuWriteBack(a, id).rob
           g == Moved(home, id, Nowhere)
<1>1. Control(iew.insn, r, g)
  <2>1. Follows(iew.insn, r, g, home)
    BY FollowsLeft
  <2> HIDE DEF g
  <2> QED
    BY <2>1, ControlFollows
<1>2. CASE ~InRob(r, y.tag)
  <2>1. q = r
    BY <1>2, RcuWriteBackFields
  <2> QED
    BY <1>1, <2>1
<1>3. CASE InRob(r, y.tag)
  <2>1. /\ q.queue = r.queue /\ q.header = r.header /\ q.toCommit = r.toCommit
        /\ q.done = r.done \union {y.tag}
        /\ q.state = IF TakesOver(r, y) THEN "Undo"
                     ELSE IF Resumes(r, y) THEN "Idle" ELSE r.state
        /\ q.rollBackTag = IF TakesOver(r, y) THEN y.tag ELSE r.rollBackTag
    BY <1>3, RcuWriteBackFields
  <2>2. /\ Ring(iew.insn, r) /\ Recovery(iew.insn, r) /\ Owned(iew.insn, r, g)
        /\ Resumable(iew.insn, r, g)
    BY <1>1 DEF Control
  <2>3. Expected(iew.insn, r, id)
    BY <1>3 DEF Control, Owned, Lingers
  <2>4. /\ id \in ToSet(r.queue) /\ y.tag \notin r.done
        /\ y.tag \in 0 .. (cfg.robSize - 1) /\ id = r.queue[Distance(r, y.tag) + 1]
    BY <2>2, <2>3, TagInRob DEF Expected
  <2> HIDE DEF q
  <2>5. \A t : Distance(q, t) = Distance(r, t) /\ (InRob(q, t) <=> InRob(r, t))
    BY <2>1 DEF Distance, InRob
  <2>6. Ring(iew.insn, q)
    BY <2>1, <2>2 DEF Ring
  <2>7. r.toCommit <= Distance(r, y.tag)
    <3>1. Distance(r, y.tag) \in Nat /\ r.toCommit \in Nat /\ r.toCommit <= Len(r.queue)
      <4>1. r.header \in 0 .. (cfg.robSize - 1) /\ r.toCommit \in 0 .. Len(r.queue)
        BY <2>2 DEF Ring
      <4>2. Distance(r, y.tag) \in 0 .. (cfg.robSize - 1)
        BY <2>4, <4>1, DistanceIs
      <4> QED
        BY <4>1, <4>2
    <3>2. SUFFICES ASSUME Distance(r, y.tag) < r.toCommit
                   PROVE  FALSE
      BY <3>1
    <3>3. Distance(r, y.tag) + 1 \in 1 .. r.toCommit
      BY <3>1, <3>2
    <3>4. iew.insn[r.queue[Distance(r, y.tag) + 1]].tag \in r.done
      BY <2>2, <3>3 DEF Ring
    <3> QED
      BY <2>4, <3>4
  <2>8. Recovery(iew.insn, q)
    BY <1>3, <2>1, <2>2, <2>4, <2>5, <2>7 DEF Recovery
  <2>9. TakesOver(r, y) => TargetOf(iew.insn, q) = y /\ y.bad
    <3>1. SUFFICES ASSUME TakesOver(r, y) PROVE TargetOf(iew.insn, q) = y /\ y.bad
      OBVIOUS
    <3>2. y.bad /\ q.rollBackTag = y.tag /\ q.queue = r.queue
      BY <2>1, <3>1 DEF TakesOver
    <3>3. q.queue[Distance(q, q.rollBackTag) + 1] = id
      BY <2>4, <2>5, <3>2
    <3> QED
      BY <3>2, <3>3 DEF TargetOf
  <2>10. ~TakesOver(r, y) => TargetOf(iew.insn, q) = TargetOf(iew.insn, r)
    BY <2>1, <2>5 DEF TargetOf
  <2>11. Resumable(iew.insn, q, g)
    <3> HIDE DEF y, r, g
    <3>1. CASE TakesOver(r, y)
      BY <2>9, <3>1 DEF Resumable
    <3>2. CASE ~TakesOver(r, y)
      <4>1. q.state # "Idle" => r.state # "Idle" /\ q.rollBackTag = r.rollBackTag
        BY <2>1, <3>2
      <4> QED
        BY <2>1, <2>2, <2>5, <2>10, <3>2, <4>1 DEF Resumable
    <3> QED
      BY <3>1, <3>2
  <2>12. Owned(iew.insn, q, g)
    <3> SUFFICES ASSUME NEW x \in Ids, g[x] # Nowhere
                 PROVE  /\ x \in DOMAIN iew.insn
                        /\ \/ Expected(iew.insn, q, x)
                           \/ Lingers(iew.insn, q, x) /\ g[x] # AtLdq
                           \/ iew.insn[x].killed /\ g[x][1] = "dCache"
      BY DEF Owned
    <3>1. x # id
      <4>1. g[id] = Nowhere
        BY NowhereFrom
      <4> QED
        BY <4>1
    <3> HIDE DEF g
    <3>2. /\ x \in DOMAIN iew.insn
          /\ \/ Expected(iew.insn, r, x)
             \/ Lingers(iew.insn, r, x) /\ g[x] # AtLdq
             \/ iew.insn[x].killed /\ g[x][1] = "dCache"
      BY <2>2 DEF Owned
    <3>3. CASE Expected(iew.insn, r, x)
      <4>1. x = r.queue[Distance(r, iew.insn[x].tag) + 1]
        BY <2>2, <3>3, TagInRob DEF Expected
      <4>2. iew.insn[x].tag # y.tag
        BY <2>4, <3>1, <4>1
      <4> QED
        BY <2>1, <3>2, <3>3, <4>2 DEF Expected
    <3>4. CASE Lingers(iew.insn, r, x) /\ g[x] # AtLdq
      <4>1. CASE q.state # "Idle"
        BY <2>5, <3>2, <3>4, <4>1 DEF Lingers
      <4>2. CASE q.state = "Idle"
        <5>1. Resumes(r, y)
          BY <2>1, <3>4, <4>2 DEF Lingers
        <5>2. r.state # "Idle" /\ y.tag = r.rollBackTag /\ ~y.bad
          BY <5>1 DEF Resumes
        <5>3. TargetOf(iew.insn, r) = y
          BY <2>4, <5>2 DEF TargetOf
        <5>4. \A i \in Ids : g[i] # Nowhere /\ g[i][1] # "dCache" => ~iew.insn[i].killed
          BY <2>2, <5>2, <5>3 DEF Resumable
        <5> QED
          BY <3>2, <3>4, <5>4 DEF Lingers
      <4> QED
        BY <4>1, <4>2
    <3> QED
      BY <3>2, <3>3, <3>4
  <2> QED
    BY <2>6, <2>8, <2>11, <2>12 DEF Control, q
<1> QED
  BY <1>2, <1>3

LEMMA RcuWriteBackRedirect ==
  ASSUME Wiring(cfg), NEW a, LeftByPorts(a), NEW id \in Ids, id \in DOMAIN iew.insn,
         Ring(iew.insn, a.rob), Recovery(iew.insn, a.rob),
         MayGoWrong(iew.insn), \A x \in DOMAIN iew.insn : iew.insn[x].tag \in 0 .. (cfg.robSize - 1),
         RedirectOk(a.redirect, a.rob), InRob(a.rob, iew.insn[id].tag) => id \in ToSet(a.rob.queue)
  PROVE  RedirectOk(RcuWriteBack(a, id).redirect, RcuWriteBack(a, id).rob)
<1> DEFINE y == iew.insn[id]
           r == a.rob
           b == RcuWriteBack(a, id)
           q == b.rob
<1>1. b.redirect = IF TakesOver(r, y) /\ Mispredicts(y) THEN id ELSE a.redirect
  BY RcuWriteBackFields
<1>2. CASE ~InRob(r, y.tag)
  <2>1. q = r /\ ~TakesOver(r, y)
    BY <1>2, RcuWriteBackFields DEF TakesOver
  <2> QED
    BY <1>1, <2>1
<1>3. CASE InRob(r, y.tag)
  <2>1. /\ q.queue = r.queue /\ q.header = r.header
        /\ q.state = IF TakesOver(r, y) THEN "Undo"
                     ELSE IF Resumes(r, y) THEN "Idle" ELSE r.state
        /\ q.rollBackTag = IF TakesOver(r, y) THEN y.tag ELSE r.rollBackTag
    BY <1>3, RcuWriteBackFields
  <2>2. id = r.queue[Distance(r, y.tag) + 1]
    BY <1>3, TagInRob
  <2> HIDE DEF b
  <2>3. \A s, t : /\ Distance(q, t) = Distance(r, t)
                  /\ IsOlder(q, s, t) <=> Distance(r, s) < Distance(r, t)
                  /\ IsOlder(r, s, t) <=> Distance(r, s) < Distance(r, t)
    BY <2>1 DEF Distance, IsOlder
  <2>4. TakesOver(r, y) => TargetOf(iew.insn, q) = y /\ y.bad
    BY <2>1, <2>2, <2>3 DEF TargetOf, TakesOver
  <2>5. ~TakesOver(r, y) => TargetOf(iew.insn, q) = TargetOf(iew.insn, r)
    BY <2>1, <2>3 DEF TargetOf
  <2>6. \A t \in 0 .. (cfg.robSize - 1) : Distance(r, t) \in Int
    <3>1. r.header \in 0 .. (cfg.robSize - 1)
      BY DEF Ring
    <3>2. \A t \in 0 .. (cfg.robSize - 1) : Distance(r, t) \in 0 .. (cfg.robSize - 1)
      BY <3>1, DistanceIs
    <3> QED
      BY <3>2
  <2>7. CASE TakesOver(r, y) /\ Mispredicts(y)
    <3>1. b.redirect = id /\ q.state = "Undo" /\ q.rollBackTag = y.tag
      BY <1>1, <2>1, <2>7
    <3> QED
      BY <3>1 DEF RedirectOk, b
  <2>8. CASE TakesOver(r, y) /\ ~Mispredicts(y)
    <3> SUFFICES ASSUME a.redirect # Nil
                 PROVE  RedirectOk(a.redirect, q)
      BY <1>1, <2>8 DEF RedirectOk, b
    <3> DEFINE tag == iew.insn[a.redirect].tag
    <3>1. /\ a.redirect \in DOMAIN iew.insn /\ r.state = "Undo"
          /\ tag = r.rollBackTag \/ Distance(r, r.rollBackTag) < Distance(r, tag)
      BY <2>3 DEF RedirectOk
    <3>2. Distance(r, y.tag) < Distance(r, r.rollBackTag)
      BY <2>3, <2>8, <3>1 DEF TakesOver
    <3>3. /\ tag \in 0 .. (cfg.robSize - 1) /\ y.tag \in 0 .. (cfg.robSize - 1)
          /\ r.rollBackTag \in 0 .. (cfg.robSize - 1)
      BY <3>1 DEF Recovery
    <3>4. /\ Distance(r, tag) \in Int /\ Distance(r, y.tag) \in Int
          /\ Distance(r, r.rollBackTag) \in Int
      BY <2>6, <3>3
    <3>5. Distance(r, y.tag) < Distance(r, tag)
      BY <3>1, <3>2, <3>4
    <3>6. Faults(y)
      BY <2>8 DEF MayGoWrong, Mispredicts, Faults, TakesOver
    <3>7. q.state = "Undo" /\ q.rollBackTag = y.tag
      BY <2>1, <2>8
    <3>8. IsOlder(q, q.rollBackTag, tag)
      BY <2>3, <3>5, <3>7
    <3>9. Faults(TargetOf(iew.insn, q))
      BY <2>4, <2>8, <3>6
    <3> QED
      BY <3>1, <3>7, <3>8, <3>9 DEF RedirectOk
  <2>9. CASE ~TakesOver(r, y)
    <3> SUFFICES ASSUME a.redirect # Nil
                 PROVE  RedirectOk(a.redirect, q)
      BY <1>1, <2>9 DEF RedirectOk, b
    <3>1. r.state = "Undo"
      BY DEF RedirectOk
    <3>2. q.state = "Undo" /\ q.rollBackTag = r.rollBackTag
      BY <2>1, <2>9, <3>1 DEF Resumes
    <3> QED
      BY <2>3, <2>5, <2>9, <3>1, <3>2 DEF RedirectOk
  <2> QED
    BY <2>7, <2>8, <2>9 DEF b
<1> QED
  BY <1>2, <1>3

LEMMA InsnTags ==
  ASSUME Wiring(cfg), NEW m, NEW done, Sound(m, done)
  PROVE  \A x \in DOMAIN m.insn : m.insn[x].tag \in 0 .. (cfg.robSize - 1)
<1>1. m.insn \in Seq(DynInsn)
  BY DEF Sound, Insns
<1>2. \A x \in DOMAIN m.insn : m.insn[x] \in DynInsn
  BY <1>1
<1> QED
  BY <1>2 DEF DynInsn

LEMMA EvaluateWbPortControl ==
  ASSUME Wiring(cfg), MaxInsns \in Nat, NEW done, Sound(iew, done), MayGoWrong(iew.insn),
         NEW w \in DOMAIN cfg.wb, NEW a, LeftByPorts(a), RedirectOk(a.redirect, a.rob),
         NEW P, NEW U, NEW D, NEW W, w \in W, NEW home,
         Placed(iew, {}, P, U, D, W, home), Control(iew.insn, a.rob, home)
  PROVE  LET b == EvaluateWbPort(a, w)
         IN  /\ LeftByPorts(b) /\ RedirectOk(b.redirect, b.rob)
             /\ \E h : Placed(iew, {}, P, U, D, W \ {w}, h) /\ Control(iew.insn, b.rob, h)
<1> DEFINE b == EvaluateWbPort(a, w)
           V == W \ {w}
<1>1. CASE iew.wb[w].out = <<>>
  <2>1. b = a
    BY <1>1 DEF EvaluateWbPort
  <2>2. Placed(iew, {}, P, U, D, V, home)
    <3>1. V \in SUBSET W /\ \A S : S \in SUBSET S
      OBVIOUS
    <3> HIDE DEF V
    <3> QED
      BY <3>1, PlacedLess
  <2> HIDE DEF b, V
  <2> QED
    BY <2>1, <2>2 DEF b, V
<1>2. CASE iew.wb[w].out # <<>>
  <2> DEFINE id == iew.wb[w].out[1]
  <2>1. id \in DOMAIN iew.insn /\ id \in Ids
    <3>1. iew.wb[w] \in Latch(Complete(iew.insn))
      BY DEF Sound
    <3>2. id \in DOMAIN iew.insn
      BY <1>2, <3>1, SMTT(40) DEF Latch, Port, Complete
    <3>3. DOMAIN iew.insn \subseteq Ids
      BY InsnIds
    <3> QED
      BY <3>2, <3>3
  <2>2. b = RcuWriteBack(a, id)
    BY <1>2 DEF EvaluateWbPort
  <2>3. home[id] = AtWb(w) /\ Placed(iew, {}, P, U, D, V, Moved(home, id, Nowhere))
    BY <1>2, <2>1, TakeWb
  <2> HIDE DEF id, b, V
  <2>4. home[id] # Nowhere /\ home[id][1] # "dCache" /\ DOMAIN home = Ids
    BY <2>3, PlacesDiffer, PartOfPlace DEF Placed
  <2>5. iew.insn[id].tag \in 0 .. (cfg.robSize - 1) /\ iew.insn[id].tag \in Int
    BY <2>1, InsnTags, WiringFacts
  <2>6. LeftByPorts(b)
    BY <2>1, <2>2, <2>5, RcuWriteBackKeeps
  <2>7. Control(iew.insn, b.rob, Moved(home, id, Nowhere))
    BY <2>1, <2>2, <2>4, RcuWriteBackControl
  <2>8. RedirectOk(b.redirect, b.rob)
    <3>1. Ring(iew.insn, a.rob) /\ Recovery(iew.insn, a.rob)
      BY DEF Control
    <3>2. InRob(a.rob, iew.insn[id].tag) => id \in ToSet(a.rob.queue)
      BY <2>1, <2>4 DEF Control, Owned, Expected, Lingers
    <3>3. \A x \in DOMAIN iew.insn : iew.insn[x].tag \in 0 .. (cfg.robSize - 1)
      BY InsnTags
    <3> QED
      BY <2>1, <2>2, <3>1, <3>2, <3>3, RcuWriteBackRedirect
  <2> QED
    BY <2>3, <2>6, <2>7, <2>8 DEF b, V
<1> QED
  BY <1>1, <1>2

LEMMA WriteBackControl ==
  ASSUME Wiring(cfg), MaxInsns \in Nat, Buffer, NEW done, Sound(iew, done),
         MayGoWrong(iew.insn), WriteBack, NEW P, NEW U, NEW D, NEW home,
         Placed(iew, {}, P, U, D, DOMAIN cfg.wb, home), Control(iew.insn, rob, home)
  PROVE  /\ iew' = [iew EXCEPT !.redirect = iew'.redirect] /\ RedirectOk(iew'.redirect, rob')
         /\ \E h : Placed(iew', {}, P, U, D, {}, h) /\ Control(iew.insn, rob', h)
<1> DEFINE n == Len(cfg.wb)
           Still(a, k) == \E g : /\ Placed(iew, {}, P, U, D, (k + 1) .. n, g)
                                 /\ Control(iew.insn, a.rob, g)
           Good(a, k) == LeftByPorts(a) /\ RedirectOk(a.redirect, a.rob) /\ Still(a, k)
<1>1. PICK h : /\ rob' = h[n].rob /\ iew' = [iew EXCEPT !.redirect = h[n].redirect]
               /\ h[0] = [rob |-> rob, redirect |-> Nil]
               /\ \A k \in 1 .. n : h[k] = EvaluateWbPort(h[k - 1], k)
  BY WbPortsRun
<1> DEFINE T == {k \in 0 .. n : Good(h[k], k)}
<1>2. n \in Nat /\ DOMAIN cfg.wb = 1 .. n
  BY WiringFacts
<1>3. Good([rob |-> rob, redirect |-> Nil], 0)
  <2> DEFINE a == [rob |-> rob, redirect |-> Nil]
  <2>1. LeftByPorts(a)
    BY DEF Buffer, LeftByPorts, Ids0
  <2>2. a.rob = rob /\ a.redirect = Nil /\ 0 + 1 = 1
    OBVIOUS
  <2>3. Still(a, 0)
    BY <1>2, <2>2
  <2> QED
    BY <2>1, <2>2, <2>3 DEF RedirectOk
<1>4. 0 \in T
  <2> HIDE DEF Good
  <2> QED
    BY <1>1, <1>2, <1>3
<1>5. ASSUME NEW k \in 1 .. n, k - 1 \in T
      PROVE  k \in T
  <2>1. Good(h[k - 1], k - 1) /\ h[k] = EvaluateWbPort(h[k - 1], k) /\ k \in DOMAIN cfg.wb
    BY <1>1, <1>2, <1>5
  <2> DEFINE a == h[k - 1]
             b == EvaluateWbPort(a, k)
             W == k .. n
  <2>2. (k - 1) + 1 = k /\ k \in W /\ W \ {k} = (k + 1) .. n
    BY <1>2
  <2>3. h[k] = b
    BY <2>1
  <2> HIDE DEF a
  <2>4. LeftByPorts(a) /\ RedirectOk(a.redirect, a.rob)
    BY <2>1 DEF a
  <2>5. PICK g : Placed(iew, {}, P, U, D, W, g) /\ Control(iew.insn, a.rob, g)
    BY <2>1, <2>2 DEF a
  <2> HIDE DEF W
  <2>6. /\ LeftByPorts(b) /\ RedirectOk(b.redirect, b.rob)
        /\ \E f : Placed(iew, {}, P, U, D, W \ {k}, f) /\ Control(iew.insn, b.rob, f)
    BY <2>1, <2>2, <2>4, <2>5, EvaluateWbPortControl
  <2> HIDE DEF b
  <2>7. Good(b, k)
    BY <2>2, <2>6
  <2> HIDE DEF Good
  <2> QED
    BY <2>3, <2>7
<1>6. n \in T
  <2> HIDE DEF T, n
  <2> QED
    BY <1>2, <1>4, <1>5, LastRound
<1>7. Good(h[n], n)
  BY <1>6
<1>8. (n + 1) .. n = {}
  BY <1>2
<1> DEFINE a == h[n]
           m == [iew EXCEPT !.redirect = a.redirect]
<1>9. PICK g : Placed(iew, {}, P, U, D, {}, g) /\ Control(iew.insn, a.rob, g)
  BY <1>7, <1>8
<1>a. iew' = m /\ rob' = a.rob /\ RedirectOk(a.redirect, a.rob)
  BY <1>1, <1>7
<1> HIDE DEF a, n
<1>10. Parts(iew)
  BY SoundParts
<1>11. /\ m.sched = iew.sched /\ m.port = iew.port /\ m.unit = iew.unit /\ m.wb = iew.wb
       /\ m.ldq = iew.ldq /\ m.redirect = a.redirect
  BY <1>10 DEF Parts
<1> HIDE DEF m
<1>12. SamePipes(iew, m) /\ SameCaches(iew, m)
  BY <1>11 DEF SamePipes, SameCaches
<1>13. Placed(m, {}, P, U, D, {}, g)
  BY <1>9, <1>11, <1>12, PlacedSame
<1>14. iew' = [iew EXCEPT !.redirect = iew'.redirect]
  BY <1>a, <1>11 DEF m
<1> QED
  BY <1>9, <1>a, <1>11, <1>13, <1>14

=============================================================================

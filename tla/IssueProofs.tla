----------------------------- MODULE IssueProofs -----------------------------
(***************************************************************************)
(* What Issue promises, proved for every wiring and every program.         *)
(***************************************************************************)
EXTENDS Issue, TLAPS, WellFoundedInduction, SequenceTheorems

\* The wirings in which every instruction waits for its operands before it
\* reaches a unit.  All configuration files are of this kind.
OperandsAwaited ==
  \A s \in DOMAIN cfg.sched :
    /\ cfg.sched[s].wakeUp \in {"None", "RfQueue"} => cfg.sched[s].units = <<>>
    /\ cfg.sched[s].wakeUp = "Commit" => cfg.sched[s].order = "In-Order" \/ cfg.forwardResult

-----------------------------------------------------------------------------
(* Data. *)

Ids0 == Ids \union {Nil}

Port(S) == {<<>>} \union {<<x>> : x \in S}
Latch(S) ==
  [in : Port(S), out : Port(S), queue : Seq([data : S, wait : Int]),
   stall : BOOLEAN, flush : BOOLEAN]

\* The instructions with all their operands.
Complete(insn) ==
  {id \in DOMAIN insn : OperandsAwaited => insn[id].srcs \subseteq insn[id].ready}

\* What goes through a read port: what is on its way to a unit finds there
\* the operands it does not have.
Entry(insn, done) ==
  {e \in [toFu : BOOLEAN, des : Nat, index : Int, id : DOMAIN insn] :
     IF e.toFu
     THEN /\ e.des \in DOMAIN cfg.unit
          /\ OperandsAwaited => insn[e.id].srcs \subseteq insn[e.id].ready \union done
     ELSE e.des \in DOMAIN cfg.sched}

UnitState(S) == [pipe : Latch(S), dCache : Latch(S), taken : BOOLEAN, flush : BOOLEAN]

Slots(c, S) == [Indices(c) -> S \union {Nil}]
RingState(c, S) == [slots : Slots(c, S), header : Indices(c), usage : 0 .. c.entries]
\* In the age queue a slot is on the free list once, or in use.
Apart(free, bust) ==
  /\ \A j, k \in DOMAIN free : free[j] = free[k] => j = k
  /\ \A j \in DOMAIN free, k \in DOMAIN bust : free[j] # bust[k]
AgeFields(c, S) == [slots : Slots(c, S), free : Seq(Indices(c)), bust : Seq(Indices(c))]
AgeState(c, S) == {q \in AgeFields(c, S) : Apart(q.free, q.bust)}
BagState(c, S) == [slots : Slots(c, S), valid : SUBSET Indices(c), usage : 0 .. c.entries]
QueueState(c, S) ==
  CASE c.order = "In-Order" -> RingState(c, S)
    [] c.order = "In-Age-Order" -> AgeState(c, S)
    [] c.order = "Out-of-Order" -> BagState(c, S)
SchedState(c, S) ==
  [q : QueueState(c, S), enq : Seq([index : Int, id : S]), room : 0 .. c.enqueWidth,
   flush : BOOLEAN]

\* The instructions, the registers and the parts of IEW.
Insns(insn) ==
  /\ insn \in Seq(DynInsn) /\ Len(insn) <= MaxInsns
  /\ \A id \in DOMAIN insn : insn[id].stale = {} /\ insn[id].ready \subseteq insn[id].srcs

Parts(m) ==
  m = [sched |-> m.sched, unit |-> m.unit, port |-> m.port, wb |-> m.wb, ldq |-> m.ldq,
       redirect |-> m.redirect, insn |-> m.insn, fired |-> m.fired]

Sound(m, done) ==
  /\ Parts(m)
  /\ Insns(m.insn)
  /\ DOMAIN m.sched = DOMAIN cfg.sched
  /\ \A s \in DOMAIN cfg.sched : m.sched[s] \in SchedState(cfg.sched[s], DOMAIN m.insn)
  /\ m.unit \in [DOMAIN cfg.unit -> UnitState(Complete(m.insn))]
  /\ m.port \in [1 .. cfg.ports -> Latch(Entry(m.insn, done))]
  /\ m.wb \in [DOMAIN cfg.wb -> Latch(Complete(m.insn))]
  /\ m.ldq \in Seq(Complete(m.insn))
  /\ m.redirect \in Ids0

Registers ==
  /\ regs \in [done : SUBSET Ids0, forwarding : SUBSET Ids0, file : SUBSET Ids0]
  /\ regs.done \subseteq regs.file
  /\ cfg.forwardResult => regs.forwarding \subseteq regs.done

Buffer ==
  /\ rob = [queue |-> rob.queue, header |-> rob.header, done |-> rob.done,
            stable |-> rob.stable, state |-> rob.state, rollBackTag |-> rob.rollBackTag,
            toCommit |-> rob.toCommit]
  /\ Len(rob.queue) \in Nat /\ rob.header \in Int /\ rob.toCommit \in Int
  /\ rob.rollBackTag \in Int

Flow == /\ cfg \in Configs /\ phase \in ToSet(Phases)
        /\ Sound(iew, regs.done) /\ Registers /\ Buffer

-----------------------------------------------------------------------------
(* Sets of naturals.                                                       *)

LEMMA SmallestOfSet ==
  ASSUME NEW T, T \subseteq Nat, T # {}
  PROVE  \E x \in T : \A y \in T : x <= y
<1> DEFINE R == OpToRel(<, Nat)
<1>1. IsWellFoundedOn(R, Nat)
  BY NatLessThanWellFounded
<1> HIDE DEF R
<1>2. PICK x \in T : \A y \in T : ~(<<y, x>> \in R)
  BY <1>1, WFMin
<1>3. \A y \in T : y < x => <<y, x>> \in R
  BY DEF R, OpToRel
<1>4. \A y \in T : ~(y < x)
  BY <1>2, <1>3
<1>5. \A y \in T : y \in Nat
  OBVIOUS
<1> QED
  BY <1>4, <1>5

LEMMA UpFromZero ==
  ASSUME NEW T, T \subseteq Nat, 0 \in T, \A n \in T : n + 1 \in T
  PROVE  T = Nat
<1> DEFINE Rest == Nat \ T
<1>1. SUFFICES ASSUME Rest # {} PROVE FALSE
  OBVIOUS
<1>2. PICK x \in Rest : \A y \in Rest : x <= y
  <2> Rest \subseteq Nat
    OBVIOUS
  <2> HIDE DEF Rest
  <2> QED
    BY <1>1, SmallestOfSet
<1>3. x \in Nat /\ x # 0
  OBVIOUS
<1>4. x - 1 \in Nat /\ x - 1 \notin Rest
  BY <1>2, <1>3
<1>5. x - 1 \in T /\ (x - 1) + 1 = x
  BY <1>3, <1>4
<1> QED
  BY <1>5

LEMMA MinOfNats ==
  ASSUME NEW T, T \subseteq Nat, T # {}
  PROVE  Min(T) \in T /\ \A y \in T : Min(T) <= y
<1>1. PICK x \in T : \A y \in T : x <= y
  BY SmallestOfSet
<1> QED
  BY <1>1 DEF Min

LEMMA MinOfTwo ==
  ASSUME NEW a \in Int, NEW b \in Int
  PROVE  /\ Min({a, b}) \in {a, b} /\ Min({a, b}) <= a /\ Min({a, b}) <= b
<1>1. \E x \in {a, b} : \A y \in {a, b} : x <= y
  <2>1. CASE a <= b
    BY <2>1
  <2>2. CASE b <= a
    BY <2>2
  <2> QED
    BY <2>1, <2>2
<1> QED
  BY <1>1 DEF Min

LEMMA LargestOfSet ==
  ASSUME NEW n \in Nat, NEW T, T \subseteq 0 .. n, T # {}
  PROVE  Max(T) \in T /\ \A y \in T : y <= Max(T)
<1> DEFINE Below == {n - x : x \in T}
<1>1. Below \subseteq Nat /\ Below # {}
  OBVIOUS
<1>2. PICK z \in Below : \A y \in Below : z <= y
  <2> HIDE DEF Below
  <2> QED
    BY <1>1, SmallestOfSet
<1>3. PICK x \in T : z = n - x
  BY <1>2
<1>4. \A y \in T : y <= x
  <2> SUFFICES ASSUME NEW y \in T PROVE y <= x
    OBVIOUS
  <2>1. n - y \in Below
    OBVIOUS
  <2>2. x \in Int /\ y \in Int
    OBVIOUS
  <2> HIDE DEF Below
  <2> QED
    BY <1>2, <1>3, <2>1, <2>2
<1>5. \E v \in T : \A y \in T : v >= y
  BY <1>4
<1> QED
  BY <1>5 DEF Max

-----------------------------------------------------------------------------
(* The latches.                                                            *)

LEMMA EmptyLatch ==
  ASSUME NEW S
  PROVE  TB!Empty \in Latch(S)
BY DEF TB!Empty, Latch, Port

LEMMA LatchSet ==
  ASSUME NEW S, NEW b \in Latch(S), NEW x \in S
  PROVE  TB!Set(b, x) \in Latch(S)
BY DEF TB!Set, Latch, Port

LEMMA LatchMarks ==
  ASSUME NEW S, NEW b \in Latch(S)
  PROVE  TB!Stall(b) \in Latch(S) /\ TB!Flush(b) \in Latch(S)
BY DEF TB!Stall, TB!Flush, Latch

LEMMA LatchOut ==
  ASSUME NEW S, NEW b \in Latch(S), NEW l
  PROVE  TB!OutPort(b, l) = <<>> \/ TB!OutPort(b, l)[1] \in S
BY DEF TB!OutPort, Latch, Port

LEMMA SeqGrows ==
  ASSUME NEW S, NEW T, S \subseteq T
  PROVE  Seq(S) \subseteq Seq(T)
OBVIOUS

LEMMA LatchGrows ==
  ASSUME NEW S, NEW T, S \subseteq T
  PROVE  Latch(S) \subseteq Latch(T)
<1> SUFFICES ASSUME NEW b \in Latch(S) PROVE b \in Latch(T)
  OBVIOUS
<1>1. b.queue \in Seq([data : T, wait : Int])
  <2>1. b.queue \in Seq([data : S, wait : Int])
    BY DEF Latch
  <2>2. [data : S, wait : Int] \subseteq [data : T, wait : Int]
    OBVIOUS
  <2>3. Seq([data : S, wait : Int]) \subseteq Seq([data : T, wait : Int])
    BY <2>2, SeqGrows
  <2> QED
    BY <2>1, <2>3
<1> QED
  BY <1>1 DEF Latch, Port

LEMMA LatchAdvance ==
  ASSUME NEW S, NEW b \in Latch(S), NEW l \in Nat
  PROVE  TB!Advance(b, l) \in Latch(S)
<1> DEFINE E == [data : S, wait : Int]
<1>1. ASSUME NEW q \in Seq(E)
      PROVE  TB!Aged(q) \in Seq(E)
  <2>1. ASSUME NEW i \in 1 .. Len(q)
        PROVE  [q[i] EXCEPT !.wait = IF @ = 0 THEN 0 ELSE @ - 1] \in E
    <3>1. q[i] \in E
      <4> HIDE DEF E
      <4> QED
        OBVIOUS
    <3> QED
      BY <3>1
  <2> HIDE DEF E
  <2> QED
    BY <2>1 DEF TB!Aged
<1>2. TB!Shifted(b, l) \in Latch(S)
  <2> DEFINE pushed == IF b.in = <<>> THEN b.queue
                       ELSE Append(b.queue, [data |-> b.in[1], wait |-> l - 1])
             due == pushed # <<>> /\ Head(pushed).wait = 0
  <2>1. pushed \in Seq(E)
    <3>1. b.queue \in Seq(E)
      BY DEF Latch
    <3>2. b.in = <<>> \/ [data |-> b.in[1], wait |-> l - 1] \in E
      BY DEF Latch, Port
    <3> HIDE DEF E
    <3> QED
      BY <3>1, <3>2
  <2> HIDE DEF pushed
  <2>2. due => Head(pushed).data \in S /\ Tail(pushed) \in Seq(E)
    <3>1. pushed # <<>> => Head(pushed) \in E /\ Tail(pushed) \in Seq(E)
      <4> HIDE DEF E
      <4> QED
        BY <2>1
    <3> QED
      BY <3>1
  <2>3. TB!Aged(IF due THEN Tail(pushed) ELSE pushed) \in Seq(E)
    BY <1>1, <2>1, <2>2
  <2> DEFINE out == IF due THEN <<Head(pushed).data>> ELSE <<>>
             queue == TB!Aged(IF due THEN Tail(pushed) ELSE pushed)
  <2>4. out \in Port(S)
    BY <2>2 DEF Port
  <2>5. TB!Shifted(b, l) = [b EXCEPT !.in = <<>>, !.out = out, !.queue = queue]
    BY DEF TB!Shifted, pushed
  <2> HIDE DEF out, queue, due
  <2> QED
    BY <2>3, <2>4, <2>5 DEF Latch, Port, queue
<1>3. [b EXCEPT !.stall = FALSE, !.queue = TB!Aged(@)] \in Latch(S)
  BY <1>1 DEF Latch
<1>4. [b EXCEPT !.in = <<>>] \in Latch(S)
  BY DEF Latch, Port
<1> QED
  BY <1>2, <1>3, <1>4, EmptyLatch DEF TB!Advance

-----------------------------------------------------------------------------
(* The wiring.                                                             *)

Sched ==
  [order : Orders, wakeUp : WakeUps, entries : Nat \ {0}, enqueWidth : Nat,
   dequeWidth : Nat, units : Seq(DOMAIN cfg.unit), subs : Seq(DOMAIN cfg.sched),
   ports : Seq(1 .. cfg.ports)]

LEMMA WiringFacts ==
  ASSUME Wiring(cfg)
  PROVE  /\ cfg.robSize \in Nat \ {0} /\ cfg.allocWidth \in Nat /\ cfg.deallocWidth \in Nat
         /\ cfg.ports \in Nat /\ cfg.rfLatency \in Nat /\ cfg.dCacheLatency \in Nat \ {0}
         /\ DOMAIN cfg.sched = 1 .. Len(cfg.sched) /\ Len(cfg.sched) \in Nat
         /\ DOMAIN cfg.unit = 1 .. Len(cfg.unit) /\ Len(cfg.unit) \in Nat
         /\ DOMAIN cfg.wb = 1 .. Len(cfg.wb) /\ Len(cfg.wb) \in Nat
         /\ DOMAIN cfg.top = 1 .. Len(cfg.top) /\ Len(cfg.top) \in Nat
         /\ \A s \in DOMAIN cfg.sched : cfg.sched[s] \in Sched
         /\ \A k \in DOMAIN cfg.top : cfg.top[k] \in DOMAIN cfg.sched
<1>1. cfg.sched \in Seq(Sched)
  BY DEF Wiring, Sched
<1>2. \A s \in DOMAIN cfg.sched : cfg.sched[s] \in Sched
  <2> HIDE DEF Sched
  <2> QED
    BY <1>1
<1>3. /\ DOMAIN cfg.sched = 1 .. Len(cfg.sched) /\ Len(cfg.sched) \in Nat
      /\ DOMAIN cfg.unit = 1 .. Len(cfg.unit) /\ Len(cfg.unit) \in Nat
      /\ DOMAIN cfg.wb = 1 .. Len(cfg.wb) /\ Len(cfg.wb) \in Nat
      /\ DOMAIN cfg.top = 1 .. Len(cfg.top) /\ Len(cfg.top) \in Nat
  <2> DEFINE U == [kinds : SUBSET FuncType, latency : Nat \ {0}, pipelined : BOOLEAN,
                   wb : Seq(DOMAIN cfg.wb)]
  <2>1. /\ cfg.unit \in Seq(U) /\ cfg.wb \in Seq(Seq(DOMAIN cfg.sched))
        /\ cfg.top \in Seq(DOMAIN cfg.sched)
    BY DEF Wiring
  <2> HIDE DEF U, Sched
  <2> QED
    BY <1>1, <2>1
<1>4. \A k \in DOMAIN cfg.top : cfg.top[k] \in DOMAIN cfg.sched
  BY DEF Wiring
<1> QED
  BY <1>2, <1>3, <1>4 DEF Wiring

LEMMA UnitFacts ==
  ASSUME Wiring(cfg), NEW u \in DOMAIN cfg.unit
  PROVE  /\ cfg.unit[u].latency \in Nat \ {0}
         /\ cfg.unit[u].pipelined \in BOOLEAN
         /\ DOMAIN cfg.unit[u].wb = 1 .. Len(cfg.unit[u].wb) /\ Len(cfg.unit[u].wb) \in Nat
         /\ \A k \in DOMAIN cfg.unit[u].wb : cfg.unit[u].wb[k] \in DOMAIN cfg.wb
<1> DEFINE U == [kinds : SUBSET FuncType, latency : Nat \ {0}, pipelined : BOOLEAN,
                 wb : Seq(DOMAIN cfg.wb)]
<1>1. cfg.unit \in Seq(U)
  BY DEF Wiring
<1>2. cfg.unit[u] \in U
  <2> HIDE DEF U
  <2> QED
    BY <1>1
<1> QED
  BY <1>2

LEMMA SchedFacts ==
  ASSUME Wiring(cfg), NEW s \in DOMAIN cfg.sched
  PROVE  /\ cfg.sched[s].order \in Orders /\ cfg.sched[s].wakeUp \in WakeUps
         /\ cfg.sched[s].entries \in Nat \ {0}
         /\ cfg.sched[s].enqueWidth \in Nat /\ cfg.sched[s].dequeWidth \in Nat
         /\ Len(cfg.sched[s].units) \in Nat /\ Len(cfg.sched[s].subs) \in Nat
         /\ DOMAIN cfg.sched[s].units = 1 .. Len(cfg.sched[s].units)
         /\ DOMAIN cfg.sched[s].subs = 1 .. Len(cfg.sched[s].subs)
         /\ DOMAIN cfg.sched[s].ports = 1 .. Len(cfg.sched[s].ports)
         /\ \A k \in DOMAIN cfg.sched[s].units : cfg.sched[s].units[k] \in DOMAIN cfg.unit
         /\ \A k \in DOMAIN cfg.sched[s].subs : cfg.sched[s].subs[k] \in DOMAIN cfg.sched
         /\ \A k \in DOMAIN cfg.sched[s].ports : cfg.sched[s].ports[k] \in 1 .. cfg.ports
<1>1. cfg.sched[s] \in Sched
  BY WiringFacts
<1> DEFINE c == cfg.sched[s]
<1>2. /\ c.units \in Seq(DOMAIN cfg.unit) /\ c.subs \in Seq(DOMAIN cfg.sched)
      /\ c.ports \in Seq(1 .. cfg.ports)
  BY <1>1 DEF Sched
<1>3. /\ c.order \in Orders /\ c.wakeUp \in WakeUps /\ c.entries \in Nat \ {0}
      /\ c.enqueWidth \in Nat /\ c.dequeWidth \in Nat
  BY <1>1 DEF Sched
<1> HIDE DEF c
<1>4. ASSUME NEW S, NEW x \in Seq(S)
      PROVE  Len(x) \in Nat /\ DOMAIN x = 1 .. Len(x) /\ \A k \in DOMAIN x : x[k] \in S
  OBVIOUS
<1>5. /\ Len(c.units) \in Nat /\ DOMAIN c.units = 1 .. Len(c.units)
      /\ \A k \in DOMAIN c.units : c.units[k] \in DOMAIN cfg.unit
  BY <1>2, <1>4
<1>6. /\ Len(c.subs) \in Nat /\ DOMAIN c.subs = 1 .. Len(c.subs)
      /\ \A k \in DOMAIN c.subs : c.subs[k] \in DOMAIN cfg.sched
  BY <1>2, <1>4
<1>7. /\ DOMAIN c.ports = 1 .. Len(c.ports)
      /\ \A k \in DOMAIN c.ports : c.ports[k] \in 1 .. cfg.ports
  BY <1>2, <1>4
<1> QED
  BY <1>3, <1>5, <1>6, <1>7 DEF c

-----------------------------------------------------------------------------
(* The loops.                                                              *)

LEMMA RemovalRuns ==
  ASSUME NEW S, NEW seq \in Seq(S), NEW gone
  PROVE  \E h : /\ Without(seq, gone) = h[Len(seq)]
                /\ h[0] = <<>>
                /\ \A k \in 1 .. Len(seq) : h[k] = IF seq[k] \in gone THEN h[k - 1] ELSE Append(h[k - 1], seq[k])
<1> DEFINE n == Len(seq)
           base == <<>>
           Step(v, k) == IF seq[k] \in gone THEN v ELSE Append(v, seq[k])
           Run(h, m) == h = [j \in 0 .. m |-> IF j = 0 THEN base ELSE Step(h[j - 1], j)]
           T == {m \in Nat : \E h : Run(h, m)}
<1>1. \E h : Run(h, n) /\ Without(seq, gone) = h[n]
  <2>1. 0 \in T
    <3>1. Run([j \in 0 .. 0 |-> base], 0)
      OBVIOUS
    <3> QED
      BY <3>1
  <2>2. ASSUME NEW m \in T
        PROVE  m + 1 \in T
    <3>1. PICK h : Run(h, m)
      OBVIOUS
    <3> DEFINE g == [j \in 0 .. (m + 1) |-> IF j <= m THEN h[j] ELSE Step(h[m], m + 1)]
    <3> HIDE DEF base
    <3>2. \A j \in 0 .. m : h[j] = IF j = 0 THEN base ELSE Step(h[j - 1], j)
      <4> HIDE DEF Step
      <4> QED
        BY <3>1
    <3> HIDE DEF Step
    <3>3. \A j \in 0 .. (m + 1) : g[j] = IF j = 0 THEN base ELSE Step(g[j - 1], j)
      BY <3>2
    <3>4. Run(g, m + 1)
      BY <3>3
    <3> HIDE DEF g, Run
    <3> QED
      BY <3>4
  <2>3. T = Nat
    <3> HIDE DEF Run
    <3>1. T \subseteq Nat
      OBVIOUS
    <3> HIDE DEF T
    <3> QED
      BY <2>1, <2>2, <3>1, UpFromZero
  <2>4. n \in Nat
    BY LenProperties
  <2>5. PICK h : Run(h, n)
    <3> HIDE DEF Run, n
    <3> QED
      BY <2>3, <2>4
  <2> QED
    BY <2>5 DEF Loop, Without
<1>2. PICK h : Run(h, n) /\ Without(seq, gone) = h[n]
  BY <1>1
<1>3. \A j \in 0 .. n : h[j] = IF j = 0 THEN base ELSE Step(h[j - 1], j)
  <2> HIDE DEF Step, n, base
  <2> QED
    BY <1>2
<1>4. n \in Nat
  BY LenProperties
<1> HIDE DEF Run
<1>5. h[0] = base /\ \A k \in 1 .. n : h[k] = Step(h[k - 1], k)
  <2> HIDE DEF Step, n, base
  <2> QED
    BY <1>3, <1>4
<1> QED
  BY <1>2, <1>5

LEMMA WbPortsRun ==
  ASSUME Wiring(cfg), WriteBack
  PROVE  \E h : /\ rob' = h[Len(cfg.wb)].rob /\ iew' = [iew EXCEPT !.redirect = h[Len(cfg.wb)].redirect]
                /\ h[0] = [rob |-> rob, redirect |-> Nil]
                /\ \A k \in 1 .. Len(cfg.wb) : h[k] = EvaluateWbPort(h[k - 1], k)
<1> DEFINE n == Len(cfg.wb)
           base == [rob |-> rob, redirect |-> Nil]
           Step(v, k) == EvaluateWbPort(v, k)
           Run(h, m) == h = [j \in 0 .. m |-> IF j = 0 THEN base ELSE Step(h[j - 1], j)]
           T == {m \in Nat : \E h : Run(h, m)}
<1>1. \E h : Run(h, n) /\ rob' = h[n].rob /\ iew' = [iew EXCEPT !.redirect = h[n].redirect]
  <2>1. 0 \in T
    <3>1. Run([j \in 0 .. 0 |-> base], 0)
      OBVIOUS
    <3> QED
      BY <3>1
  <2>2. ASSUME NEW m \in T
        PROVE  m + 1 \in T
    <3>1. PICK h : Run(h, m)
      OBVIOUS
    <3> DEFINE g == [j \in 0 .. (m + 1) |-> IF j <= m THEN h[j] ELSE Step(h[m], m + 1)]
    <3> HIDE DEF base
    <3>2. \A j \in 0 .. m : h[j] = IF j = 0 THEN base ELSE Step(h[j - 1], j)
      <4> HIDE DEF Step
      <4> QED
        BY <3>1
    <3> HIDE DEF Step
    <3>3. \A j \in 0 .. (m + 1) : g[j] = IF j = 0 THEN base ELSE Step(g[j - 1], j)
      BY <3>2
    <3>4. Run(g, m + 1)
      BY <3>3
    <3> HIDE DEF g, Run
    <3> QED
      BY <3>4
  <2>3. T = Nat
    <3> HIDE DEF Run
    <3>1. T \subseteq Nat
      OBVIOUS
    <3> HIDE DEF T
    <3> QED
      BY <2>1, <2>2, <3>1, UpFromZero
  <2>4. n \in Nat
    BY WiringFacts
  <2>5. PICK h : Run(h, n)
    <3> HIDE DEF Run, n
    <3> QED
      BY <2>3, <2>4
  <2> QED
    BY <2>5 DEF Loop, WriteBack
<1>2. PICK h : Run(h, n) /\ rob' = h[n].rob /\ iew' = [iew EXCEPT !.redirect = h[n].redirect]
  BY <1>1
<1>3. \A j \in 0 .. n : h[j] = IF j = 0 THEN base ELSE Step(h[j - 1], j)
  <2> HIDE DEF Step, n, base
  <2> QED
    BY <1>2
<1>4. n \in Nat
  BY WiringFacts
<1> HIDE DEF Run
<1>5. h[0] = base /\ \A k \in 1 .. n : h[k] = Step(h[k - 1], k)
  <2> HIDE DEF Step, n, base
  <2> QED
    BY <1>3, <1>4
<1> QED
  BY <1>2, <1>5

LEMMA UnitsRun ==
  ASSUME Wiring(cfg), Execute
  PROVE  \E h : /\ iew' = h[Len(cfg.unit)]
                /\ h[0] = iew
                /\ \A k \in 1 .. Len(cfg.unit) : h[k] = EvaluateUnit(h[k - 1], k)
<1> DEFINE n == Len(cfg.unit)
           base == iew
           Step(v, k) == EvaluateUnit(v, k)
           Run(h, m) == h = [j \in 0 .. m |-> IF j = 0 THEN base ELSE Step(h[j - 1], j)]
           T == {m \in Nat : \E h : Run(h, m)}
<1>1. \E h : Run(h, n) /\ iew' = h[n]
  <2>1. 0 \in T
    <3>1. Run([j \in 0 .. 0 |-> base], 0)
      OBVIOUS
    <3> QED
      BY <3>1
  <2>2. ASSUME NEW m \in T
        PROVE  m + 1 \in T
    <3>1. PICK h : Run(h, m)
      OBVIOUS
    <3> DEFINE g == [j \in 0 .. (m + 1) |-> IF j <= m THEN h[j] ELSE Step(h[m], m + 1)]
    <3> HIDE DEF base
    <3>2. \A j \in 0 .. m : h[j] = IF j = 0 THEN base ELSE Step(h[j - 1], j)
      <4> HIDE DEF Step
      <4> QED
        BY <3>1
    <3> HIDE DEF Step
    <3>3. \A j \in 0 .. (m + 1) : g[j] = IF j = 0 THEN base ELSE Step(g[j - 1], j)
      BY <3>2
    <3>4. Run(g, m + 1)
      BY <3>3
    <3> HIDE DEF g, Run
    <3> QED
      BY <3>4
  <2>3. T = Nat
    <3> HIDE DEF Run
    <3>1. T \subseteq Nat
      OBVIOUS
    <3> HIDE DEF T
    <3> QED
      BY <2>1, <2>2, <3>1, UpFromZero
  <2>4. n \in Nat
    BY WiringFacts
  <2>5. PICK h : Run(h, n)
    <3> HIDE DEF Run, n
    <3> QED
      BY <2>3, <2>4
  <2> QED
    BY <2>5 DEF Loop, Execute
<1>2. PICK h : Run(h, n) /\ iew' = h[n]
  BY <1>1
<1>3. \A j \in 0 .. n : h[j] = IF j = 0 THEN base ELSE Step(h[j - 1], j)
  <2> HIDE DEF Step, n, base
  <2> QED
    BY <1>2
<1>4. n \in Nat
  BY WiringFacts
<1> HIDE DEF Run
<1>5. h[0] = base /\ \A k \in 1 .. n : h[k] = Step(h[k - 1], k)
  <2> HIDE DEF Step, n, base
  <2> QED
    BY <1>3, <1>4
<1> QED
  BY <1>2, <1>5

LEMMA SelectionsRun ==
  ASSUME Wiring(cfg), NEW s \in DOMAIN cfg.sched, NEW start
  PROVE  \E h : /\ EvaluateSched(start, s) = h[cfg.sched[s].dequeWidth].m
                /\ h[0] = [m |-> start, go |-> TRUE]
                /\ \A k \in 1 .. cfg.sched[s].dequeWidth : h[k] = SelectOne(s, h[k - 1])
<1> DEFINE n == cfg.sched[s].dequeWidth
           base == [m |-> start, go |-> TRUE]
           Step(v, k) == SelectOne(s, v)
           Run(h, m) == h = [j \in 0 .. m |-> IF j = 0 THEN base ELSE Step(h[j - 1], j)]
           T == {m \in Nat : \E h : Run(h, m)}
<1>1. \E h : Run(h, n) /\ EvaluateSched(start, s) = h[n].m
  <2>1. 0 \in T
    <3>1. Run([j \in 0 .. 0 |-> base], 0)
      OBVIOUS
    <3> QED
      BY <3>1
  <2>2. ASSUME NEW m \in T
        PROVE  m + 1 \in T
    <3>1. PICK h : Run(h, m)
      OBVIOUS
    <3> DEFINE g == [j \in 0 .. (m + 1) |-> IF j <= m THEN h[j] ELSE Step(h[m], m + 1)]
    <3> HIDE DEF base
    <3>2. \A j \in 0 .. m : h[j] = IF j = 0 THEN base ELSE Step(h[j - 1], j)
      <4> HIDE DEF Step
      <4> QED
        BY <3>1
    <3> HIDE DEF Step
    <3>3. \A j \in 0 .. (m + 1) : g[j] = IF j = 0 THEN base ELSE Step(g[j - 1], j)
      BY <3>2
    <3>4. Run(g, m + 1)
      BY <3>3
    <3> HIDE DEF g, Run
    <3> QED
      BY <3>4
  <2>3. T = Nat
    <3> HIDE DEF Run
    <3>1. T \subseteq Nat
      OBVIOUS
    <3> HIDE DEF T
    <3> QED
      BY <2>1, <2>2, <3>1, UpFromZero
  <2>4. n \in Nat
    BY SchedFacts
  <2>5. PICK h : Run(h, n)
    <3> HIDE DEF Run, n
    <3> QED
      BY <2>3, <2>4
  <2> QED
    BY <2>5 DEF Loop, EvaluateSched
<1>2. PICK h : Run(h, n) /\ EvaluateSched(start, s) = h[n].m
  BY <1>1
<1>3. \A j \in 0 .. n : h[j] = IF j = 0 THEN base ELSE Step(h[j - 1], j)
  <2> HIDE DEF Step, n, base
  <2> QED
    BY <1>2
<1>4. n \in Nat
  BY SchedFacts
<1> HIDE DEF Run
<1>5. h[0] = base /\ \A k \in 1 .. n : h[k] = Step(h[k - 1], k)
  <2> HIDE DEF Step, n, base
  <2> QED
    BY <1>3, <1>4
<1> QED
  BY <1>2, <1>5

LEMMA IssueRuns ==
  ASSUME Wiring(cfg), Issue
  PROVE  \E h : /\ iew' = h[Len(cfg.sched)]
                /\ h[0] = iew
                /\ \A k \in 1 .. Len(cfg.sched) : h[k] = EvaluateSched(h[k - 1], k)
<1> DEFINE n == Len(cfg.sched)
           base == iew
           Step(v, k) == EvaluateSched(v, k)
           Run(h, m) == h = [j \in 0 .. m |-> IF j = 0 THEN base ELSE Step(h[j - 1], j)]
           T == {m \in Nat : \E h : Run(h, m)}
<1>1. \E h : Run(h, n) /\ iew' = h[n]
  <2>1. 0 \in T
    <3>1. Run([j \in 0 .. 0 |-> base], 0)
      OBVIOUS
    <3> QED
      BY <3>1
  <2>2. ASSUME NEW m \in T
        PROVE  m + 1 \in T
    <3>1. PICK h : Run(h, m)
      OBVIOUS
    <3> DEFINE g == [j \in 0 .. (m + 1) |-> IF j <= m THEN h[j] ELSE Step(h[m], m + 1)]
    <3> HIDE DEF base
    <3>2. \A j \in 0 .. m : h[j] = IF j = 0 THEN base ELSE Step(h[j - 1], j)
      <4> HIDE DEF Step
      <4> QED
        BY <3>1
    <3> HIDE DEF Step
    <3>3. \A j \in 0 .. (m + 1) : g[j] = IF j = 0 THEN base ELSE Step(g[j - 1], j)
      BY <3>2
    <3>4. Run(g, m + 1)
      BY <3>3
    <3> HIDE DEF g, Run
    <3> QED
      BY <3>4
  <2>3. T = Nat
    <3> HIDE DEF Run
    <3>1. T \subseteq Nat
      OBVIOUS
    <3> HIDE DEF T
    <3> QED
      BY <2>1, <2>2, <3>1, UpFromZero
  <2>4. n \in Nat
    BY WiringFacts
  <2>5. PICK h : Run(h, n)
    <3> HIDE DEF Run, n
    <3> QED
      BY <2>3, <2>4
  <2> QED
    BY <2>5 DEF Loop, Issue
<1>2. PICK h : Run(h, n) /\ iew' = h[n]
  BY <1>1
<1>3. \A j \in 0 .. n : h[j] = IF j = 0 THEN base ELSE Step(h[j - 1], j)
  <2> HIDE DEF Step, n, base
  <2> QED
    BY <1>2
<1>4. n \in Nat
  BY WiringFacts
<1> HIDE DEF Run
<1>5. h[0] = base /\ \A k \in 1 .. n : h[k] = Step(h[k - 1], k)
  <2> HIDE DEF Step, n, base
  <2> QED
    BY <1>3, <1>4
<1> QED
  BY <1>2, <1>5

LEMMA ReadPortsRun ==
  ASSUME Wiring(cfg), ReadOperand
  PROVE  \E h : /\ iew' = h[cfg.ports]
                /\ h[0] = iew
                /\ \A k \in 1 .. cfg.ports : h[k] = Deliver(h[k - 1], k)
<1> DEFINE n == cfg.ports
           base == iew
           Step(v, k) == Deliver(v, k)
           Run(h, m) == h = [j \in 0 .. m |-> IF j = 0 THEN base ELSE Step(h[j - 1], j)]
           T == {m \in Nat : \E h : Run(h, m)}
<1>1. \E h : Run(h, n) /\ iew' = h[n]
  <2>1. 0 \in T
    <3>1. Run([j \in 0 .. 0 |-> base], 0)
      OBVIOUS
    <3> QED
      BY <3>1
  <2>2. ASSUME NEW m \in T
        PROVE  m + 1 \in T
    <3>1. PICK h : Run(h, m)
      OBVIOUS
    <3> DEFINE g == [j \in 0 .. (m + 1) |-> IF j <= m THEN h[j] ELSE Step(h[m], m + 1)]
    <3> HIDE DEF base
    <3>2. \A j \in 0 .. m : h[j] = IF j = 0 THEN base ELSE Step(h[j - 1], j)
      <4> HIDE DEF Step
      <4> QED
        BY <3>1
    <3> HIDE DEF Step
    <3>3. \A j \in 0 .. (m + 1) : g[j] = IF j = 0 THEN base ELSE Step(g[j - 1], j)
      BY <3>2
    <3>4. Run(g, m + 1)
      BY <3>3
    <3> HIDE DEF g, Run
    <3> QED
      BY <3>4
  <2>3. T = Nat
    <3> HIDE DEF Run
    <3>1. T \subseteq Nat
      OBVIOUS
    <3> HIDE DEF T
    <3> QED
      BY <2>1, <2>2, <3>1, UpFromZero
  <2>4. n \in Nat
    BY WiringFacts
  <2>5. PICK h : Run(h, n)
    <3> HIDE DEF Run, n
    <3> QED
      BY <2>3, <2>4
  <2> QED
    BY <2>5 DEF Loop, ReadOperand
<1>2. PICK h : Run(h, n) /\ iew' = h[n]
  BY <1>1
<1>3. \A j \in 0 .. n : h[j] = IF j = 0 THEN base ELSE Step(h[j - 1], j)
  <2> HIDE DEF Step, n, base
  <2> QED
    BY <1>2
<1>4. n \in Nat
  BY WiringFacts
<1> HIDE DEF Run
<1>5. h[0] = base /\ \A k \in 1 .. n : h[k] = Step(h[k - 1], k)
  <2> HIDE DEF Step, n, base
  <2> QED
    BY <1>3, <1>4
<1> QED
  BY <1>2, <1>5

LEMMA TriesRun ==
  ASSUME NEW S, NEW pkg \in Seq(S)
  PROVE  \E h : /\ TryDispatch(pkg) = h[Len(pkg)].count
                /\ h[0] = [count |-> 0, go |-> TRUE, room |-> [s \in ToSet(cfg.top) |-> Min({GetAvailibleEntryCount(cfg.sched[s], Q(iew, s)), cfg.sched[s].enqueWidth})]]
                /\ \A k \in 1 .. Len(pkg) : h[k] = TryOne(h[k - 1], pkg[k])
<1> DEFINE n == Len(pkg)
           base == [count |-> 0, go |-> TRUE, room |-> [s \in ToSet(cfg.top) |-> Min({GetAvailibleEntryCount(cfg.sched[s], Q(iew, s)), cfg.sched[s].enqueWidth})]]
           Step(v, k) == TryOne(v, pkg[k])
           Run(h, m) == h = [j \in 0 .. m |-> IF j = 0 THEN base ELSE Step(h[j - 1], j)]
           T == {m \in Nat : \E h : Run(h, m)}
<1>1. \E h : Run(h, n) /\ TryDispatch(pkg) = h[n].count
  <2>1. 0 \in T
    <3>1. Run([j \in 0 .. 0 |-> base], 0)
      OBVIOUS
    <3> QED
      BY <3>1
  <2>2. ASSUME NEW m \in T
        PROVE  m + 1 \in T
    <3>1. PICK h : Run(h, m)
      OBVIOUS
    <3> DEFINE g == [j \in 0 .. (m + 1) |-> IF j <= m THEN h[j] ELSE Step(h[m], m + 1)]
    <3> HIDE DEF base
    <3>2. \A j \in 0 .. m : h[j] = IF j = 0 THEN base ELSE Step(h[j - 1], j)
      <4> HIDE DEF Step
      <4> QED
        BY <3>1
    <3> HIDE DEF Step
    <3>3. \A j \in 0 .. (m + 1) : g[j] = IF j = 0 THEN base ELSE Step(g[j - 1], j)
      <4>1. m \in Nat
        OBVIOUS
      <4> HIDE DEF T, Run, n
      <4> QED
        BY <3>2, <4>1
    <3>4. Run(g, m + 1)
      BY <3>3
    <3> HIDE DEF g, Run
    <3> QED
      BY <3>4
  <2>3. T = Nat
    <3> HIDE DEF Run
    <3>1. T \subseteq Nat
      OBVIOUS
    <3> HIDE DEF T
    <3> QED
      BY <2>1, <2>2, <3>1, UpFromZero
  <2>4. n \in Nat
    BY LenProperties
  <2>5. PICK h : Run(h, n)
    <3> HIDE DEF Run, n
    <3> QED
      BY <2>3, <2>4
  <2> QED
    BY <2>5 DEF Loop, TryDispatch
<1>2. PICK h : Run(h, n) /\ TryDispatch(pkg) = h[n].count
  BY <1>1
<1>3. \A j \in 0 .. n : h[j] = IF j = 0 THEN base ELSE Step(h[j - 1], j)
  <2> HIDE DEF Step, n, base
  <2> QED
    BY <1>2
<1>4. n \in Nat
  BY LenProperties
<1> HIDE DEF Run
<1>5. h[0] = base /\ \A k \in 1 .. n : h[k] = Step(h[k - 1], k)
  <2> HIDE DEF Step, n, base
  <2> QED
    BY <1>3, <1>4
<1> QED
  BY <1>2, <1>5

LEMMA DispatchRuns ==
  ASSUME Wiring(cfg), NEW pkg, Dispatch(pkg), Len(Renamed(Taken(pkg))) \in Nat
  PROVE  \E h : /\ iew' = h[Len(Renamed(Taken(pkg)))]
                /\ h[0] = [iew EXCEPT !.insn = @ \o Renamed(Taken(pkg))]
                /\ \A k \in 1 .. Len(Renamed(Taken(pkg))) : h[k] = DispatchInsn(h[k - 1], Len(iew.insn) + k)
<1> DEFINE n == Len(Renamed(Taken(pkg)))
           base == [iew EXCEPT !.insn = @ \o Renamed(Taken(pkg))]
           Step(v, k) == DispatchInsn(v, Len(iew.insn) + k)
           Run(h, m) == h = [j \in 0 .. m |-> IF j = 0 THEN base ELSE Step(h[j - 1], j)]
           T == {m \in Nat : \E h : Run(h, m)}
<1>1. \E h : Run(h, n) /\ iew' = h[n]
  <2>1. 0 \in T
    <3>1. Run([j \in 0 .. 0 |-> base], 0)
      OBVIOUS
    <3> QED
      BY <3>1
  <2>2. ASSUME NEW m \in T
        PROVE  m + 1 \in T
    <3>1. PICK h : Run(h, m)
      OBVIOUS
    <3> DEFINE g == [j \in 0 .. (m + 1) |-> IF j <= m THEN h[j] ELSE Step(h[m], m + 1)]
    <3> HIDE DEF base
    <3>2. \A j \in 0 .. m : h[j] = IF j = 0 THEN base ELSE Step(h[j - 1], j)
      <4> HIDE DEF Step
      <4> QED
        BY <3>1
    <3> HIDE DEF Step
    <3>3. \A j \in 0 .. (m + 1) : g[j] = IF j = 0 THEN base ELSE Step(g[j - 1], j)
      BY <3>2
    <3>4. Run(g, m + 1)
      BY <3>3
    <3> HIDE DEF g, Run
    <3> QED
      BY <3>4
  <2>3. T = Nat
    <3> HIDE DEF Run
    <3>1. T \subseteq Nat
      OBVIOUS
    <3> HIDE DEF T
    <3> QED
      BY <2>1, <2>2, <3>1, UpFromZero
  <2>4. n \in Nat
    OBVIOUS
  <2>5. PICK h : Run(h, n)
    <3> HIDE DEF Run, n
    <3> QED
      BY <2>3, <2>4
  <2> QED
    BY <2>5 DEF Loop, Dispatch
<1>2. PICK h : Run(h, n) /\ iew' = h[n]
  BY <1>1
<1>3. \A j \in 0 .. n : h[j] = IF j = 0 THEN base ELSE Step(h[j - 1], j)
  <2> HIDE DEF Step, n, base
  <2> QED
    BY <1>2
<1>4. n \in Nat
  OBVIOUS
<1> HIDE DEF Run
<1>5. h[0] = base /\ \A k \in 1 .. n : h[k] = Step(h[k - 1], k)
  <2> HIDE DEF Step, n, base
  <2> QED
    BY <1>3, <1>4
<1> QED
  BY <1>2, <1>5

-----------------------------------------------------------------------------
(* The queues.                                                             *)

LEMMA WithoutType ==
  ASSUME NEW S, NEW seq \in Seq(S), NEW gone
  PROVE  /\ Without(seq, gone) \in Seq(S)
         /\ \A k \in DOMAIN Without(seq, gone) : Without(seq, gone)[k] \notin gone
<1> DEFINE Step(h, k) == IF seq[k] \in gone THEN h[k - 1] ELSE Append(h[k - 1], seq[k])
           Good(v) == v \in Seq(S) /\ \A k \in DOMAIN v : v[k] \notin gone
<1>1. PICK h : /\ Without(seq, gone) = h[Len(seq)] /\ h[0] = <<>>
               /\ \A k \in 1 .. Len(seq) : h[k] = Step(h, k)
  BY RemovalRuns
<1> DEFINE T == {k \in Nat : k <= Len(seq) => Good(h[k])}
<1>2. 0 \in T
  <2>1. Good(<<>>)
    OBVIOUS
  <2> QED
    BY <1>1, <2>1
<1>3. ASSUME NEW k \in T
      PROVE  k + 1 \in T
  <2> SUFFICES ASSUME k + 1 <= Len(seq) PROVE Good(h[k + 1])
    OBVIOUS
  <2>1. Good(h[k]) /\ h[k + 1] = IF seq[k + 1] \in gone THEN h[k] ELSE Append(h[k], seq[k + 1])
    BY <1>1
  <2>2. seq[k + 1] \in S
    OBVIOUS
  <2> QED
    BY <2>1, <2>2
<1>4. T = Nat
  <2>1. T \subseteq Nat
    OBVIOUS
  <2> HIDE DEF T
  <2> QED
    BY <1>2, <1>3, <2>1, UpFromZero
<1>5. Len(seq) \in T
  BY <1>4
<1> QED
  BY <1>1, <1>5

LEMMA QueueVacant ==
  ASSUME NEW c, c.order \in Orders, c.entries \in Nat \ {0}, NEW S
  PROVE  Vacant(c) \in QueueState(c, S)
<1>1. [i \in 1 .. c.entries |-> i - 1] \in Seq(Indices(c))
  BY DEF QueueState, Indices
<1>2. [i \in Indices(c) |-> Nil] \in Slots(c, S)
  BY DEF Slots
<1>3. <<>> \in Seq(Indices(c))
  OBVIOUS
<1>4. CASE c.order = "In-Order"
  BY <1>2, <1>4 DEF QueueState, Vacant, RingState, Indices
<1>5. CASE c.order = "In-Age-Order"
  <2> DEFINE free == [i \in 1 .. c.entries |-> i - 1]
  <2>1. Vacant(c) = [slots |-> [i \in Indices(c) |-> Nil], bust |-> <<>>, free |-> free]
    BY <1>5 DEF Vacant
  <2>2. Apart(free, <<>>)
    BY DEF Apart
  <2> HIDE DEF free
  <2>3. Vacant(c) \in AgeState(c, S)
    BY <1>1, <1>2, <1>3, <2>1, <2>2, SMTT(40) DEF AgeState, AgeFields, free
  <2> QED
    BY <1>5, <2>3 DEF QueueState
<1>6. CASE c.order = "Out-of-Order"
  BY <1>2, <1>6 DEF QueueState, Vacant, BagState
<1> QED
  BY <1>4, <1>5, <1>6 DEF Orders

LEMMA QueueReset ==
  ASSUME NEW c, c.order \in Orders, c.entries \in Nat \ {0}, NEW S,
         NEW q \in QueueState(c, S)
  PROVE  ResetQueue(c, q) \in QueueState(c, S)
<1>1. CASE c.order = "In-Order"
  BY <1>1, QueueVacant DEF ResetQueue
<1>2. CASE c.order = "In-Age-Order"
  <2>1. Vacant(c) \in AgeState(c, S) /\ q \in AgeState(c, S)
    BY <1>2, QueueVacant DEF QueueState
  <2> DEFINE v == Vacant(c)
             r == [v EXCEPT !.slots = q.slots]
  <2> HIDE DEF v
  <2>2. r \in AgeFields(c, S) /\ r.free = v.free /\ r.bust = v.bust
    BY <2>1 DEF AgeState, AgeFields, v
  <2>3. r \in AgeState(c, S)
    BY <2>1, <2>2 DEF AgeState, v
  <2> QED
    BY <1>2, <2>3 DEF QueueState, ResetQueue, v
<1>3. CASE c.order = "Out-of-Order"
  BY <1>3 DEF QueueState, ResetQueue, BagState
<1> QED
  BY <1>1, <1>2, <1>3 DEF Orders

LEMMA QueueNextIndex ==
  ASSUME NEW c, c.order \in Orders, c.entries \in Nat \ {0}, NEW S,
         NEW q \in QueueState(c, S), GetAvailibleEntryCount(c, q) # 0
  PROVE  /\ NextIndex(c, q) \in Int
         /\ c.order # "Out-of-Order" => NextIndex(c, q) \in Indices(c)
<1>1. CASE c.order = "In-Order"
  <2>1. q.header \in Indices(c) /\ q.usage \in Nat
    BY <1>1 DEF QueueState, RingState
  <2> QED
    BY <1>1, <2>1 DEF QueueState, NextIndex, Indices
<1>2. CASE c.order = "In-Age-Order"
  <2>1. q.free \in Seq(Indices(c)) /\ q.free # <<>>
    BY <1>2 DEF QueueState, AgeState, AgeFields, GetAvailibleEntryCount
  <2>2. Head(q.free) \in Indices(c)
    BY <2>1
  <2> QED
    BY <1>2, <2>2 DEF NextIndex, Indices
<1>3. CASE c.order = "Out-of-Order"
  <2>1. (Indices(c) \ q.valid) \union {c.entries} \subseteq Nat
    BY DEF QueueState, Indices
  <2> QED
    BY <1>3, <2>1, MinOfNats DEF NextIndex
<1> QED
  BY <1>1, <1>2, <1>3 DEF Orders

LEMMA QueueAllocate ==
  ASSUME NEW c, c.order \in Orders, c.entries \in Nat \ {0}, NEW S,
         NEW q \in QueueState(c, S), GetAvailibleEntryCount(c, q) # 0
  PROVE  AllocateEntry(c, q) \in QueueState(c, S)
<1>1. CASE c.order = "In-Order"
  BY <1>1 DEF QueueState, AllocateEntry, RingState, GetAvailibleEntryCount
<1>2. CASE c.order = "In-Age-Order"
  <2>1. NextIndex(c, q) \in Indices(c)
    BY <1>2, QueueNextIndex
  <2>2. q \in AgeState(c, S) /\ q.free # <<>>
    BY <1>2 DEF QueueState, AgeState, AgeFields, GetAvailibleEntryCount
  <2>3. q.free \in Seq(Indices(c)) /\ q.bust \in Seq(Indices(c)) /\ q.slots \in Slots(c, S)
    BY <2>2 DEF AgeState, AgeFields
  <2>4. Tail(q.free) \in Seq(Indices(c)) /\ Append(q.bust, NextIndex(c, q)) \in Seq(Indices(c))
    BY <2>1, <2>2, <2>3
  <2>5. [q.slots EXCEPT ![NextIndex(c, q)] = Nil] \in Slots(c, S)
    BY <2>3 DEF Slots
  <2>6. Apart(Tail(q.free), Append(q.bust, NextIndex(c, q)))
    <3>1. NextIndex(c, q) = q.free[1] /\ Apart(q.free, q.bust)
      BY <1>2, <2>2, <2>3 DEF NextIndex, AgeState
    <3>2. \A j \in DOMAIN Tail(q.free) : /\ j + 1 \in DOMAIN q.free /\ j + 1 # 1
                                         /\ Tail(q.free)[j] = q.free[j + 1] /\ j \in Nat
      BY <2>2, <2>3
    <3>3. 1 \in DOMAIN q.free
      BY <2>2, <2>3
    <3>4. \A k \in DOMAIN Append(q.bust, NextIndex(c, q)) :
            \/ k \in DOMAIN q.bust /\ Append(q.bust, NextIndex(c, q))[k] = q.bust[k]
            \/ Append(q.bust, NextIndex(c, q))[k] = q.free[1]
      BY <2>3, <3>1
    <3> DEFINE f == Tail(q.free)
               b == Append(q.bust, NextIndex(c, q))
    <3>5. ASSUME NEW j \in DOMAIN f, NEW k \in DOMAIN f, f[j] = f[k]
          PROVE  j = k
      <4>1. q.free[j + 1] = q.free[k + 1] /\ j + 1 \in DOMAIN q.free /\ k + 1 \in DOMAIN q.free
            /\ j \in Nat /\ k \in Nat
        BY <3>2, <3>5
      <4>2. j + 1 = k + 1
        BY <3>1, <4>1 DEF Apart
      <4> QED
        BY <4>1, <4>2
    <3>6. ASSUME NEW j \in DOMAIN f, NEW k \in DOMAIN b
          PROVE  f[j] # b[k]
      <4>1. f[j] = q.free[j + 1] /\ j + 1 \in DOMAIN q.free /\ j + 1 # 1
        BY <3>2
      <4>2. \/ k \in DOMAIN q.bust /\ b[k] = q.bust[k]
            \/ b[k] = q.free[1]
        BY <3>4
      <4> HIDE DEF f, b
      <4> QED
        BY <3>1, <3>3, <4>1, <4>2 DEF Apart
    <3> QED
      BY <3>5, <3>6 DEF Apart
  <2> DEFINE r == [q EXCEPT !.free = Tail(@), !.bust = Append(@, NextIndex(c, q)),
                            !.slots[NextIndex(c, q)] = Nil]
  <2>7. /\ r \in AgeFields(c, S) /\ r.free = Tail(q.free)
        /\ r.bust = Append(q.bust, NextIndex(c, q))
    BY <2>2, <2>4, <2>5 DEF AgeState, AgeFields
  <2>8. AllocateEntry(c, q) = r
    BY <1>2 DEF AllocateEntry
  <2> HIDE DEF r
  <2>9. r \in AgeState(c, S)
    BY <2>6, <2>7 DEF AgeState
  <2> QED
    BY <1>2, <2>8, <2>9 DEF QueueState
<1>3. CASE c.order = "Out-of-Order"
  <2>1. q \in BagState(c, S)
    BY <1>3 DEF QueueState
  <2>2. ASSUME NEW i \in Indices(c)
        PROVE  [q EXCEPT !.valid = @ \union {i}, !.usage = @ + 1] \in BagState(c, S)
    <3>1. q.valid \union {i} \in SUBSET Indices(c) /\ q.usage + 1 \in 0 .. c.entries
      BY <1>3, <2>1 DEF BagState, GetAvailibleEntryCount
    <3> QED
      BY <2>1, <3>1 DEF BagState
  <2> QED
    BY <1>3, <2>1, <2>2 DEF QueueState, AllocateEntry
<1> QED
  BY <1>1, <1>2, <1>3 DEF Orders

\* A slot that can be given back: of a queue that counts, or in use.
MayLeave(c, q, i) ==
  IF c.order = "In-Age-Order" THEN i \in ToSet(q.bust) ELSE q.usage # 0

LEMMA MayLeaveAllocated ==
  ASSUME NEW c, c.order \in Orders, c.entries \in Nat \ {0}, NEW S,
         NEW q \in QueueState(c, S), NEW i, MayLeave(c, q, i)
  PROVE  MayLeave(c, AllocateEntry(c, q), i)
<1>1. CASE c.order = "In-Order"
  <2>1. q \in RingState(c, S) /\ q.usage # 0
    BY <1>1 DEF QueueState, MayLeave
  <2>2. AllocateEntry(c, q) = [q EXCEPT !.usage = @ + 1]
    BY <1>1 DEF AllocateEntry
  <2>3. AllocateEntry(c, q).usage = q.usage + 1 /\ q.usage \in Nat
    BY <2>1, <2>2 DEF RingState
  <2> QED
    BY <1>1, <2>3 DEF MayLeave
<1>2. CASE c.order = "In-Age-Order"
  <2>1. q \in AgeState(c, S) /\ i \in ToSet(q.bust)
    BY <1>2 DEF QueueState, MayLeave
  <2>2. AllocateEntry(c, q).bust = Append(q.bust, NextIndex(c, q)) /\ q.bust \in Seq(Indices(c))
    BY <1>2, <2>1 DEF AllocateEntry, AgeState, AgeFields
  <2>3. ToSet(q.bust) \subseteq ToSet(Append(q.bust, NextIndex(c, q)))
    BY <2>2, SMTT(40) DEF ToSet
  <2> QED
    BY <1>2, <2>1, <2>2, <2>3 DEF MayLeave
<1>3. CASE c.order = "Out-of-Order"
  <2>1. q \in BagState(c, S) /\ q.usage # 0
    BY <1>3 DEF QueueState, MayLeave
  <2>2. AllocateEntry(c, q).usage \in {q.usage, q.usage + 1} /\ q.usage \in Nat
    BY <1>3, <2>1 DEF AllocateEntry, BagState
  <2> QED
    BY <1>3, <2>1, <2>2 DEF MayLeave
<1> QED
  BY <1>1, <1>2, <1>3 DEF Orders

LEMMA WithoutLess ==
  ASSUME NEW S, NEW seq \in Seq(S), NEW gone
  PROVE  ToSet(Without(seq, gone)) \subseteq ToSet(seq)
<1>1. seq \in Seq(ToSet(seq))
  BY DEF ToSet
<1>2. Without(seq, gone) \in Seq(ToSet(seq))
  BY <1>1, WithoutType
<1> QED
  BY <1>2 DEF ToSet

LEMMA QueueDeallocate ==
  ASSUME NEW c, c.order \in Orders, c.entries \in Nat \ {0}, NEW S,
         NEW q \in QueueState(c, S), NEW i \in Indices(c), MayLeave(c, q, i)
  PROVE  Deallocate(c, q, i) \in QueueState(c, S)
<1>1. CASE c.order = "In-Order"
  <2>1. q \in RingState(c, S)
    BY <1>1 DEF QueueState
  <2>2. (q.header + 1) % c.entries \in Indices(c) /\ q.usage - 1 \in 0 .. c.entries
    BY <1>1, <2>1 DEF RingState, Indices, MayLeave
  <2> QED
    BY <1>1, <2>1, <2>2 DEF QueueState, Deallocate, RingState
<1>2. CASE c.order = "In-Age-Order"
  <2>1. q \in AgeState(c, S)
    BY <1>2 DEF QueueState
  <2>2. q.free \in Seq(Indices(c)) /\ q.bust \in Seq(Indices(c)) /\ q.slots \in Slots(c, S)
    BY <2>1 DEF AgeState, AgeFields
  <2>3. Append(q.free, i) \in Seq(Indices(c)) /\ Without(q.bust, {i}) \in Seq(Indices(c))
    BY <2>2, WithoutType
  <2>4. [q.slots EXCEPT ![i] = Nil] \in Slots(c, S)
    BY <2>2 DEF Slots
  <2> DEFINE bust == Without(q.bust, {i})
             free == Append(q.free, i)
  <2>5. Apart(q.free, q.bust) /\ i \in ToSet(q.bust)
    BY <1>2, <2>1 DEF AgeState, MayLeave
  <2>6. ToSet(bust) \subseteq ToSet(q.bust) /\ \A k \in DOMAIN bust : bust[k] # i
    BY <2>2, WithoutType, WithoutLess
  <2>7. \A k \in DOMAIN bust : \E j \in DOMAIN q.bust : bust[k] = q.bust[j]
    BY <2>6 DEF ToSet
  <2>8. PICK l \in DOMAIN q.bust : i = q.bust[l]
    BY <2>5 DEF ToSet
  <2> HIDE DEF bust
  <2>9. \A j \in DOMAIN free :
          \/ j \in DOMAIN q.free /\ free[j] = q.free[j]
          \/ j = Len(q.free) + 1 /\ free[j] = i
    <3>1. Len(q.free) \in Nat /\ DOMAIN q.free = 1 .. Len(q.free)
      BY <2>2
    <3>2. DOMAIN free = 1 .. (Len(q.free) + 1)
      BY <2>2
    <3>3. \A j \in 1 .. Len(q.free) : free[j] = q.free[j]
      BY <2>2
    <3>4. free[Len(q.free) + 1] = i
      BY <2>2
    <3> HIDE DEF free
    <3>5. \A n \in Nat : \A j \in 1 .. (n + 1) : j \in 1 .. n \/ j = n + 1
      OBVIOUS
    <3>6. \A j \in DOMAIN free : j \in DOMAIN q.free \/ j = Len(q.free) + 1
      BY <3>1, <3>2, <3>5
    <3> QED
      BY <3>1, <3>3, <3>4, <3>6
  <2> HIDE DEF free
  <2>10. Apart(free, bust)
    BY <2>5, <2>6, <2>7, <2>8, <2>9 DEF Apart
  <2> DEFINE r == [q EXCEPT !.free = free, !.bust = bust, !.slots[i] = Nil]
  <2>11. r \in AgeFields(c, S) /\ r.free = free /\ r.bust = bust
    BY <2>1, <2>3, <2>4 DEF AgeState, AgeFields, free, bust
  <2>12. Deallocate(c, q, i) = r
    BY <1>2 DEF Deallocate, free, bust
  <2> HIDE DEF r
  <2>13. r \in AgeState(c, S)
    BY <2>10, <2>11 DEF AgeState
  <2> QED
    BY <1>2, <2>12, <2>13 DEF QueueState
<1>3. CASE c.order = "Out-of-Order"
  <2>1. q \in BagState(c, S)
    BY <1>3 DEF QueueState
  <2>2. [q.slots EXCEPT ![i] = Nil] \in Slots(c, S)
    BY <2>1 DEF BagState, Slots
  <2>3. q.valid \ {i} \in SUBSET Indices(c) /\ q.usage - 1 \in 0 .. c.entries
    BY <1>3, <2>1 DEF BagState, MayLeave
  <2>4. [q EXCEPT !.valid = @ \ {i}, !.slots[i] = Nil, !.usage = @ - 1] \in BagState(c, S)
    BY <2>1, <2>2, <2>3 DEF BagState
  <2> QED
    BY <1>3, <2>4 DEF QueueState, Deallocate
<1> QED
  BY <1>1, <1>2, <1>3 DEF Orders

LEMMA QueueDispatch ==
  ASSUME NEW c, c.order \in Orders, c.entries \in Nat \ {0}, NEW S,
         NEW q \in QueueState(c, S), NEW enq \in Seq([index : Int, id : S])
  PROVE  DispatchEntries(q, enq) \in QueueState(c, S)
<1> DEFINE E == [index : Int, id : S]
           new == [i \in DOMAIN q.slots |->
                     LET last == {k \in DOMAIN enq : enq[k].index = i}
                     IN  IF last = {} THEN q.slots[i] ELSE enq[Max(last)].id]
<1>1. q.slots \in Slots(c, S)
  BY DEF QueueState, RingState, AgeState, AgeFields, BagState, Orders
<1>2. \A k \in DOMAIN enq : enq[k] \in E
  <2> HIDE DEF E
  <2>1. enq \in Seq(E)
    BY DEF E
  <2> QED
    BY <2>1
<1>3. new \in Slots(c, S)
  <2>1. ASSUME NEW i \in Indices(c), NEW last, last = {k \in DOMAIN enq : enq[k].index = i},
               last # {}
        PROVE  enq[Max(last)].id \in S
    <3>1. Len(enq) \in Nat /\ DOMAIN enq = 1 .. Len(enq)
      OBVIOUS
    <3>2. last \subseteq 0 .. Len(enq)
      BY <2>1, <3>1
    <3>3. Max(last) \in last
      BY <2>1, <3>1, <3>2, LargestOfSet
    <3> QED
      BY <1>2, <2>1, <3>3
  <2> QED
    BY <1>1, <2>1 DEF Slots
<1>4. DispatchEntries(q, enq) = [q EXCEPT !.slots = new]
  BY DEF DispatchEntries
<1> HIDE DEF new
<1>5. CASE c.order = "In-Age-Order"
  <2> DEFINE r == [q EXCEPT !.slots = new]
  <2>1. q \in AgeState(c, S)
    BY <1>5 DEF QueueState
  <2>2. r \in AgeFields(c, S) /\ r.free = q.free /\ r.bust = q.bust
    BY <1>3, <2>1 DEF AgeState, AgeFields
  <2> HIDE DEF r
  <2>3. r \in AgeState(c, S)
    BY <2>1, <2>2 DEF AgeState
  <2> QED
    BY <1>4, <1>5, <2>3 DEF QueueState, r
<1>6. CASE c.order # "In-Age-Order"
  BY <1>3, <1>4, <1>6 DEF QueueState, RingState, BagState, Orders
<1> QED
  BY <1>5, <1>6

LEMMA QueueGrows ==
  ASSUME NEW c, c.order \in Orders, c.entries \in Nat \ {0}, NEW S, NEW T, S \subseteq T
  PROVE  SchedState(c, S) \subseteq SchedState(c, T)
<1>2. Slots(c, S) \subseteq Slots(c, T)
  BY DEF Slots
<1>3. QueueState(c, S) \subseteq QueueState(c, T)
  BY <1>2 DEF QueueState, RingState, AgeState, AgeFields, BagState, Orders
<1>4. Seq([index : Int, id : S]) \subseteq Seq([index : Int, id : T])
  <2>1. [index : Int, id : S] \subseteq [index : Int, id : T]
    OBVIOUS
  <2> QED
    BY <2>1, SeqGrows
<1> QED
  BY <1>3, <1>4 DEF SchedState

-----------------------------------------------------------------------------
(* One part at a time.                                                     *)

LEMMA SoundParts ==
  ASSUME NEW m, NEW done, Sound(m, done)
  PROVE  Parts(m)
BY DEF Sound

LEMMA SoundUnit ==
  ASSUME NEW m, NEW done, Sound(m, done), NEW u \in DOMAIN cfg.unit,
         NEW x \in UnitState(Complete(m.insn))
  PROVE  /\ Sound([m EXCEPT !.unit[u] = x], done)
         /\ [m EXCEPT !.unit[u] = x].insn = m.insn
<1> DEFINE n == [m EXCEPT !.unit[u] = x]
<1>1. /\ n.sched = m.sched /\ n.port = m.port /\ n.wb = m.wb /\ n.ldq = m.ldq
      /\ n.redirect = m.redirect /\ n.insn = m.insn /\ n.fired = m.fired
      /\ n.unit = [m.unit EXCEPT ![u] = x] /\ Parts(n)
  BY SoundParts DEF Parts
<1>2. n.unit \in [DOMAIN cfg.unit -> UnitState(Complete(m.insn))]
  BY <1>1 DEF Sound
<1> HIDE DEF n
<1> QED
  BY <1>1, <1>2 DEF Sound, n

LEMMA SoundPort ==
  ASSUME NEW m, NEW done, Sound(m, done), NEW p \in 1 .. cfg.ports,
         NEW b \in Latch(Entry(m.insn, done))
  PROVE  /\ Sound([m EXCEPT !.port[p] = b], done)
         /\ [m EXCEPT !.port[p] = b].insn = m.insn
<1> DEFINE n == [m EXCEPT !.port[p] = b]
<1>1. /\ n.sched = m.sched /\ n.unit = m.unit /\ n.wb = m.wb /\ n.ldq = m.ldq
      /\ n.redirect = m.redirect /\ n.insn = m.insn /\ n.fired = m.fired
      /\ n.port = [m.port EXCEPT ![p] = b] /\ Parts(n)
  BY SoundParts DEF Parts
<1>2. n.port \in [1 .. cfg.ports -> Latch(Entry(m.insn, done))]
  BY <1>1 DEF Sound
<1> HIDE DEF n
<1> QED
  BY <1>1, <1>2 DEF Sound, n

LEMMA SoundWb ==
  ASSUME NEW m, NEW done, Sound(m, done), NEW w \in DOMAIN cfg.wb,
         NEW b \in Latch(Complete(m.insn))
  PROVE  /\ Sound([m EXCEPT !.wb[w] = b], done)
         /\ [m EXCEPT !.wb[w] = b].insn = m.insn
<1> DEFINE n == [m EXCEPT !.wb[w] = b]
<1>1. /\ n.sched = m.sched /\ n.unit = m.unit /\ n.port = m.port /\ n.ldq = m.ldq
      /\ n.redirect = m.redirect /\ n.insn = m.insn /\ n.fired = m.fired
      /\ n.wb = [m.wb EXCEPT ![w] = b] /\ Parts(n)
  BY SoundParts DEF Parts
<1>2. n.wb \in [DOMAIN cfg.wb -> Latch(Complete(m.insn))]
  BY <1>1 DEF Sound
<1> HIDE DEF n
<1> QED
  BY <1>1, <1>2 DEF Sound, n

LEMMA SoundSched ==
  ASSUME NEW m, NEW done, Sound(m, done), NEW s \in DOMAIN cfg.sched,
         NEW x \in SchedState(cfg.sched[s], DOMAIN m.insn)
  PROVE  /\ Sound([m EXCEPT !.sched[s] = x], done)
         /\ [m EXCEPT !.sched[s] = x].insn = m.insn
<1> DEFINE n == [m EXCEPT !.sched[s] = x]
<1>1. /\ n.unit = m.unit /\ n.port = m.port /\ n.wb = m.wb /\ n.ldq = m.ldq
      /\ n.redirect = m.redirect /\ n.insn = m.insn /\ n.fired = m.fired
      /\ n.sched = [m.sched EXCEPT ![s] = x] /\ Parts(n)
  BY SoundParts DEF Parts
<1>2. /\ DOMAIN n.sched = DOMAIN cfg.sched
      /\ \A t \in DOMAIN cfg.sched :
           n.sched[t] \in SchedState(cfg.sched[t], DOMAIN m.insn)
  BY <1>1 DEF Sound
<1> HIDE DEF n
<1> QED
  BY <1>1, <1>2 DEF Sound, n

LEMMA SoundLdq ==
  ASSUME NEW m, NEW done, Sound(m, done), NEW l \in Seq(Complete(m.insn))
  PROVE  /\ Sound([m EXCEPT !.ldq = l], done)
         /\ [m EXCEPT !.ldq = l].insn = m.insn
<1> DEFINE n == [m EXCEPT !.ldq = l]
<1>1. /\ n.unit = m.unit /\ n.port = m.port /\ n.wb = m.wb /\ n.ldq = l
      /\ n.redirect = m.redirect /\ n.insn = m.insn /\ n.fired = m.fired
      /\ n.sched = m.sched /\ Parts(n)
  BY SoundParts DEF Parts
<1> HIDE DEF n
<1> QED
  BY <1>1 DEF Sound, n

LEMMA SoundFires ==
  ASSUME NEW m, NEW done, Sound(m, done), NEW failed, NEW name
  PROVE  /\ Sound(Fires(m, failed, name), done)
         /\ Fires(m, failed, name).insn = m.insn
         /\ Fires(m, failed, name).sched = m.sched
         /\ Fires(m, failed, name).unit = m.unit
         /\ Fires(m, failed, name).port = m.port
         /\ Fires(m, failed, name).wb = m.wb
         /\ Fires(m, failed, name).ldq = m.ldq
<1> DEFINE n == [m EXCEPT !.fired = @ \union {name}]
<1>1. /\ n.unit = m.unit /\ n.port = m.port /\ n.wb = m.wb /\ n.ldq = m.ldq
      /\ n.redirect = m.redirect /\ n.insn = m.insn /\ n.sched = m.sched /\ Parts(n)
  BY SoundParts DEF Parts
<1>2. Fires(m, failed, name) \in {m, n}
  BY DEF Fires
<1> HIDE DEF n
<1>3. Sound(n, done)
  BY <1>1 DEF Sound
<1> QED
  BY <1>1, <1>2, <1>3

LEMMA UnitFields ==
  ASSUME NEW m, NEW done, Sound(m, done), NEW u \in DOMAIN cfg.unit
  PROVE  m.unit[u] \in UnitState(Complete(m.insn))
BY DEF Sound

LEMMA IssueToUnitSound ==
  ASSUME NEW m, NEW done, Sound(m, done), NEW u \in DOMAIN cfg.unit,
         NEW id \in Complete(m.insn)
  PROVE  Sound(IssueToUnit(m, u, id), done) /\ IssueToUnit(m, u, id).insn = m.insn
<1> DEFINE n == Fires(m, m.unit[u].pipe.in # <<>>, "FuncUnit issued twice in a cycle")
           x == [n.unit[u] EXCEPT !.taken = TRUE, !.pipe = TB!Set(@, id)]
<1>1. Sound(n, done) /\ n.insn = m.insn
  <2>1. ASSUME NEW failed, NEW name
        PROVE  Sound(Fires(m, failed, name), done) /\ Fires(m, failed, name).insn = m.insn
    BY SoundFires
  <2> QED
    BY <2>1
<1> HIDE DEF n
<1>2. n.unit[u] \in UnitState(Complete(n.insn))
  BY <1>1, UnitFields
<1>3. x \in UnitState(Complete(n.insn))
  <2>1. TB!Set(n.unit[u].pipe, id) \in Latch(Complete(n.insn))
    BY <1>1, <1>2, LatchSet DEF UnitState
  <2> QED
    BY <1>2, <2>1 DEF UnitState
<1>4. IssueToUnit(m, u, id) = [n EXCEPT !.unit[u] = x]
  <2>1. u \in DOMAIN n.unit /\ n = [sched |-> n.sched, unit |-> n.unit, port |-> n.port,
          wb |-> n.wb, ldq |-> n.ldq, redirect |-> n.redirect, insn |-> n.insn,
          fired |-> n.fired]
    BY <1>1 DEF Sound, Parts
  <2> QED
    BY <1>2, <2>1, ZenonT(40) DEF IssueToUnit, n, UnitState
<1> HIDE DEF x
<1> QED
  BY <1>1, <1>3, <1>4, SoundUnit

LEMMA IssueToUnitSched ==
  ASSUME NEW m, NEW done, Sound(m, done), NEW u \in DOMAIN cfg.unit, NEW id
  PROVE  IssueToUnit(m, u, id).sched = m.sched
<1>1. Parts(m)
  BY SoundParts
<1> QED
  BY <1>1 DEF IssueToUnit, Fires, Parts

\* A scheduler after an allocation, and with one more entry on its way.
Allocated(c, x) == [x EXCEPT !.q = AllocateEntry(c, @), !.room = @ - 1]
Enqueued(x, i, id) == [x EXCEPT !.enq = Append(@, [index |-> i, id |-> id])]

LEMMA SchedFields ==
  ASSUME NEW m, NEW done, Sound(m, done), NEW s \in DOMAIN cfg.sched
  PROVE  /\ m.sched[s] \in SchedState(cfg.sched[s], DOMAIN m.insn)
         /\ m.sched[s].q \in QueueState(cfg.sched[s], DOMAIN m.insn)
         /\ s \in DOMAIN m.sched
BY DEF Sound, SchedState

LEMMA AllocateInSound ==
  ASSUME Wiring(cfg), NEW m, NEW done, Sound(m, done), NEW s \in DOMAIN cfg.sched,
         ~SchedBusy(m, s)
  PROVE  /\ Sound(AllocateIn(m, s), done) /\ AllocateIn(m, s).insn = m.insn
         /\ AllocateIn(m, s).unit = m.unit /\ AllocateIn(m, s).port = m.port
         /\ AllocateIn(m, s).sched =
              [m.sched EXCEPT ![s] = Allocated(cfg.sched[s], m.sched[s])]
<1> DEFINE c == cfg.sched[s]
           failed == NextIndex(c, m.sched[s].q) \notin Indices(c)
           n == Fires(m, failed, "Allocate When there is no available entry!")
           x == [m.sched[s] EXCEPT !.q = AllocateEntry(c, @), !.room = @ - 1]
<1>1. /\ Sound(n, done) /\ n.insn = m.insn /\ n.sched = m.sched /\ n.unit = m.unit
      /\ n.port = m.port
  <2>1. ASSUME NEW f, NEW name
        PROVE  /\ Sound(Fires(m, f, name), done) /\ Fires(m, f, name).insn = m.insn
               /\ Fires(m, f, name).sched = m.sched /\ Fires(m, f, name).unit = m.unit
               /\ Fires(m, f, name).port = m.port
    BY SoundFires
  <2> QED
    BY <2>1
<1>2. m.sched[s] \in SchedState(c, DOMAIN m.insn) /\ s \in DOMAIN m.sched
  BY SchedFields
<1>3. m.sched[s].q \in QueueState(c, DOMAIN m.insn)
  BY SchedFields
<1>4. c.order \in Orders /\ c.entries \in Nat \ {0} /\ c.enqueWidth \in Nat
  BY SchedFacts
<1>5. m.sched[s].room # 0 /\ GetAvailibleEntryCount(c, m.sched[s].q) # 0
  BY DEF SchedBusy
<1>6. AllocateEntry(c, m.sched[s].q) \in QueueState(c, DOMAIN m.insn)
  BY <1>3, <1>4, <1>5, QueueAllocate
<1>7. m.sched[s].room - 1 \in 0 .. c.enqueWidth
  BY <1>2, <1>4, <1>5 DEF SchedState
<1> HIDE DEF c
<1>8. x \in SchedState(c, DOMAIN m.insn)
  BY <1>2, <1>6, <1>7 DEF SchedState
<1> HIDE DEF n
<1>9. Parts(n)
  BY <1>1, SoundParts
<1>10. AllocateIn(m, s) = [n EXCEPT !.sched[s] = x]
  <2>1. [n EXCEPT !.sched[s].q = AllocateEntry(c, @), !.sched[s].room = @ - 1] =
        [n EXCEPT !.sched[s] = x]
    BY <1>1, <1>2, <1>9 DEF Parts, SchedState
  <2> QED
    BY <2>1 DEF AllocateIn, n, c
<1> HIDE DEF x
<1>11. Sound([n EXCEPT !.sched[s] = x], done) /\ [n EXCEPT !.sched[s] = x].insn = m.insn
  BY <1>1, <1>8, SoundSched DEF c
<1>12. /\ [n EXCEPT !.sched[s] = x].unit = m.unit
       /\ [n EXCEPT !.sched[s] = x].port = m.port
       /\ [n EXCEPT !.sched[s] = x].sched = [m.sched EXCEPT ![s] = x]
  BY <1>1, <1>9 DEF Parts
<1>13. x = Allocated(cfg.sched[s], m.sched[s])
  BY DEF x, c, Allocated
<1> QED
  BY <1>10, <1>11, <1>12, <1>13

LEMMA ScheduleSound ==
  ASSUME NEW m, NEW done, Sound(m, done), NEW s \in DOMAIN cfg.sched, NEW i \in Int,
         NEW id \in DOMAIN m.insn
  PROVE  /\ Sound(Schedule(m, s, i, id), done) /\ Schedule(m, s, i, id).insn = m.insn
         /\ Schedule(m, s, i, id).unit = m.unit /\ Schedule(m, s, i, id).port = m.port
         /\ Schedule(m, s, i, id).sched =
              [m.sched EXCEPT ![s] = Enqueued(m.sched[s], i, id)]
<1> DEFINE x == [m.sched[s] EXCEPT !.enq = Append(@, [index |-> i, id |-> id])]
<1>1. m.sched[s] \in SchedState(cfg.sched[s], DOMAIN m.insn) /\ s \in DOMAIN m.sched
  BY SchedFields
<1>2. Append(m.sched[s].enq, [index |-> i, id |-> id]) \in Seq([index : Int, id : DOMAIN m.insn])
  <2> DEFINE E == [index : Int, id : DOMAIN m.insn]
  <2>1. m.sched[s].enq \in Seq(E) /\ [index |-> i, id |-> id] \in E
    BY <1>1 DEF SchedState
  <2> HIDE DEF E
  <2>2. Append(m.sched[s].enq, [index |-> i, id |-> id]) \in Seq(E)
    BY <2>1
  <2> QED
    BY <2>2 DEF E
<1>3. x \in SchedState(cfg.sched[s], DOMAIN m.insn)
  BY <1>1, <1>2 DEF SchedState
<1>4. Parts(m)
  BY SoundParts
<1>5. /\ Schedule(m, s, i, id) = [m EXCEPT !.sched[s] = x]
      /\ [m EXCEPT !.sched[s] = x].unit = m.unit
      /\ [m EXCEPT !.sched[s] = x].port = m.port
      /\ [m EXCEPT !.sched[s] = x].sched = [m.sched EXCEPT ![s] = x]
  BY <1>1, <1>4 DEF Schedule, Parts
<1>6. x = Enqueued(m.sched[s], i, id)
  BY DEF Enqueued
<1> HIDE DEF x
<1>7. Sound(Schedule(m, s, i, id), done) /\ Schedule(m, s, i, id).insn = m.insn
  BY <1>3, <1>5, SoundSched
<1>8. /\ Schedule(m, s, i, id).unit = m.unit /\ Schedule(m, s, i, id).port = m.port
      /\ Schedule(m, s, i, id).sched = [m.sched EXCEPT ![s] = x]
  BY <1>5
<1> QED
  BY <1>6, <1>7, <1>8

LEMMA ScheduleKeeps ==
  ASSUME NEW m, NEW done, Sound(m, done), NEW s \in DOMAIN cfg.sched, NEW i \in Int,
         NEW id \in DOMAIN m.insn
  PROVE  Sound(Schedule(m, s, i, id), done) /\ Schedule(m, s, i, id).insn = m.insn
<1>1. Sound(Schedule(m, s, i, id), done)
  BY ScheduleSound
<1>2. Schedule(m, s, i, id).insn = m.insn
  BY SoundParts DEF Schedule, Parts
<1> QED
  BY <1>1, <1>2

LEMMA LeftSound ==
  ASSUME Wiring(cfg), NEW m, NEW done, Sound(m, done), NEW s \in DOMAIN cfg.sched,
         NEW i \in Indices(cfg.sched[s]), MayLeave(cfg.sched[s], m.sched[s].q, i)
  PROVE  /\ Sound(Left(m, s, i), done) /\ Left(m, s, i).insn = m.insn
<1> DEFINE c == cfg.sched[s]
           x == [m.sched[s] EXCEPT !.q = Deallocate(c, @, i)]
<1>1. m.sched[s] \in SchedState(c, DOMAIN m.insn) /\ s \in DOMAIN m.sched
  BY SchedFields
<1>2. m.sched[s].q \in QueueState(c, DOMAIN m.insn)
  BY SchedFields
<1>3. c.order \in Orders /\ c.entries \in Nat \ {0}
  BY SchedFacts
<1>4. Deallocate(c, m.sched[s].q, i) \in QueueState(c, DOMAIN m.insn)
  BY <1>2, <1>3, QueueDeallocate
<1> HIDE DEF c
<1>5. x \in SchedState(c, DOMAIN m.insn)
  BY <1>1, <1>4 DEF SchedState
<1>6. Parts(m)
  BY SoundParts
<1>7. Left(m, s, i) = [m EXCEPT !.sched[s] = x]
  <2>1. [m EXCEPT !.sched[s].q = Deallocate(c, @, i)] = [m EXCEPT !.sched[s] = x]
    BY <1>1, <1>6 DEF Parts
  <2> QED
    BY <2>1 DEF Left, c
<1> HIDE DEF x
<1> QED
  BY <1>5, <1>7, SoundSched DEF c

-----------------------------------------------------------------------------
(* The choice of a scheduler.                                              *)

Candidates(m, s) ==
  CASE cfg.sched[s].order = "In-Order" -> AtHead(Q(m, s))
    [] cfg.sched[s].order = "In-Age-Order" -> ByAge(Q(m, s))
    [] cfg.sched[s].order = "Out-of-Order" -> ByIndex(Q(m, s))

LEMMA CandidateSlots ==
  ASSUME Wiring(cfg), NEW m, NEW done, Sound(m, done), NEW s \in DOMAIN cfg.sched,
         NEW i \in Candidates(m, s)
  PROVE  /\ i \in Indices(cfg.sched[s])
         /\ Q(m, s).slots[i] \in DOMAIN m.insn
         /\ cfg.sched[s].order = "In-Age-Order" => i \in ToSet(Q(m, s).bust)
<1> DEFINE c == cfg.sched[s]
           q == Q(m, s)
<1>1. q \in QueueState(c, DOMAIN m.insn)
  BY SchedFields DEF Q
<1>2. c.order \in Orders /\ c.entries \in Nat \ {0}
  BY SchedFacts
<1>3. q.slots \in Slots(c, DOMAIN m.insn)
  BY <1>1, <1>2 DEF QueueState, RingState, AgeState, AgeFields, BagState, Orders
<1>4. i \in Indices(c) /\ q.slots[i] # Nil
  <2>1. CASE c.order = "In-Order"
    BY <1>1, <2>1 DEF QueueState, RingState, Candidates, AtHead
  <2>2. CASE c.order = "In-Age-Order"
    <3>1. q.bust \in Seq(Indices(c))
      BY <1>1, <2>2 DEF QueueState, AgeState, AgeFields
    <3>2. ToSet(q.bust) \subseteq Indices(c)
      BY <3>1 DEF ToSet
    <3> QED
      BY <2>2, <3>2 DEF Candidates, ByAge
  <2>3. CASE c.order = "Out-of-Order"
    BY <1>1, <2>3 DEF QueueState, BagState, Candidates, ByIndex
  <2> QED
    BY <1>2, <2>1, <2>2, <2>3 DEF Orders
<1>5. c.order = "In-Age-Order" => i \in ToSet(q.bust)
  BY DEF Candidates, ByAge
<1> QED
  BY <1>3, <1>4, <1>5 DEF Slots

LEMMA EarliestIsCandidate ==
  ASSUME Wiring(cfg), NEW m, NEW done, Sound(m, done), NEW s \in DOMAIN cfg.sched,
         NEW C \in SUBSET Candidates(m, s), C # {}
  PROVE  Earliest(cfg.sched[s], Q(m, s), C) \in C
<1> DEFINE q == Q(m, s)
<1>1. CASE cfg.sched[s].order = "In-Age-Order"
  <2>1. q.bust \in Seq(Indices(cfg.sched[s]))
    BY <1>1, SchedFields DEF Q, QueueState, AgeState, AgeFields
  <2>2. C \subseteq ToSet(q.bust)
    BY <1>1, CandidateSlots
  <2> DEFINE K == {k \in DOMAIN q.bust : q.bust[k] \in C}
  <2>3. K \subseteq Nat /\ K # {}
    BY <2>1, <2>2 DEF ToSet
  <2>4. Min(K) \in K
    BY <2>3, MinOfNats
  <2> QED
    BY <1>1, <2>4 DEF Earliest
<1>2. CASE cfg.sched[s].order # "In-Age-Order"
  <2>1. C \subseteq Nat
    BY CandidateSlots, SchedFacts DEF Indices
  <2>2. Min(C) \in C
    BY <2>1, MinOfNats
  <2> QED
    BY <1>2, <2>2 DEF Earliest
<1> QED
  BY <1>1, <1>2

LEMMA TakerIsFree ==
  ASSUME Wiring(cfg), NEW m, NEW s \in DOMAIN cfg.sched, NEW id, Takers(m, s, id) # {}
  PROVE  LET d == Taker(m, s, id) IN
         \/ /\ d.toFu = TRUE /\ d.des \in DOMAIN cfg.unit /\ ~UnitBusy(m, d.des)
            /\ cfg.sched[s].units # <<>>
            /\ \E k \in DOMAIN cfg.sched[s].units : d.des = cfg.sched[s].units[k]
            /\ iew.insn[id].fu \in Kinds(d.des)
         \/ /\ d.toFu = FALSE /\ d.des \in DOMAIN cfg.sched /\ ~SchedBusy(m, d.des)
            /\ \E k \in DOMAIN cfg.sched[s].subs : d.des = cfg.sched[s].subs[k]
<1> DEFINE c == cfg.sched[s]
           n == Len(c.units)
           T == Takers(m, s, id)
           k == Min(T)
<1>1. /\ n \in Nat /\ DOMAIN c.units = 1 .. n /\ DOMAIN c.subs = 1 .. Len(c.subs)
      /\ Len(c.subs) \in Nat
      /\ \A j \in DOMAIN c.units : c.units[j] \in DOMAIN cfg.unit
      /\ \A j \in DOMAIN c.subs : c.subs[j] \in DOMAIN cfg.sched
  BY SchedFacts
<1>2. T \subseteq Nat
  BY <1>1 DEF Takers
<1>3. k \in T
  BY <1>2, MinOfNats
<1>4. Taker(m, s, id) = IF k <= n THEN [toFu |-> TRUE, des |-> c.units[k]]
                        ELSE [toFu |-> FALSE, des |-> c.subs[k - n]]
  BY DEF Taker
<1>5. T = {j \in DOMAIN c.units :
             iew.insn[id].fu \in Kinds(c.units[j]) /\ ~UnitBusy(m, c.units[j])} \union
          {n + l : l \in {j \in DOMAIN c.subs :
                          iew.insn[id].fu \in SupportFunc(c.subs[j]) /\ ~SchedBusy(m, c.subs[j])}}
  BY DEF Takers
<1> HIDE DEF k, T, n, c
<1>6. CASE k <= n
  <2>1. k \in DOMAIN c.units /\ iew.insn[id].fu \in Kinds(c.units[k]) /\ ~UnitBusy(m, c.units[k])
    BY <1>1, <1>3, <1>5, <1>6
  <2>2. Taker(m, s, id) = [toFu |-> TRUE, des |-> c.units[k]]
    BY <1>4, <1>6
  <2>3. c.units # <<>>
    BY <1>1, <2>1
  <2> QED
    BY <1>1, <2>1, <2>2, <2>3 DEF c
<1>7. CASE ~(k <= n)
  <2>1. PICK j \in DOMAIN c.subs : k = n + j /\ ~SchedBusy(m, c.subs[j])
    BY <1>1, <1>3, <1>5, <1>7
  <2>2. Taker(m, s, id) = [toFu |-> FALSE, des |-> c.subs[k - n]]
    BY <1>4, <1>7
  <2>3. k - n = j
    BY <1>1, <2>1
  <2> QED
    BY <1>1, <2>1, <2>2, <2>3 DEF c
<1> QED
  BY <1>6, <1>7

LEMMA LiveRing ==
  ASSUME Wiring(cfg), NEW m, NEW done, Sound(m, done), NEW s \in DOMAIN cfg.sched,
         Live(cfg.sched[s], Q(m, s)) # 0, cfg.sched[s].order = "In-Order"
  PROVE  Q(m, s).usage \in Nat \ {0}
<1>1. Q(m, s) \in RingState(cfg.sched[s], DOMAIN m.insn)
  BY SchedFields DEF Q, QueueState
<1> QED
  BY <1>1, SchedFacts DEF RingState, Live, GetAvailibleEntryCount

LEMMA CandidateMayLeave ==
  ASSUME Wiring(cfg), NEW m, NEW done, Sound(m, done), NEW s \in DOMAIN cfg.sched,
         Live(cfg.sched[s], Q(m, s)) # 0, NEW i \in Candidates(m, s)
  PROVE  MayLeave(cfg.sched[s], m.sched[s].q, i)
<1> DEFINE c == cfg.sched[s]
<1>1. c.order \in Orders /\ c.entries \in Nat \ {0}
  BY SchedFacts
<1>2. CASE c.order = "In-Age-Order"
  BY <1>2, CandidateSlots DEF MayLeave, Q
<1>3. CASE c.order = "In-Order"
  BY <1>3, LiveRing DEF MayLeave, Q
<1>4. CASE c.order = "Out-of-Order"
  <2>1. Q(m, s) \in BagState(c, DOMAIN m.insn)
    BY <1>4, SchedFields DEF Q, QueueState
  <2> QED
    BY <1>1, <1>4, <2>1 DEF BagState, Live, GetAvailibleEntryCount, MayLeave, Q
<1> QED
  BY <1>1, <1>2, <1>3, <1>4 DEF Orders

\* An allocation takes nothing from a queue.
LEMMA StillMayLeave ==
  ASSUME Wiring(cfg), NEW m, NEW done, Sound(m, done), NEW s \in DOMAIN cfg.sched,
         NEW t \in DOMAIN cfg.sched, NEW i, MayLeave(cfg.sched[s], m.sched[s].q, i)
  PROVE  MayLeave(cfg.sched[s],
                  [m.sched EXCEPT ![t] = Allocated(cfg.sched[t], m.sched[t])][s].q, i)
<1> DEFINE f == [m.sched EXCEPT ![t] = Allocated(cfg.sched[t], m.sched[t])]
<1>1. s \in DOMAIN m.sched /\ t \in DOMAIN m.sched
  BY SchedFields
<1>2. CASE t # s
  BY <1>1, <1>2
<1>3. CASE t = s
  <2>1. m.sched[s] \in SchedState(cfg.sched[s], DOMAIN m.insn)
        /\ m.sched[s].q \in QueueState(cfg.sched[s], DOMAIN m.insn)
    BY SchedFields
  <2>2. f[s].q = AllocateEntry(cfg.sched[s], m.sched[s].q)
    BY <1>1, <1>3, <2>1 DEF SchedState, Allocated
  <2>3. cfg.sched[s].order \in Orders /\ cfg.sched[s].entries \in Nat \ {0}
    BY SchedFacts
  <2> HIDE DEF f
  <2>4. MayLeave(cfg.sched[s], AllocateEntry(cfg.sched[s], m.sched[s].q), i)
    BY <2>1, <2>3, MayLeaveAllocated
  <2> QED
    BY <2>2, <2>4 DEF f
<1> QED
  BY <1>2, <1>3

(* What a selection does before its instruction leaves the queue.         *)
LEMMA ToTakerSound ==
  ASSUME Wiring(cfg), NEW m, NEW done, Sound(m, done), m.insn = iew.insn,
         NEW s \in DOMAIN cfg.sched, Live(cfg.sched[s], Q(m, s)) # 0,
         NEW C \in SUBSET Candidates(m, s),
         OperandsAwaited => \/ cfg.sched[s].units = <<>>
                            \/ \A i \in C : OperandsReady(Q(m, s).slots[i]),
         ToTaker(m, s, C) # <<>>
  PROVE  Sound(ToTaker(m, s, C)[1], done) /\ ToTaker(m, s, C)[1].insn = iew.insn
<1> DEFINE q == Q(m, s)
           ok == {i \in C : Takers(m, s, q.slots[i]) # {}}
           i == Earliest(cfg.sched[s], q, ok)
           id == q.slots[i]
           d == Taker(m, s, id)
           slot == NextIndex(cfg.sched[d.des], m.sched[d.des].q)
           sent == IF d.toFu THEN IssueToUnit(m, d.des, id)
                   ELSE Schedule(AllocateIn(m, d.des), d.des, slot, id)
<1>1. ok # {} /\ ToTaker(m, s, C) = <<Left(sent, s, i)>>
  BY DEF ToTaker, Q
<1>2. i \in ok
  BY <1>1, EarliestIsCandidate
<1>3. i \in Indices(cfg.sched[s]) /\ id \in DOMAIN m.insn /\ Takers(m, s, id) # {}
  BY <1>2, CandidateSlots
<1>4. OperandsAwaited => cfg.sched[s].units = <<>> \/ OperandsReady(id)
  BY <1>2
<1>7. MayLeave(cfg.sched[s], m.sched[s].q, i)
  <2>1. i \in Candidates(m, s)
    BY <1>2
  <2> QED
    BY <2>1, CandidateMayLeave
<1> HIDE DEF id, i, ok
<1>5. /\ Sound(sent, done) /\ sent.insn = m.insn
      /\ MayLeave(cfg.sched[s], sent.sched[s].q, i)
  <2>1. CASE d.toFu = TRUE
    <3>1. d.des \in DOMAIN cfg.unit /\ cfg.sched[s].units # <<>>
      BY <1>3, <2>1, TakerIsFree
    <3>2. id \in Complete(m.insn)
      BY <1>3, <1>4, <3>1 DEF Complete, OperandsReady
    <3>3. Sound(IssueToUnit(m, d.des, id), done) /\ IssueToUnit(m, d.des, id).insn = m.insn
      BY <3>1, <3>2, IssueToUnitSound
    <3>4. IssueToUnit(m, d.des, id).sched = m.sched
      BY <3>1, IssueToUnitSched
    <3> HIDE DEF d
    <3> QED
      BY <1>7, <2>1, <3>3, <3>4
  <2>2. CASE d.toFu = FALSE
    <3>1. d.des \in DOMAIN cfg.sched /\ ~SchedBusy(m, d.des)
      BY <1>3, <2>2, TakerIsFree
    <3> DEFINE t == d.des
               a == AllocateIn(m, t)
    <3> HIDE DEF d
    <3>2. /\ Sound(a, done) /\ a.insn = m.insn
          /\ a.sched = [m.sched EXCEPT ![t] = Allocated(cfg.sched[t], m.sched[t])]
      <4>1. t \in DOMAIN cfg.sched /\ ~SchedBusy(m, t)
        BY <3>1
      <4> HIDE DEF t
      <4> QED
        BY <4>1, AllocateInSound
    <3>3. slot \in Int
      <4>1. GetAvailibleEntryCount(cfg.sched[t], m.sched[t].q) # 0
        BY <3>1 DEF SchedBusy
      <4>2. m.sched[t].q \in QueueState(cfg.sched[t], DOMAIN m.insn)
        BY <3>1, SchedFields
      <4>3. cfg.sched[t].order \in Orders /\ cfg.sched[t].entries \in Nat \ {0}
        BY <3>1, SchedFacts
      <4> QED
        BY <4>1, <4>2, <4>3, QueueNextIndex
    <3> HIDE DEF a, slot
    <3>4. /\ Sound(Schedule(a, t, slot, id), done) /\ Schedule(a, t, slot, id).insn = a.insn
          /\ Schedule(a, t, slot, id).sched =
               [a.sched EXCEPT ![t] = Enqueued(a.sched[t], slot, id)]
      <4>1. id \in DOMAIN a.insn /\ t \in DOMAIN cfg.sched
        BY <1>3, <3>1, <3>2
      <4> HIDE DEF t
      <4> QED
        BY <3>2, <3>3, <4>1, ScheduleSound
    <3>5. MayLeave(cfg.sched[s], Schedule(a, t, slot, id).sched[s].q, i)
      <4>1. s \in DOMAIN m.sched /\ t \in DOMAIN m.sched
        BY <3>1, SchedFields
      <4>2. Schedule(a, t, slot, id).sched[s].q = a.sched[s].q
        <5>1. a.sched[s] \in SchedState(cfg.sched[s], DOMAIN a.insn) /\ DOMAIN a.sched = DOMAIN m.sched
          BY <3>2, SchedFields DEF Sound
        <5>2. a.sched[t] \in SchedState(cfg.sched[t], DOMAIN a.insn)
          BY <3>1, <3>2, SchedFields
        <5> QED
          BY <3>4, <4>1, <5>1, <5>2, SMTT(40) DEF SchedState, Enqueued
      <4>3. MayLeave(cfg.sched[s], a.sched[s].q, i)
        <5>1. t \in DOMAIN cfg.sched
          BY <3>1
        <5> HIDE DEF t
        <5> QED
          BY <1>7, <3>2, <5>1, StillMayLeave
      <4> QED
        BY <4>2, <4>3
    <3>6. sent = Schedule(a, t, slot, id)
      BY <2>2 DEF a
    <3> QED
      BY <3>2, <3>4, <3>5, <3>6
  <2> QED
    BY <1>3, <2>1, <2>2, TakerIsFree
<1> HIDE DEF sent
<1>6. Sound(Left(sent, s, i), done) /\ Left(sent, s, i).insn = sent.insn
  BY <1>3, <1>5, LeftSound
<1> QED
  BY <1>1, <1>5, <1>6

\* A read port with one more instruction in it.
Ported(m, p, x) == [m EXCEPT !.port[p] = TB!Set(@, x)]

LEMMA PortedSound ==
  ASSUME NEW m, NEW done, Sound(m, done), NEW p \in 1 .. cfg.ports,
         NEW x \in Entry(m.insn, done)
  PROVE  /\ Sound(Ported(m, p, x), done) /\ Ported(m, p, x).insn = m.insn
         /\ Ported(m, p, x).sched = m.sched /\ Ported(m, p, x).unit = m.unit
<1> DEFINE b == TB!Set(m.port[p], x)
<1>1. Parts(m)
  BY SoundParts
<1>2. b \in Latch(Entry(m.insn, done))
  <2>1. m.port[p] \in Latch(Entry(m.insn, done))
    BY DEF Sound
  <2> QED
    BY <2>1, LatchSet
<1>3. Ported(m, p, x) = [m EXCEPT !.port[p] = b]
  BY <1>1 DEF Parts, Ported
<1> HIDE DEF b
<1>4. /\ [m EXCEPT !.port[p] = b].sched = m.sched
      /\ [m EXCEPT !.port[p] = b].unit = m.unit
  BY <1>1 DEF Parts
<1>5. /\ Sound([m EXCEPT !.port[p] = b], done)
      /\ [m EXCEPT !.port[p] = b].insn = m.insn
  BY <1>2, SoundPort
<1> QED
  BY <1>3, <1>4, <1>5

LEMMA ToReadPortSound ==
  ASSUME Wiring(cfg), NEW m, NEW done, Sound(m, done), m.insn = iew.insn,
         NEW s \in DOMAIN cfg.sched, Live(cfg.sched[s], Q(m, s)) # 0,
         NEW C \in SUBSET Candidates(m, s),
         OperandsAwaited => \/ cfg.sched[s].units = <<>>
                            \/ \A i \in C : iew.insn[Q(m, s).slots[i]].srcs \subseteq done,
         ToReadPort(m, s, C) # <<>>
  PROVE  Sound(ToReadPort(m, s, C)[1], done) /\ ToReadPort(m, s, C)[1].insn = iew.insn
<1> DEFINE i == Earliest(cfg.sched[s], m.sched[s].q, C)
           id == m.sched[s].q.slots[i]
           p == cfg.sched[s].ports[Min(FreePorts(m, s))]
           d == Taker(m, s, id)
           slot == IF d.toFu THEN Nil ELSE NextIndex(cfg.sched[d.des], m.sched[d.des].q)
           claimed == IF d.toFu THEN [m EXCEPT !.unit[d.des].taken = TRUE]
                      ELSE AllocateIn(m, d.des)
           info == [toFu |-> d.toFu, des |-> d.des, index |-> slot, id |-> id]
           sent == [claimed EXCEPT !.port[p] = TB!Set(@, info)]
<1>1. /\ C # {} /\ FreePorts(m, s) # {} /\ Takers(m, s, id) # {}
      /\ ToReadPort(m, s, C) = <<Left(sent, s, i)>>
  BY DEF ToReadPort
<1>2. i \in C
  BY <1>1, EarliestIsCandidate DEF Q
<1>3. i \in Indices(cfg.sched[s]) /\ id \in DOMAIN m.insn
  BY <1>2, CandidateSlots DEF Q
<1>4. OperandsAwaited => cfg.sched[s].units = <<>> \/ m.insn[id].srcs \subseteq done
  BY <1>2 DEF Q
<1>5. p \in 1 .. cfg.ports
  <2>1. /\ DOMAIN cfg.sched[s].ports = 1 .. Len(cfg.sched[s].ports)
        /\ \A k \in DOMAIN cfg.sched[s].ports : cfg.sched[s].ports[k] \in 1 .. cfg.ports
    BY SchedFacts
  <2>2. FreePorts(m, s) \subseteq DOMAIN cfg.sched[s].ports
    BY DEF FreePorts
  <2>3. FreePorts(m, s) \subseteq Nat
    BY <2>1, <2>2
  <2>4. Min(FreePorts(m, s)) \in FreePorts(m, s)
    BY <1>1, <2>3, MinOfNats
  <2> QED
    BY <2>1, <2>2, <2>4
<1>9. MayLeave(cfg.sched[s], m.sched[s].q, i)
  <2>1. i \in Candidates(m, s)
    BY <1>2
  <2> QED
    BY <2>1, CandidateMayLeave
<1> HIDE DEF id, i, p
<1>6. /\ Sound(claimed, done) /\ claimed.insn = m.insn /\ claimed.port = m.port
      /\ info \in Entry(m.insn, done)
      /\ MayLeave(cfg.sched[s], claimed.sched[s].q, i)
  <2>1. CASE d.toFu = TRUE
    <3> DEFINE u == d.des
               x == [m.unit[u] EXCEPT !.taken = TRUE]
    <3>1. u \in DOMAIN cfg.unit /\ cfg.sched[s].units # <<>>
      BY <1>1, <2>1, TakerIsFree
    <3> HIDE DEF d
    <3>2. claimed = [m EXCEPT !.unit[u].taken = TRUE] /\ info = [toFu |-> TRUE, des |-> u, index |-> Nil, id |-> id]
      BY <2>1
    <3> HIDE DEF u, claimed, info
    <3>3. x \in UnitState(Complete(m.insn))
      BY <3>1, UnitFields, ZenonT(40) DEF UnitState
    <3>4. Parts(m)
      BY SoundParts
    <3>5. /\ [m EXCEPT !.unit[u].taken = TRUE] = [m EXCEPT !.unit[u] = x]
          /\ [m EXCEPT !.unit[u] = x].port = m.port
          /\ [m EXCEPT !.unit[u] = x].sched = m.sched
      BY <3>4 DEF Parts
    <3> HIDE DEF x
    <3>6. Sound([m EXCEPT !.unit[u] = x], done) /\ [m EXCEPT !.unit[u] = x].insn = m.insn
      BY <3>1, <3>3, SoundUnit
    <3>7. info \in Entry(m.insn, done)
      <4>1. u \in Nat
        BY <3>1, WiringFacts
      <4>2. OperandsAwaited => m.insn[id].srcs \subseteq m.insn[id].ready \union done
        BY <1>4, <3>1
      <4> QED
        BY <1>3, <3>1, <3>2, <4>1, <4>2 DEF Entry, Nil
    <3> QED
      BY <1>9, <3>2, <3>5, <3>6, <3>7
  <2>2. CASE d.toFu = FALSE
    <3> DEFINE t == d.des
               a == AllocateIn(m, t)
    <3>1. t \in DOMAIN cfg.sched /\ ~SchedBusy(m, t)
      BY <1>1, <2>2, TakerIsFree
    <3> HIDE DEF d
    <3>2. claimed = a /\ info = [toFu |-> FALSE, des |-> t, index |-> NextIndex(cfg.sched[t], m.sched[t].q), id |-> id]
      BY <2>2
    <3> HIDE DEF t, claimed, info
    <3>3. /\ Sound(a, done) /\ a.insn = m.insn /\ a.port = m.port
          /\ a.sched = [m.sched EXCEPT ![t] = Allocated(cfg.sched[t], m.sched[t])]
      BY <3>1, AllocateInSound
    <3>4. NextIndex(cfg.sched[t], m.sched[t].q) \in Int
      <4>1. GetAvailibleEntryCount(cfg.sched[t], m.sched[t].q) # 0
        BY <3>1 DEF SchedBusy
      <4>2. m.sched[t].q \in QueueState(cfg.sched[t], DOMAIN m.insn)
        BY <3>1, SchedFields
      <4>3. cfg.sched[t].order \in Orders /\ cfg.sched[t].entries \in Nat \ {0}
        BY <3>1, SchedFacts
      <4> QED
        BY <4>1, <4>2, <4>3, QueueNextIndex
    <3>5. info \in Entry(m.insn, done)
      <4>1. t \in Nat
        BY <3>1, WiringFacts
      <4> QED
        BY <1>3, <3>1, <3>2, <3>4, <4>1 DEF Entry
    <3> HIDE DEF a
    <3>6. MayLeave(cfg.sched[s], a.sched[s].q, i)
      BY <1>9, <3>1, <3>3, StillMayLeave
    <3> QED
      BY <3>2, <3>3, <3>5, <3>6
  <2> QED
    BY <1>1, <2>1, <2>2, TakerIsFree
<1> HIDE DEF claimed, info
<1>7. sent = Ported(claimed, p, info)
  BY DEF Ported
<1> HIDE DEF sent
<1>8. /\ Sound(Ported(claimed, p, info), done) /\ Ported(claimed, p, info).insn = claimed.insn
      /\ Ported(claimed, p, info).sched = claimed.sched
  <2>1. Sound(claimed, done) /\ info \in Entry(claimed.insn, done)
    BY <1>6
  <2> QED
    BY <1>5, <2>1, PortedSound
<1>11. /\ Sound(sent, done) /\ sent.insn = m.insn /\ sent.sched = claimed.sched
  BY <1>6, <1>7, <1>8
<1>12. Sound(Left(sent, s, i), done) /\ Left(sent, s, i).insn = sent.insn
  BY <1>3, <1>6, <1>11, LeftSound
<1> QED
  BY <1>1, <1>11, <1>12

(* The fifteen classes.                                                    *)
LEMMA Selects ==
  ASSUME Wiring(cfg), NEW m, NEW s \in DOMAIN cfg.sched
  PROVE  \E C \in SUBSET Candidates(m, s) :
           LET c == cfg.sched[s]
               Id(i) == Q(m, s).slots[i]
           IN  \/ c.wakeUp = "None" /\ IssueSelect(m, s) = ToTaker(m, s, C)
               \/ /\ c.wakeUp = "ResvrStation" /\ IssueSelect(m, s) = ToTaker(m, s, C)
                  /\ \A i \in C : OperandsReady(Id(i))
               \/ /\ c.wakeUp = "OperandReady" /\ IssueSelect(m, s) = ToReadPort(m, s, C)
                  /\ \A i \in C : OperandsDone(Id(i))
               \/ c.wakeUp = "RfQueue" /\ IssueSelect(m, s) = ToReadPort(m, s, C)
               \/ /\ c.wakeUp = "Commit" /\ IssueSelect(m, s) = ToReadPort(m, s, C)
                  /\ \A i \in C : /\ ReadyForCommit(rob, iew.insn[Id(i)].tag)
                                  /\ \/ c.order = "In-Order" /\ OperandsDone(Id(i))
                                     \/ c.order # "In-Order" /\ OperandsForwarding(Id(i))
<1> DEFINE c == cfg.sched[s]
           Among(Ready(_)) == {i \in Candidates(m, s) : Ready(Q(m, s).slots[i])}
<1>1. c.order \in Orders /\ c.wakeUp \in WakeUps
  BY SchedFacts
<1>2. Candidates(m, s) = IF c.order = "In-Order" THEN AtHead(Q(m, s))
                         ELSE IF c.order = "In-Age-Order" THEN ByAge(Q(m, s))
                         ELSE ByIndex(Q(m, s))
  BY <1>1 DEF Candidates, Orders
<1>3. CASE c.wakeUp = "None"
  <2>1. IssueSelect(m, s) = ToTaker(m, s, Candidates(m, s))
    BY <1>1, <1>2, <1>3 DEF Orders, IssueSelect, CreateNoneSchedular, N_InOrder, N_InAgeOrder,
       N_OutOfOrder
  <2> QED
    BY <1>3, <2>1
<1>4. CASE c.wakeUp = "RfQueue"
  <2>1. IssueSelect(m, s) = ToReadPort(m, s, Candidates(m, s))
    BY <1>1, <1>2, <1>4 DEF Orders, IssueSelect, CreateRfQueueSchedular, RFQ_InOrder,
       RFQ_InAgeOrder, RFQ_OutOfOrder
  <2> QED
    BY <1>4, <2>1
<1>5. CASE c.wakeUp = "ResvrStation"
  <2> DEFINE C == {i \in Candidates(m, s) : OperandsReady(Q(m, s).slots[i])}
  <2>1. IssueSelect(m, s) = ToTaker(m, s, C)
    BY <1>1, <1>2, <1>5 DEF Orders, IssueSelect, CreateResvrStationSchedular, RS_InOrder,
       RS_InAgeOrder, RS_OutOfOrder, Where
  <2> QED
    BY <1>5, <2>1
<1>6. CASE c.wakeUp = "OperandReady"
  <2> DEFINE C == {i \in Candidates(m, s) : OperandsDone(Q(m, s).slots[i])}
  <2>1. IssueSelect(m, s) = ToReadPort(m, s, C)
    BY <1>1, <1>2, <1>6 DEF Orders, IssueSelect, CreateOperandReadySchedular, OR_InOrder,
       OR_InAgeOrder, OR_OutOfOrder, Where
  <2> QED
    BY <1>6, <2>1
<1>7. CASE c.wakeUp = "Commit"
  <2> DEFINE C == {i \in Candidates(m, s) :
                     IF c.order = "In-Order" THEN MayCommitDone(Q(m, s).slots[i])
                     ELSE MayCommitForwarding(Q(m, s).slots[i])}
  <2>1. IssueSelect(m, s) = ToReadPort(m, s, C)
    BY <1>1, <1>2, <1>7 DEF Orders, IssueSelect, CreateCommitSchedular, CMT_InOrder,
       CMT_InAgeOrder, CMT_OutOfOrder, Where
  <2>2. \A i \in C : /\ ReadyForCommit(rob, iew.insn[Q(m, s).slots[i]].tag)
                     /\ \/ c.order = "In-Order" /\ OperandsDone(Q(m, s).slots[i])
                        \/ c.order # "In-Order" /\ OperandsForwarding(Q(m, s).slots[i])
    BY DEF MayCommitDone, MayCommitForwarding
  <2>3. C \in SUBSET Candidates(m, s)
    OBVIOUS
  <2> HIDE DEF C, c
  <2>4. \E D \in SUBSET Candidates(m, s) :
          /\ IssueSelect(m, s) = ToReadPort(m, s, D)
          /\ \A i \in D : /\ ReadyForCommit(rob, iew.insn[Q(m, s).slots[i]].tag)
                          /\ \/ c.order = "In-Order" /\ OperandsDone(Q(m, s).slots[i])
                             \/ c.order # "In-Order" /\ OperandsForwarding(Q(m, s).slots[i])
    BY <2>1, <2>2, <2>3
  <2> QED
    BY <1>7, <2>4 DEF c
<1> QED
  BY <1>1, <1>3, <1>4, <1>5, <1>6, <1>7 DEF WakeUps


-----------------------------------------------------------------------------
(* Issue: the schedulers, one selection at a time.                         *)

LEMMA LastRound ==
  ASSUME NEW n \in Nat, NEW T, 0 \in T, \A k \in 1 .. n : k - 1 \in T => k \in T
  PROVE  n \in T
<1> DEFINE R == {k \in Nat : k <= n => k \in T}
<1>1. 0 \in R
  OBVIOUS
<1>2. ASSUME NEW k \in R
      PROVE  k + 1 \in R
  <2>1. CASE k + 1 <= n
    <3>1. k \in T /\ k + 1 \in 1 .. n /\ (k + 1) - 1 = k
      BY <2>1
    <3> QED
      BY <3>1
  <2>2. CASE ~(k + 1 <= n)
    BY <2>2
  <2> QED
    BY <2>1, <2>2
<1>3. R = Nat
  <2>1. R \subseteq Nat
    OBVIOUS
  <2> HIDE DEF R
  <2> QED
    BY <1>1, <1>2, <2>1, UpFromZero
<1>4. n \in R
  BY <1>3
<1> QED
  BY <1>4

LEMMA SelectOneSound ==
  ASSUME Wiring(cfg), Registers, NEW s \in DOMAIN cfg.sched, NEW a,
         a = [m |-> a.m, go |-> a.go], Sound(a.m, regs.done), a.m.insn = iew.insn
  PROVE  LET b == SelectOne(s, a)
         IN  /\ b = [m |-> b.m, go |-> b.go]
             /\ Sound(b.m, regs.done) /\ b.m.insn = iew.insn
<1> DEFINE m == a.m
           c == cfg.sched[s]
           next == IssueSelect(m, s)
<1>1. CASE ~a.go \/ Live(c, Q(m, s)) = 0 \/ next = <<>>
  <2>1. SelectOne(s, a) = [a EXCEPT !.go = FALSE]
    BY <1>1 DEF SelectOne
  <2> QED
    BY <2>1
<1>2. CASE Live(c, Q(m, s)) # 0 /\ next # <<>> /\ a.go
  <2>1. SelectOne(s, a) = [a EXCEPT !.m = next[1]]
    BY <1>2 DEF SelectOne
  <2>2. Sound(next[1], regs.done) /\ next[1].insn = iew.insn
    <3> HIDE DEF m
    <3>1. PICK C \in SUBSET Candidates(m, s) :
             \/ c.wakeUp = "None" /\ next = ToTaker(m, s, C)
             \/ /\ c.wakeUp = "ResvrStation" /\ next = ToTaker(m, s, C)
                /\ \A i \in C : OperandsReady(Q(m, s).slots[i])
             \/ /\ c.wakeUp = "OperandReady" /\ next = ToReadPort(m, s, C)
                /\ \A i \in C : OperandsDone(Q(m, s).slots[i])
             \/ c.wakeUp = "RfQueue" /\ next = ToReadPort(m, s, C)
             \/ /\ c.wakeUp = "Commit" /\ next = ToReadPort(m, s, C)
                /\ \A i \in C : /\ ReadyForCommit(rob, iew.insn[Q(m, s).slots[i]].tag)
                                /\ \/ c.order = "In-Order" /\ OperandsDone(Q(m, s).slots[i])
                                   \/ c.order # "In-Order" /\ OperandsForwarding(Q(m, s).slots[i])
      BY Selects
    <3>2. Sound(m, regs.done) /\ m.insn = iew.insn
      BY DEF m
    <3>3. CASE c.wakeUp \in {"None", "ResvrStation"}
      <4>1. next = ToTaker(m, s, C)
        BY <3>1, <3>3
      <4>2. OperandsAwaited => c.units = <<>> \/ \A i \in C : OperandsReady(Q(m, s).slots[i])
        BY <3>1, <3>3 DEF OperandsAwaited
      <4> HIDE DEF c
      <4> QED
        BY <1>2, <3>2, <4>1, <4>2, ToTakerSound DEF c
    <3>4. CASE c.wakeUp \in {"OperandReady", "RfQueue", "Commit"}
      <4>1. next = ToReadPort(m, s, C)
        BY <3>1, <3>4
      <4>2. OperandsAwaited => \/ c.units = <<>>
                               \/ \A i \in C : iew.insn[Q(m, s).slots[i]].srcs \subseteq regs.done
        <5>1. CASE c.wakeUp = "RfQueue"
          BY <5>1 DEF OperandsAwaited
        <5>2. CASE c.wakeUp = "OperandReady"
          BY <3>1, <5>2 DEF OperandsDone
        <5>3. CASE c.wakeUp = "Commit"
          BY <3>1, <5>3 DEF OperandsDone, OperandsForwarding, OperandsAwaited, Registers
        <5> QED
          BY <3>4, <5>1, <5>2, <5>3
      <4> HIDE DEF c
      <4> QED
        BY <1>2, <3>2, <4>1, <4>2, ToReadPortSound DEF c
    <3> QED
      BY <3>1, <3>3, <3>4
  <2> QED
    BY <2>1, <2>2
<1> QED
  BY <1>1, <1>2

LEMMA EvaluateSchedSound ==
  ASSUME Wiring(cfg), Registers, NEW s \in DOMAIN cfg.sched, NEW m,
         Sound(m, regs.done), m.insn = iew.insn
  PROVE  Sound(EvaluateSched(m, s), regs.done) /\ EvaluateSched(m, s).insn = iew.insn
<1> DEFINE n == cfg.sched[s].dequeWidth
           Good(a) == /\ a = [m |-> a.m, go |-> a.go]
                      /\ Sound(a.m, regs.done) /\ a.m.insn = iew.insn
<1>1. PICK h : /\ EvaluateSched(m, s) = h[n].m
               /\ h[0] = [m |-> m, go |-> TRUE]
               /\ \A k \in 1 .. n : h[k] = SelectOne(s, h[k - 1])
  BY SelectionsRun
<1> DEFINE T == {k \in 0 .. n : Good(h[k])}
<1>2. n \in Nat
  BY SchedFacts
<1>3. 0 \in T
  BY <1>1, <1>2
<1>4. ASSUME NEW k \in 1 .. n, k - 1 \in T
      PROVE  k \in T
  <2>1. Good(h[k - 1]) /\ h[k] = SelectOne(s, h[k - 1])
    BY <1>1, <1>4
  <2> DEFINE a == h[k - 1]
  <2> HIDE DEF a
  <2>2. Good(SelectOne(s, a))
    BY <2>1, SelectOneSound DEF a
  <2> HIDE DEF Good
  <2> QED
    BY <2>1, <2>2 DEF a
<1> HIDE DEF n
<1>5. n \in T
  <2> HIDE DEF T
  <2> QED
    BY <1>2, <1>3, <1>4, LastRound
<1> QED
  BY <1>1, <1>5

LEMMA IssueSound ==
  ASSUME Wiring(cfg), Registers, Sound(iew, regs.done), Issue
  PROVE  Sound(iew', regs.done)
<1> DEFINE n == Len(cfg.sched)
           Good(m) == Sound(m, regs.done) /\ m.insn = iew.insn
<1>1. PICK h : /\ iew' = h[n]
               /\ h[0] = iew
               /\ \A k \in 1 .. n : h[k] = EvaluateSched(h[k - 1], k)
  BY IssueRuns
<1> DEFINE T == {k \in 0 .. n : Good(h[k])}
<1>2. n \in Nat /\ DOMAIN cfg.sched = 1 .. n
  BY WiringFacts
<1>3. 0 \in T
  BY <1>1, <1>2
<1>4. ASSUME NEW k \in 1 .. n, k - 1 \in T
      PROVE  k \in T
  <2>1. Good(h[k - 1]) /\ h[k] = EvaluateSched(h[k - 1], k) /\ k \in DOMAIN cfg.sched
    BY <1>1, <1>2, <1>4
  <2> DEFINE m == h[k - 1]
  <2> HIDE DEF m
  <2>2. Good(EvaluateSched(m, k))
    BY <2>1, EvaluateSchedSound DEF m
  <2> HIDE DEF Good
  <2> QED
    BY <2>1, <2>2 DEF m
<1> HIDE DEF n
<1>5. n \in T
  <2> HIDE DEF T
  <2> QED
    BY <1>2, <1>3, <1>4, LastRound
<1> QED
  BY <1>1, <1>5


-----------------------------------------------------------------------------
(* What instructions have only grows.                                      *)

Reaches(i, j) ==
  /\ DOMAIN i \subseteq DOMAIN j
  /\ \A id \in DOMAIN i : j[id].srcs = i[id].srcs /\ i[id].ready \subseteq j[id].ready

LEMMA EntryGrows ==
  ASSUME NEW i, NEW j, Reaches(i, j), NEW d, NEW e, d \subseteq e
  PROVE  Complete(i) \subseteq Complete(j) /\ Entry(i, d) \subseteq Entry(j, e)
<1>1. Complete(i) \subseteq Complete(j)
  BY DEF Complete, Reaches
<1>2. ASSUME NEW x \in Entry(i, d)
      PROVE  x \in Entry(j, e)
  <2>1. /\ x \in [toFu : BOOLEAN, des : Nat, index : Int, id : DOMAIN i]
        /\ IF x.toFu
           THEN /\ x.des \in DOMAIN cfg.unit
                /\ OperandsAwaited => i[x.id].srcs \subseteq i[x.id].ready \union d
           ELSE x.des \in DOMAIN cfg.sched
    BY DEF Entry
  <2>2. x \in [toFu : BOOLEAN, des : Nat, index : Int, id : DOMAIN j]
    BY <2>1 DEF Reaches
  <2>3. OperandsAwaited /\ x.toFu => j[x.id].srcs \subseteq j[x.id].ready \union e
    BY <2>1 DEF Reaches
  <2> QED
    BY <2>1, <2>2, <2>3 DEF Entry
<1> QED
  BY <1>1, <1>2

LEMMA FunctionGrows ==
  ASSUME NEW D, NEW S, NEW T, S \subseteq T, NEW f \in [D -> S]
  PROVE  f \in [D -> T]
OBVIOUS

LEMMA SoundGrows ==
  ASSUME Wiring(cfg), NEW m, NEW done, Sound(m, done), NEW j, Insns(j), Reaches(m.insn, j),
         NEW after, done \subseteq after
  PROVE  /\ Sound([m EXCEPT !.insn = j], after)
         /\ [m EXCEPT !.insn = j].insn = j
<1> DEFINE n == [m EXCEPT !.insn = j]
           C == Complete(m.insn)
           D == Complete(j)
<1>1. /\ n.sched = m.sched /\ n.unit = m.unit /\ n.wb = m.wb /\ n.ldq = m.ldq
      /\ n.redirect = m.redirect /\ n.port = m.port /\ n.insn = j /\ Parts(n)
  BY SoundParts DEF Parts
<1>2. C \subseteq D /\ Entry(m.insn, done) \subseteq Entry(j, after)
  BY EntryGrows
<1>3. Latch(C) \subseteq Latch(D) /\ Latch(Entry(m.insn, done)) \subseteq Latch(Entry(j, after))
  BY <1>2, LatchGrows
<1>4. DOMAIN m.insn \subseteq DOMAIN j
  BY DEF Reaches
<1> HIDE DEF C, D, n
<1>5. UnitState(C) \subseteq UnitState(D)
  BY <1>3 DEF UnitState
<1>6. /\ m.unit \in [DOMAIN cfg.unit -> UnitState(D)] /\ m.wb \in [DOMAIN cfg.wb -> Latch(D)]
      /\ m.port \in [1 .. cfg.ports -> Latch(Entry(j, after))]
  <2>1. /\ m.unit \in [DOMAIN cfg.unit -> UnitState(C)] /\ m.wb \in [DOMAIN cfg.wb -> Latch(C)]
        /\ m.port \in [1 .. cfg.ports -> Latch(Entry(m.insn, done))]
    BY DEF Sound, C
  <2>2. m.unit \in [DOMAIN cfg.unit -> UnitState(D)]
    BY <1>5, <2>1, FunctionGrows
  <2>3. m.wb \in [DOMAIN cfg.wb -> Latch(D)]
    BY <1>3, <2>1, FunctionGrows
  <2>4. m.port \in [1 .. cfg.ports -> Latch(Entry(j, after))]
    BY <1>3, <2>1, FunctionGrows
  <2> QED
    BY <2>2, <2>3, <2>4
<1>7. m.ldq \in Seq(D)
  BY <1>2, SeqGrows DEF Sound, C
<1>8. \A s \in DOMAIN cfg.sched : m.sched[s] \in SchedState(cfg.sched[s], DOMAIN j)
  <2> SUFFICES ASSUME NEW s \in DOMAIN cfg.sched
               PROVE  m.sched[s] \in SchedState(cfg.sched[s], DOMAIN j)
    OBVIOUS
  <2>1. m.sched[s] \in SchedState(cfg.sched[s], DOMAIN m.insn)
    BY SchedFields
  <2>2. cfg.sched[s].order \in Orders /\ cfg.sched[s].entries \in Nat \ {0}
    BY SchedFacts
  <2> QED
    BY <1>4, <2>1, <2>2, QueueGrows
<1>9. DOMAIN m.sched = DOMAIN cfg.sched /\ m.redirect \in Ids0
  BY DEF Sound
<1>10. Sound(n, after)
  BY <1>1, <1>6, <1>7, <1>8, <1>9 DEF Sound, D
<1> QED
  BY <1>1, <1>10 DEF n

-----------------------------------------------------------------------------
(* ReadOperand.                                                            *)

\* Instructions that differ in nothing but their operands.
SameInsns(i, j) ==
  /\ DOMAIN j = DOMAIN i
  /\ \A id \in DOMAIN i :
       /\ j[id].fu = i[id].fu /\ j[id].rd = i[id].rd /\ j[id].bad = i[id].bad
       /\ j[id].tag = i[id].tag /\ j[id].killed = i[id].killed

LEMMA ReadRegistersSound ==
  ASSUME Wiring(cfg), Registers, NEW m, Sound(m, regs.done), NEW id \in DOMAIN m.insn
  PROVE  LET n == [m EXCEPT !.insn[id] = ReadRegisters(@)]
         IN  /\ Sound(n, regs.done) /\ SameInsns(m.insn, n.insn)
             /\ m.insn[id].srcs \subseteq m.insn[id].ready \union regs.done => n.insn[id].srcs \subseteq n.insn[id].ready
             /\ n.sched = m.sched /\ n.unit = m.unit /\ n.port = m.port /\ n.wb = m.wb /\ n.ldq = m.ldq
<1> DEFINE y == ReadRegisters(m.insn[id])
           j == [m.insn EXCEPT ![id] = y]
           n == [m EXCEPT !.insn = j]
<1>1. Insns(m.insn) /\ Parts(m)
  BY DEF Sound
<1>2. m.insn[id] \in DynInsn /\ m.insn[id].stale = {} /\ m.insn[id].ready \subseteq m.insn[id].srcs
  BY <1>1 DEF Insns
<1>3. /\ y \in DynInsn /\ y.stale = {} /\ y.ready \subseteq y.srcs
      /\ y.srcs = m.insn[id].srcs /\ m.insn[id].ready \subseteq y.ready
      /\ m.insn[id].srcs \subseteq m.insn[id].ready \union regs.done => y.srcs \subseteq y.ready
      /\ y.fu = m.insn[id].fu /\ y.rd = m.insn[id].rd /\ y.bad = m.insn[id].bad
      /\ y.tag = m.insn[id].tag /\ y.killed = m.insn[id].killed
  <2> DEFINE z == m.insn[id]
             got == (z.srcs \ z.ready) \intersect regs.done
  <2>1. z \in DynInsn
    BY <1>2
  <2> HIDE DEF z
  <2>2. /\ z.ready \union got \in SUBSET (Ids \union {Nil})
        /\ z.stale \union (got \ regs.file) = {}
    BY <1>2, <2>1 DEF DynInsn, Registers, z
  <2> HIDE DEF got
  <2>3. y = [z EXCEPT !.ready = z.ready \union got, !.stale = z.stale \union (got \ regs.file)]
    BY DEF ReadRegisters, got, z
  <2> HIDE DEF y
  <2>4. y = [z EXCEPT !.ready = z.ready \union got, !.stale = {}]
    BY <2>2, <2>3
  <2>5. y \in DynInsn
    BY <2>1, <2>2, <2>4 DEF DynInsn
  <2>6. y.stale = {} /\ y.ready = z.ready \union got /\ y.srcs = z.srcs
    BY <2>1, <2>4 DEF DynInsn
  <2>7. y.fu = z.fu /\ y.rd = z.rd /\ y.bad = z.bad /\ y.tag = z.tag /\ y.killed = z.killed
    BY <2>1, <2>4 DEF DynInsn
  <2> QED
    BY <1>2, <2>5, <2>6, <2>7 DEF z, got
<1> HIDE DEF y
<1>4. Insns(j) /\ Reaches(m.insn, j) /\ SameInsns(m.insn, j) /\ j[id] = y
  <2>1. m.insn \in Seq(DynInsn) /\ Len(m.insn) <= MaxInsns
    BY <1>1 DEF Insns
  <2>2. j \in Seq(DynInsn) /\ Len(j) = Len(m.insn) /\ DOMAIN j = DOMAIN m.insn
    <3>1. \A S : \A q \in Seq(S) : \A k \in DOMAIN q : \A e \in S :
            LET r == [q EXCEPT ![k] = e]
            IN  r \in Seq(S) /\ Len(r) = Len(q) /\ DOMAIN r = DOMAIN q
      OBVIOUS
    <3> QED
      BY <1>3, <2>1, <3>1
  <2>3. \A x \in DOMAIN m.insn : j[x] = IF x = id THEN y ELSE m.insn[x]
    OBVIOUS
  <2> HIDE DEF j
  <2>4. Insns(j) /\ Reaches(m.insn, j)
    BY <1>1, <1>3, <2>1, <2>2, <2>3 DEF Insns, Reaches
  <2>5. SameInsns(m.insn, j)
    BY <1>3, <2>2, <2>3 DEF SameInsns
  <2> QED
    BY <2>3, <2>4, <2>5
<1>5. Sound(n, regs.done) /\ n.insn = j
  <2> HIDE DEF j
  <2>1. regs.done \subseteq regs.done
    OBVIOUS
  <2> QED
    BY <1>4, <2>1, SoundGrows
<1>6. [m EXCEPT !.insn[id] = ReadRegisters(@)] = n
  BY <1>1 DEF Parts, y
<1>7. n.sched = m.sched /\ n.unit = m.unit /\ n.port = m.port /\ n.wb = m.wb /\ n.ldq = m.ldq
  BY <1>1 DEF Parts
<1> HIDE DEF n, j
<1> QED
  BY <1>3, <1>4, <1>5, <1>6, <1>7

LEMMA DeliverSound ==
  ASSUME Wiring(cfg), Registers, NEW p \in 1 .. cfg.ports, NEW m, Sound(m, regs.done)
  PROVE  Sound(Deliver(m, p), regs.done)
<1> DEFINE out == TB!OutPort(m.port[p], cfg.rfLatency)
           x == out[1]
           n == [m EXCEPT !.insn[x.id] = ReadRegisters(@)]
<1>1. CASE out = <<>>
  BY <1>1 DEF Deliver
<1>2. CASE out # <<>>
  <2>1. x \in Entry(m.insn, regs.done)
    <3>1. m.port[p] \in Latch(Entry(m.insn, regs.done))
      BY DEF Sound
    <3> QED
      BY <1>2, <3>1, LatchOut
  <2>2. Deliver(m, p) = IF x.toFu THEN IssueToUnit(n, x.des, x.id)
                        ELSE Schedule(n, x.des, x.index, x.id)
    BY <1>2 DEF Deliver
  <2> HIDE DEF out, x
  <2>3. x.id \in DOMAIN m.insn /\ x.index \in Int
    BY <2>1 DEF Entry
  <2>4. /\ Sound(n, regs.done) /\ SameInsns(m.insn, n.insn)
        /\ m.insn[x.id].srcs \subseteq m.insn[x.id].ready \union regs.done => n.insn[x.id].srcs \subseteq n.insn[x.id].ready
    <3> DEFINE id == x.id
    <3>1. id \in DOMAIN m.insn
      BY <2>3
    <3> HIDE DEF id
    <3>2. LET r == [m EXCEPT !.insn[id] = ReadRegisters(@)]
          IN  /\ Sound(r, regs.done) /\ SameInsns(m.insn, r.insn)
              /\ m.insn[id].srcs \subseteq m.insn[id].ready \union regs.done => r.insn[id].srcs \subseteq r.insn[id].ready
      BY <3>1, ReadRegistersSound
    <3> QED
      BY <3>2 DEF id
  <2> HIDE DEF n
  <2>5. x.id \in DOMAIN n.insn
    BY <2>3, <2>4 DEF SameInsns
  <2>6. CASE x.toFu
    <3>1. x.des \in DOMAIN cfg.unit /\ (OperandsAwaited => n.insn[x.id].srcs \subseteq n.insn[x.id].ready)
      BY <2>1, <2>4, <2>6 DEF Entry
    <3>2. x.id \in Complete(n.insn)
      BY <2>5, <3>1 DEF Complete
    <3> QED
      BY <2>2, <2>4, <2>6, <3>1, <3>2, IssueToUnitSound
  <2>7. CASE ~x.toFu
    <3>1. x.des \in DOMAIN cfg.sched
      BY <2>1, <2>7 DEF Entry
    <3> DEFINE s == x.des
               i == x.index
               id == x.id
    <3>2. s \in DOMAIN cfg.sched /\ i \in Int /\ id \in DOMAIN n.insn /\ Sound(n, regs.done)
      BY <2>3, <2>4, <2>5, <3>1
    <3>3. Deliver(m, p) = Schedule(n, s, i, id)
      BY <2>2, <2>7
    <3> HIDE DEF s, i, id
    <3>4. Sound(Schedule(n, s, i, id), regs.done)
      BY <3>2, ScheduleSound
    <3> QED
      BY <3>3, <3>4
  <2> QED
    BY <2>6, <2>7
<1> QED
  BY <1>1, <1>2

LEMMA ReadOperandSound ==
  ASSUME Wiring(cfg), Registers, Sound(iew, regs.done), ReadOperand
  PROVE  Sound(iew', regs.done)
<1> DEFINE n == cfg.ports
<1>1. PICK h : /\ iew' = h[n]
               /\ h[0] = iew
               /\ \A k \in 1 .. n : h[k] = Deliver(h[k - 1], k)
  BY ReadPortsRun
<1> DEFINE T == {k \in 0 .. n : Sound(h[k], regs.done)}
<1>2. n \in Nat
  BY WiringFacts
<1>3. 0 \in T
  BY <1>1, <1>2
<1>4. ASSUME NEW k \in 1 .. n, k - 1 \in T
      PROVE  k \in T
  <2>1. Sound(h[k - 1], regs.done) /\ h[k] = Deliver(h[k - 1], k)
    BY <1>1, <1>4
  <2> DEFINE m == h[k - 1]
  <2> HIDE DEF m
  <2>2. Sound(Deliver(m, k), regs.done)
    BY <2>1, DeliverSound DEF m
  <2> QED
    BY <2>1, <2>2 DEF m
<1> HIDE DEF n
<1>5. n \in T
  <2> HIDE DEF T
  <2> QED
    BY <1>2, <1>3, <1>4, LastRound
<1> QED
  BY <1>1, <1>5


-----------------------------------------------------------------------------
(* Execute.                                                                *)

LEMMA ToWbPortSound ==
  ASSUME Wiring(cfg), NEW m, NEW done, Sound(m, done), NEW u \in DOMAIN cfg.unit,
         FreeWbPorts(m, u) # {}, NEW id \in Complete(m.insn)
  PROVE  /\ Sound(ToWbPort(m, u, id), done) /\ ToWbPort(m, u, id).insn = m.insn
         /\ ToWbPort(m, u, id).unit = m.unit
<1> DEFINE w == cfg.unit[u].wb[Min(FreeWbPorts(m, u))]
           b == TB!Set(m.wb[w], id)
<1>1. w \in DOMAIN cfg.wb
  <2>1. FreeWbPorts(m, u) \subseteq DOMAIN cfg.unit[u].wb
    BY DEF FreeWbPorts
  <2>2. /\ DOMAIN cfg.unit[u].wb \subseteq Nat
        /\ \A k \in DOMAIN cfg.unit[u].wb : cfg.unit[u].wb[k] \in DOMAIN cfg.wb
    BY UnitFacts
  <2>3. FreeWbPorts(m, u) \subseteq Nat
    BY <2>1, <2>2
  <2>4. Min(FreeWbPorts(m, u)) \in FreeWbPorts(m, u)
    BY <2>3, MinOfNats
  <2> QED
    BY <2>1, <2>2, <2>4
<1>2. ToWbPort(m, u, id) = [m EXCEPT !.wb[w] = TB!Set(@, id)]
  BY DEF ToWbPort
<1> HIDE DEF w
<1>3. Parts(m)
  BY SoundParts
<1>4. b \in Latch(Complete(m.insn))
  <2>1. m.wb[w] \in Latch(Complete(m.insn))
    BY <1>1 DEF Sound
  <2> QED
    BY <2>1, LatchSet
<1>5. [m EXCEPT !.wb[w] = TB!Set(@, id)] = [m EXCEPT !.wb[w] = b]
  BY <1>3 DEF Parts
<1> HIDE DEF b
<1>6. [m EXCEPT !.wb[w] = b].unit = m.unit
  BY <1>3 DEF Parts
<1>7. Sound([m EXCEPT !.wb[w] = b], done) /\ [m EXCEPT !.wb[w] = b].insn = m.insn
  BY <1>1, <1>4, SoundWb
<1> QED
  BY <1>2, <1>5, <1>6, <1>7

\* One field of a unit, and the load queue.
Taking(m, u, v) == [m EXCEPT !.unit[u].taken = v]
Piped(m, u, v) == [m EXCEPT !.unit[u].pipe = v]
Cached(m, u, v) == [m EXCEPT !.unit[u].dCache = v]
Queued(m, l) == [m EXCEPT !.ldq = l]

LEMMA TakingSound ==
  ASSUME NEW m, NEW done, Sound(m, done), NEW u \in DOMAIN cfg.unit, NEW v \in BOOLEAN
  PROVE  Sound(Taking(m, u, v), done) /\ Taking(m, u, v).insn = m.insn
<1> DEFINE x == [m.unit[u] EXCEPT !.taken = v]
<1>1. x \in UnitState(Complete(m.insn))
  BY UnitFields DEF UnitState
<1>2. Taking(m, u, v) = [m EXCEPT !.unit[u] = x]
  BY SoundParts DEF Parts, Taking
<1> HIDE DEF x
<1> QED
  BY <1>1, <1>2, SoundUnit

LEMMA PipedSound ==
  ASSUME NEW m, NEW done, Sound(m, done), NEW u \in DOMAIN cfg.unit, NEW v \in Latch(Complete(m.insn))
  PROVE  Sound(Piped(m, u, v), done) /\ Piped(m, u, v).insn = m.insn
<1> DEFINE x == [m.unit[u] EXCEPT !.pipe = v]
<1>1. x \in UnitState(Complete(m.insn))
  BY UnitFields DEF UnitState
<1>2. Piped(m, u, v) = [m EXCEPT !.unit[u] = x]
  BY SoundParts DEF Parts, Piped
<1> HIDE DEF x
<1> QED
  BY <1>1, <1>2, SoundUnit

LEMMA CachedSound ==
  ASSUME NEW m, NEW done, Sound(m, done), NEW u \in DOMAIN cfg.unit, NEW v \in Latch(Complete(m.insn))
  PROVE  Sound(Cached(m, u, v), done) /\ Cached(m, u, v).insn = m.insn
<1> DEFINE x == [m.unit[u] EXCEPT !.dCache = v]
<1>1. x \in UnitState(Complete(m.insn))
  BY UnitFields DEF UnitState
<1>2. Cached(m, u, v) = [m EXCEPT !.unit[u] = x]
  BY SoundParts DEF Parts, Cached
<1> HIDE DEF x
<1> QED
  BY <1>1, <1>2, SoundUnit

LEMMA QueuedSound ==
  ASSUME NEW m, NEW done, Sound(m, done), NEW l \in Seq(Complete(m.insn))
  PROVE  Sound(Queued(m, l), done) /\ Queued(m, l).insn = m.insn
BY SoundLdq DEF Queued

LEMMA ComputeSound ==
  ASSUME Wiring(cfg), NEW m, NEW done, Sound(m, done), NEW u \in DOMAIN cfg.unit
  PROVE  Sound(Compute(m, u), done)
<1> DEFINE out == TB!OutPort(m.unit[u].pipe, cfg.unit[u].latency)
<1>1. m.unit[u].pipe \in Latch(Complete(m.insn))
  BY UnitFields DEF UnitState
<1>2. out = <<>> \/ out[1] \in Complete(m.insn)
  BY <1>1, LatchOut
<1>3. CASE out = <<>>
  BY <1>3 DEF Compute
<1>4. CASE out # <<>> /\ FreeWbPorts(m, u) = {}
  <2> DEFINE b == TB!Stall(m.unit[u].pipe)
  <2>1. b \in Latch(Complete(m.insn))
    BY <1>1, LatchMarks
  <2>2. Compute(m, u) = [m EXCEPT !.unit[u].pipe = TB!Stall(@)]
    BY <1>4 DEF Compute
  <2>3. [m EXCEPT !.unit[u].pipe = TB!Stall(@)] = Piped(m, u, b)
    BY SoundParts DEF Parts, Piped
  <2> HIDE DEF b
  <2> QED
    BY <2>1, <2>2, <2>3, PipedSound
<1>5. CASE out # <<>> /\ FreeWbPorts(m, u) # {}
  <2> DEFINE n == ToWbPort(m, u, out[1])
  <2>1. Compute(m, u) = Taking(n, u, FALSE)
    BY <1>5 DEF Compute, Taking
  <2>2. Sound(n, done)
    <3>1. out[1] \in Complete(m.insn)
      BY <1>2, <1>5
    <3> HIDE DEF out
    <3> QED
      BY <1>5, <3>1, ToWbPortSound
  <2> HIDE DEF n
  <2> QED
    BY <2>1, <2>2, TakingSound
<1> QED
  BY <1>3, <1>4, <1>5

LEMMA AddrGenSound ==
  ASSUME Wiring(cfg), NEW m, NEW done, Sound(m, done), NEW u \in DOMAIN cfg.unit
  PROVE  Sound(AddrGen(m, u), done)
<1> DEFINE out == TB!OutPort(m.unit[u].pipe, cfg.unit[u].latency)
           waits == out # <<>> /\ iew.insn[out[1]].fu = "LDU" /\ InBuffer(out[1])
           v == m.unit[u].taken /\ out = <<>>
           l == IF waits THEN Append(m.ldq, out[1]) ELSE m.ldq
           n == Taking(m, u, v)
<1>1. m.unit[u].pipe \in Latch(Complete(m.insn))
  BY UnitFields DEF UnitState
<1>2. out = <<>> \/ out[1] \in Complete(m.insn)
  BY <1>1, LatchOut
<1>3. v \in BOOLEAN
  OBVIOUS
<1>4. l \in Seq(Complete(m.insn))
  <2> DEFINE C == Complete(m.insn)
  <2>1. m.ldq \in Seq(C) /\ (waits => out[1] \in C)
    BY <1>2 DEF Sound
  <2> HIDE DEF C, out, waits
  <2>2. l \in Seq(C)
    BY <2>1
  <2> QED
    BY <2>2 DEF C
<1>5. Parts(m)
  BY SoundParts
<1>6. AddrGen(m, u) = [m EXCEPT !.unit[u].taken = v, !.ldq = l]
  BY <1>5 DEF Parts, AddrGen
<1> HIDE DEF v, l
<1>7. [m EXCEPT !.unit[u].taken = v, !.ldq = l] = Queued(n, l)
  BY <1>5 DEF Parts, Queued, Taking
<1>8. Sound(n, done) /\ n.insn = m.insn
  BY <1>3, TakingSound
<1> HIDE DEF n
<1> QED
  BY <1>4, <1>6, <1>7, <1>8, QueuedSound

LEMMA SendLoadReqSound ==
  ASSUME Wiring(cfg), NEW m, NEW done, Sound(m, done), NEW u \in DOMAIN cfg.unit
  PROVE  Sound(SendLoadReq(m, u), done)
<1>1. CASE m.ldq = <<>>
  BY <1>1 DEF SendLoadReq
<1>2. CASE m.ldq # <<>>
  <2> DEFINE b == TB!Set(m.unit[u].dCache, Head(m.ldq))
             l == Tail(m.ldq)
             n == Cached(m, u, b)
  <2>1. m.ldq \in Seq(Complete(m.insn))
    BY DEF Sound
  <2>2. Head(m.ldq) \in Complete(m.insn) /\ l \in Seq(Complete(m.insn))
    <3> DEFINE C == Complete(m.insn)
    <3> HIDE DEF C
    <3>1. \A q \in Seq(C) : q # <<>> => Head(q) \in C /\ Tail(q) \in Seq(C)
      OBVIOUS
    <3> QED
      BY <1>2, <2>1, <3>1 DEF C
  <2>3. m.unit[u].dCache \in Latch(Complete(m.insn))
    BY UnitFields DEF UnitState
  <2>4. b \in Latch(Complete(m.insn))
    BY <2>2, <2>3, LatchSet
  <2>5. Parts(m)
    BY SoundParts
  <2>6. SendLoadReq(m, u) = [m EXCEPT !.unit[u].dCache = b, !.ldq = l]
    BY <1>2, <2>5 DEF Parts, SendLoadReq
  <2> HIDE DEF b, l
  <2>7. [m EXCEPT !.unit[u].dCache = b, !.ldq = l] = Queued(n, l)
    BY <2>5 DEF Parts, Queued, Cached
  <2>8. Sound(n, done) /\ n.insn = m.insn
    BY <2>4, CachedSound
  <2> HIDE DEF n
  <2> QED
    BY <2>2, <2>6, <2>7, <2>8, QueuedSound
<1> QED
  BY <1>1, <1>2

LEMMA ReceiveResponseSound ==
  ASSUME Wiring(cfg), NEW m, NEW done, Sound(m, done), NEW u \in DOMAIN cfg.unit
  PROVE  Sound(ReceiveResponse(m, u), done)
<1> DEFINE out == TB!OutPort(m.unit[u].dCache, cfg.dCacheLatency)
<1>1. m.unit[u].dCache \in Latch(Complete(m.insn))
  BY UnitFields DEF UnitState
<1>2. out = <<>> \/ out[1] \in Complete(m.insn)
  BY <1>1, LatchOut
<1>3. CASE out = <<>> \/ ~InBuffer(out[1])
  BY <1>3 DEF ReceiveResponse
<1>4. CASE out # <<>> /\ InBuffer(out[1]) /\ FreeWbPorts(m, u) = {}
  <2>1. ReceiveResponse(m, u) = Fires(m, TRUE, "UnAllowed WriteBack Failed")
    BY <1>4 DEF ReceiveResponse
  <2> QED
    BY <2>1, SoundFires
<1>5. CASE out # <<>> /\ InBuffer(out[1]) /\ FreeWbPorts(m, u) # {}
  <2>1. ReceiveResponse(m, u) = ToWbPort(m, u, out[1])
    BY <1>5 DEF ReceiveResponse
  <2>2. out[1] \in Complete(m.insn)
    BY <1>2, <1>5
  <2> HIDE DEF out
  <2> QED
    BY <1>5, <2>1, <2>2, ToWbPortSound
<1> QED
  BY <1>3, <1>4, <1>5

LEMMA ExecuteSound ==
  ASSUME Wiring(cfg), NEW done, Sound(iew, done), Execute
  PROVE  Sound(iew', done)
<1> DEFINE n == Len(cfg.unit)
<1>1. PICK h : /\ iew' = h[n]
               /\ h[0] = iew
               /\ \A k \in 1 .. n : h[k] = EvaluateUnit(h[k - 1], k)
  BY UnitsRun
<1> DEFINE T == {k \in 0 .. n : Sound(h[k], done)}
<1>2. n \in Nat /\ DOMAIN cfg.unit = 1 .. n
  BY WiringFacts
<1>3. 0 \in T
  BY <1>1, <1>2
<1>4. ASSUME NEW k \in 1 .. n, k - 1 \in T
      PROVE  k \in T
  <2>1. Sound(h[k - 1], done) /\ h[k] = EvaluateUnit(h[k - 1], k) /\ k \in DOMAIN cfg.unit
    BY <1>1, <1>2, <1>4
  <2> DEFINE m == h[k - 1]
             a == AddrGen(m, k)
             b == SendLoadReq(a, k)
  <2> HIDE DEF m, a, b
  <2>2. Sound(a, done)
    BY <2>1, AddrGenSound DEF m, a
  <2>3. Sound(b, done)
    BY <2>1, <2>2, SendLoadReqSound DEF b
  <2>4. Sound(ReceiveResponse(b, k), done)
    BY <2>1, <2>3, ReceiveResponseSound
  <2>5. Sound(Compute(m, k), done)
    BY <2>1, ComputeSound DEF m
  <2>6. Sound(EvaluateUnit(m, k), done)
    BY <2>4, <2>5 DEF EvaluateUnit, a, b
  <2> QED
    BY <2>1, <2>6 DEF m
<1> HIDE DEF n
<1>5. n \in T
  <2> HIDE DEF T
  <2> QED
    BY <1>2, <1>3, <1>4, LastRound
<1> QED
  BY <1>1, <1>5


-----------------------------------------------------------------------------
(* Dispatch.                                                               *)

LEMMA PackageFacts ==
  ASSUME Wiring(cfg), NEW pkg \in Packages
  PROVE  pkg \in Seq(cfg.templates)
<1>1. PICK n \in 0 .. cfg.allocWidth : pkg \in [1 .. n -> cfg.templates]
  BY DEF Packages, BoundedSeq, SeqOf
<1>2. n \in Nat
  BY <1>1, WiringFacts
<1> QED
  BY <1>1, <1>2

LEMMA TryOneCounts ==
  ASSUME NEW a, NEW t, NEW k \in Nat, a.count \in 0 .. k,
         a = [count |-> a.count, room |-> a.room, go |-> a.go]
  PROVE  LET b == TryOne(a, t)
         IN  b.count \in 0 .. (k + 1) /\ b = [count |-> b.count, room |-> b.room, go |-> b.go]
<1>1. CASE ~a.go
  BY <1>1 DEF TryOne
<1>2. CASE a.go /\ t.fu = "NOP"
  <2>1. TryOne(a, t) = [a EXCEPT !.count = @ + 1]
    BY <1>2 DEF TryOne
  <2> QED
    BY <2>1
<1>3. CASE a.go /\ t.fu # "NOP"
  <2>1. CASE Entrances(iew, a.room, t.fu) = {}
    <3>1. TryOne(a, t) = [a EXCEPT !.go = FALSE]
      BY <1>3, <2>1 DEF TryOne
    <3>2. \A v : [a EXCEPT !.go = v] = [count |-> a.count, room |-> a.room, go |-> v]
      OBVIOUS
    <3>3. PICK v : TryOne(a, t) = [count |-> a.count, room |-> a.room, go |-> v]
      BY <3>1, <3>2
    <3> QED
      BY <3>3
  <2>2. CASE Entrances(iew, a.room, t.fu) # {}
    <3> DEFINE room == [a.room EXCEPT ![cfg.top[Min(Entrances(iew, a.room, t.fu))]] = @ - 1]
               go == ~ControlFlow(t)
    <3>1. TryOne(a, t) = [count |-> a.count + 1, room |-> room, go |-> go]
      BY <1>3, <2>2 DEF TryOne
    <3> HIDE DEF room, go
    <3> QED
      BY <3>1
  <2> QED
    BY <2>1, <2>2
<1> QED
  BY <1>1, <1>2, <1>3

LEMMA TryDispatchCounts ==
  ASSUME NEW S, NEW pkg \in Seq(S)
  PROVE  TryDispatch(pkg) \in 0 .. Len(pkg)
<1> DEFINE n == Len(pkg)
           Good(a, k) == a.count \in 0 .. k /\ a = [count |-> a.count, room |-> a.room, go |-> a.go]
           room == [s \in ToSet(cfg.top) |-> Min({GetAvailibleEntryCount(cfg.sched[s], Q(iew, s)), cfg.sched[s].enqueWidth})]
<1>1. PICK h : /\ TryDispatch(pkg) = h[n].count
               /\ h[0] = [count |-> 0, go |-> TRUE, room |-> room]
               /\ \A k \in 1 .. n : h[k] = TryOne(h[k - 1], pkg[k])
  BY TriesRun
<1> HIDE DEF room
<1> DEFINE T == {k \in 0 .. n : Good(h[k], k)}
<1>2. n \in Nat
  OBVIOUS
<1>3. 0 \in T
  BY <1>1, <1>2
<1>4. ASSUME NEW k \in 1 .. n, k - 1 \in T
      PROVE  k \in T
  <2>1. Good(h[k - 1], k - 1) /\ h[k] = TryOne(h[k - 1], pkg[k])
    BY <1>1, <1>4
  <2> DEFINE a == h[k - 1]
             j == k - 1
             t == pkg[k]
  <2>2. j \in Nat /\ j + 1 = k
    BY <1>2
  <2> HIDE DEF a, j, t
  <2>3. Good(TryOne(a, t), j + 1)
    BY <2>1, <2>2, TryOneCounts DEF a, j
  <2> HIDE DEF Good
  <2> QED
    BY <2>1, <2>2, <2>3 DEF a, t
<1> HIDE DEF n
<1>5. n \in T
  <2> HIDE DEF T
  <2> QED
    BY <1>2, <1>3, <1>4, LastRound
<1> QED
  BY <1>1, <1>5 DEF n

LEMMA TakenFacts ==
  ASSUME Wiring(cfg), Buffer, NEW pkg \in Packages
  PROVE  Taken(pkg) \in Seq(cfg.templates) /\ Len(Taken(pkg)) <= Len(pkg)
<1> DEFINE room == cfg.robSize - Len(rob.queue)
           n == Min({TryDispatch(pkg), room})
<1>1. pkg \in Seq(cfg.templates)
  BY PackageFacts
<1>2. TryDispatch(pkg) \in 0 .. Len(pkg)
  BY <1>1, TryDispatchCounts
<1>3. room \in Int
  BY WiringFacts DEF Buffer
<1> HIDE DEF room
<1>4. n \in Int /\ n <= TryDispatch(pkg)
  <2>1. TryDispatch(pkg) \in Int
    BY <1>1, <1>2
  <2>2. n \in {TryDispatch(pkg), room} /\ n <= TryDispatch(pkg)
    BY <1>3, <2>1, MinOfTwo
  <2> QED
    BY <1>3, <2>1, <2>2
<1>5. Taken(pkg) = SubSeq(pkg, 1, n)
  BY DEF Taken, room
<1> HIDE DEF n
<1>6. SubSeq(pkg, 1, n) \in Seq(cfg.templates) /\ Len(SubSeq(pkg, 1, n)) <= Len(pkg)
  <2> DEFINE T == cfg.templates
  <2>1. pkg \in Seq(T) /\ n \in Int /\ n <= Len(pkg)
    BY <1>1, <1>2, <1>4
  <2> HIDE DEF T
  <2>2. Len(pkg) \in Nat /\ \A k \in 1 .. Len(pkg) : pkg[k] \in T
    BY <2>1
  <2>3. SubSeq(pkg, 1, n) = [k \in 1 .. (IF n < 0 THEN 0 ELSE n) |-> pkg[k]]
    BY <2>1
  <2>4. SubSeq(pkg, 1, n) \in Seq(T) /\ Len(SubSeq(pkg, 1, n)) <= Len(pkg)
    BY <2>1, <2>2, <2>3
  <2> QED
    BY <2>4 DEF T
<1> QED
  BY <1>5, <1>6

LEMMA RenamedFacts ==
  ASSUME Wiring(cfg), Insns(iew.insn), Buffer, NEW taken \in Seq(cfg.templates),
         Len(iew.insn) + Len(taken) <= MaxInsns, MaxInsns \in Nat
  PROVE  /\ Renamed(taken) \in Seq(DynInsn) /\ Len(Renamed(taken)) = Len(taken)
         /\ \A k \in 1 .. Len(taken) : /\ Renamed(taken)[k].stale = {}
                                       /\ Renamed(taken)[k].ready = {}
<1> DEFINE n == Len(iew.insn)
           tail == rob.header + Len(rob.queue)
           fresh == [k \in 1 .. Len(taken) |->
                       NewInsn(taken[k], Sources(taken, k), (tail + k - 1) % cfg.robSize)]
<1>1. Renamed(taken) = fresh
  BY DEF Renamed
<1>2. n \in Nat /\ tail \in Int /\ Len(taken) \in Nat /\ cfg.robSize \in Nat \ {0}
  <2>1. n \in Nat
    BY DEF Insns
  <2>2. Len(taken) \in Nat
    OBVIOUS
  <2> QED
    BY <2>1, <2>2, WiringFacts DEF Buffer
<1>3. ASSUME NEW k \in 1 .. Len(taken)
      PROVE  /\ fresh[k] \in DynInsn /\ fresh[k].stale = {} /\ fresh[k].ready = {}
  <2> DEFINE src == Sources(taken, k)
             t == taken[k]
             g == (tail + k - 1) % cfg.robSize
  <2>1. src \in SUBSET (Ids \union {Nil})
    <3>1. \A d : Writers(taken, n + k, d) \subseteq 1 .. (n + k - 1)
      BY DEF Writers
    <3>2. \A d : Writers(taken, n + k, d) \subseteq Ids
      BY <1>2, <3>1 DEF Ids
    <3> QED
      BY <3>2 DEF Sources
  <2>2. /\ t.fu \in FuncType /\ t.rd \in BOOLEAN /\ t.bad \in BOOLEAN
    <3> DEFINE F == [fu : FuncType, dist : SUBSET Nat, rd : BOOLEAN, bad : BOOLEAN]
    <3>1. cfg.templates \subseteq F
      BY DEF Wiring
    <3>2. t \in cfg.templates
      OBVIOUS
    <3> HIDE DEF t
    <3> QED
      BY <3>1, <3>2
  <2>3. g \in 0 .. (cfg.robSize - 1)
    <3> HIDE DEF tail
    <3> QED
      BY <1>2
  <2>4. fresh[k] = NewInsn(t, src, g)
    OBVIOUS
  <2> HIDE DEF fresh, src, t, g
  <2> QED
    BY <2>1, <2>2, <2>3, <2>4 DEF DynInsn, NewInsn
<1>4. Len(fresh) = Len(taken) /\ DOMAIN fresh = 1 .. Len(taken)
  BY <1>2
<1> HIDE DEF fresh
<1>5. fresh \in Seq(DynInsn)
  <2>1. fresh = [k \in 1 .. Len(taken) |-> fresh[k]]
    BY DEF fresh
  <2> QED
    BY <1>2, <1>3, <2>1
<1> QED
  BY <1>1, <1>3, <1>4, <1>5

LEMMA DispatchInsnSound ==
  ASSUME Wiring(cfg), NEW m, NEW done, Sound(m, done), NEW id \in DOMAIN m.insn
  PROVE  Sound(DispatchInsn(m, id), done) /\ DispatchInsn(m, id).insn = m.insn
<1> DEFINE room == [s \in ToSet(cfg.top) |-> 1]
           c == Entrances(m, room, m.insn[id].fu)
           s == cfg.top[Min(c)]
           i == NextIndex(cfg.sched[s], Q(m, s))
           a == AllocateIn(m, s)
<1>1. CASE m.insn[id].fu = "NOP"
  BY <1>1 DEF DispatchInsn
<1>2. CASE m.insn[id].fu # "NOP" /\ c = {}
  <2>1. DispatchInsn(m, id) = Fires(m, TRUE, "Unexpected Dispatch Fail!")
    BY <1>2 DEF DispatchInsn
  <2>2. ASSUME NEW failed, NEW name
        PROVE  Sound(Fires(m, failed, name), done) /\ Fires(m, failed, name).insn = m.insn
    BY SoundFires
  <2> HIDE DEF c
  <2> QED
    BY <2>1, <2>2
<1>3. CASE m.insn[id].fu # "NOP" /\ c # {}
  <2>1. DispatchInsn(m, id) = Schedule(a, s, i, id)
    BY <1>3 DEF DispatchInsn
  <2>2. s \in DOMAIN cfg.sched /\ ~SchedBusy(m, s)
    <3>1. c \subseteq DOMAIN cfg.top
      BY DEF Entrances
    <3>2. c \subseteq Nat
      BY <3>1, WiringFacts
    <3>3. Min(c) \in c
      BY <1>3, <3>2, MinOfNats
    <3>4. ~SchedBusy(m, s)
      BY <3>3 DEF Entrances
    <3> QED
      BY <3>1, <3>3, <3>4, WiringFacts
  <2> HIDE DEF s
  <2>3. Sound(a, done) /\ a.insn = m.insn
    BY <2>2, AllocateInSound
  <2>4. i \in Int
    <3>1. GetAvailibleEntryCount(cfg.sched[s], m.sched[s].q) # 0
      BY <2>2 DEF SchedBusy
    <3>2. m.sched[s].q \in QueueState(cfg.sched[s], DOMAIN m.insn)
      BY <2>2, SchedFields
    <3>3. cfg.sched[s].order \in Orders /\ cfg.sched[s].entries \in Nat \ {0}
      BY <2>2, SchedFacts
    <3> QED
      BY <3>1, <3>2, <3>3, QueueNextIndex DEF Q
  <2> HIDE DEF a, i
  <2>5. id \in DOMAIN a.insn /\ Sound(a, done) /\ s \in DOMAIN cfg.sched
    BY <2>2, <2>3
  <2> HIDE DEF c, room
  <2>6. \A x \in DOMAIN cfg.sched : \A l \in Int : \A y \in DOMAIN a.insn :
          Sound(Schedule(a, x, l, y), done) /\ Schedule(a, x, l, y).insn = a.insn
    BY <2>5, ScheduleKeeps
  <2> QED
    BY <2>1, <2>3, <2>4, <2>5, <2>6
<1> QED
  BY <1>1, <1>2, <1>3

\* The instructions of a package follow those IEW has.
LEMMA PackageSound ==
  ASSUME Wiring(cfg), MaxInsns \in Nat, NEW done, Sound(iew, done), Buffer,
         NEW pkg \in Packages, Dispatch(pkg)
  PROVE  LET fresh == Renamed(Taken(pkg))
             base == [iew EXCEPT !.insn = @ \o fresh]
         IN  /\ fresh \in Seq(DynInsn) /\ Len(fresh) \in Nat
             /\ Len(iew.insn) \in Nat /\ Len(iew.insn \o fresh) = Len(iew.insn) + Len(fresh)
             /\ Insns(iew.insn \o fresh)
             /\ Sound(base, done) /\ base.insn = iew.insn \o fresh
<1> DEFINE fresh == Renamed(Taken(pkg))
           n == Len(fresh)
           j == iew.insn \o fresh
           base == [iew EXCEPT !.insn = j]
<1>1. Insns(iew.insn) /\ Parts(iew)
  BY DEF Sound
<1>2. Taken(pkg) \in Seq(cfg.templates) /\ Len(Taken(pkg)) <= Len(pkg)
  BY TakenFacts
<1>3. Len(iew.insn) + Len(Taken(pkg)) <= MaxInsns
  <2>1. Len(pkg) \in Nat
    BY PackageFacts
  <2>2. Len(Taken(pkg)) \in Nat
    BY <1>2
  <2>3. Len(iew.insn) + Len(pkg) <= MaxInsns
    BY DEF Dispatch
  <2>4. Len(iew.insn) \in Nat
    BY <1>1 DEF Insns
  <2> QED
    BY <1>2, <2>1, <2>2, <2>3, <2>4
<1>4. /\ fresh \in Seq(DynInsn) /\ n = Len(Taken(pkg))
      /\ \A k \in 1 .. n : fresh[k].stale = {} /\ fresh[k].ready = {}
  BY <1>1, <1>2, <1>3, RenamedFacts
<1>5. n \in Nat
  BY <1>2, <1>4
<1>6. Insns(j) /\ Reaches(iew.insn, j) /\ Len(j) = Len(iew.insn) + n
  <2>1. iew.insn \in Seq(DynInsn)
    BY <1>1 DEF Insns
  <2> DEFINE i == iew.insn
             f == fresh
             S == DynInsn
  <2> HIDE DEF i, f, S
  <2>2. i \in Seq(S) /\ f \in Seq(S)
    BY <1>4, <2>1 DEF i, f, S
  <2>3. /\ i \o f \in Seq(S) /\ Len(i \o f) = Len(i) + Len(f)
        /\ DOMAIN (i \o f) = 1 .. (Len(i) + Len(f)) /\ DOMAIN i = 1 .. Len(i)
        /\ DOMAIN f = 1 .. Len(f) /\ Len(i) \in Nat /\ Len(f) \in Nat
        /\ \A k \in 1 .. (Len(i) + Len(f)) :
             (i \o f)[k] = IF k <= Len(i) THEN i[k] ELSE f[k - Len(i)]
    BY <2>2
  <2>4. j = i \o f
    BY DEF i, f
  <2>5. Insns(i) /\ Len(i) + Len(f) <= MaxInsns
    BY <1>1, <1>3, <1>4 DEF i, f
  <2>6. \A k \in DOMAIN f : f[k].stale = {} /\ f[k].ready = {}
    BY <1>4, <2>3 DEF f
  <2> HIDE DEF j
  <2>7. Insns(j)
    <3>1. ASSUME NEW k \in DOMAIN j
          PROVE  j[k].stale = {} /\ j[k].ready \subseteq j[k].srcs
      <4>1. CASE k <= Len(i)
        BY <2>3, <2>4, <2>5, <4>1 DEF Insns
      <4>2. CASE ~(k <= Len(i))
        <5>1. k - Len(i) \in DOMAIN f /\ j[k] = f[k - Len(i)]
          BY <2>3, <2>4, <4>2
        <5> QED
          BY <2>6, <5>1
      <4> QED
        BY <4>1, <4>2
    <3> QED
      BY <2>3, <2>4, <2>5, <3>1 DEF Insns, S
  <2>8. Reaches(i, j)
    BY <2>3, <2>4 DEF Reaches
  <2>9. Len(j) = Len(i) + Len(f)
    BY <2>3, <2>4
  <2> QED
    BY <2>7, <2>8, <2>9 DEF i, f
<1> HIDE DEF j
<1>7. Sound(base, done) /\ base.insn = j
  <2>1. done \subseteq done
    OBVIOUS
  <2> QED
    BY <1>6, <2>1, SoundGrows
<1>8. base = [iew EXCEPT !.insn = @ \o fresh]
  BY DEF j
<1>9. Len(iew.insn) \in Nat
  BY <1>1 DEF Insns
<1> HIDE DEF base, fresh, n
<1>10. Len(fresh) \in Nat /\ Len(j) = Len(iew.insn) + Len(fresh) /\ fresh \in Seq(DynInsn)
  BY <1>4, <1>5, <1>6 DEF n
<1> QED
  BY <1>6, <1>7, <1>8, <1>9, <1>10 DEF j, fresh

LEMMA DispatchSound ==
  ASSUME Wiring(cfg), MaxInsns \in Nat, NEW done, Sound(iew, done), Buffer,
         NEW pkg \in Packages, Dispatch(pkg)
  PROVE  Sound(iew', done) /\ Buffer'
<1> DEFINE fresh == Renamed(Taken(pkg))
           n == Len(fresh)
           j == iew.insn \o fresh
           Good(m) == Sound(m, done) /\ m.insn = j
<1>4. /\ fresh \in Seq(DynInsn) /\ n \in Nat
      /\ Len(iew.insn) \in Nat /\ Len(j) = Len(iew.insn) + n /\ Insns(j)
      /\ Good([iew EXCEPT !.insn = @ \o fresh])
  BY PackageSound
<1>5. n \in Nat
  BY <1>4
<1> HIDE DEF j
<1>9. PICK h : /\ iew' = h[n]
               /\ h[0] = [iew EXCEPT !.insn = @ \o fresh]
               /\ \A k \in 1 .. n : h[k] = DispatchInsn(h[k - 1], Len(iew.insn) + k)
  BY <1>5, DispatchRuns
<1> DEFINE T == {k \in 0 .. n : Good(h[k])}
<1> HIDE DEF n, fresh
<1>10. 0 \in T
  <2> HIDE DEF Good
  <2> QED
    BY <1>4, <1>5, <1>9
<1>11. ASSUME NEW k \in 1 .. n, k - 1 \in T
       PROVE  k \in T
  <2>1. Good(h[k - 1]) /\ h[k] = DispatchInsn(h[k - 1], Len(iew.insn) + k)
    BY <1>9, <1>11
  <2> DEFINE m == h[k - 1]
             id == Len(iew.insn) + k
  <2>2. id \in DOMAIN j
    <3>1. j \in Seq(DynInsn) /\ Len(j) = Len(iew.insn) + n /\ Len(iew.insn) \in Nat
      BY <1>4 DEF Insns, n
    <3> QED
      BY <1>5, <3>1
  <2> HIDE DEF m, id
  <2>3. Sound(DispatchInsn(m, id), done) /\ DispatchInsn(m, id).insn = m.insn
    BY <2>1, <2>2, DispatchInsnSound DEF m
  <2> QED
    BY <2>1, <2>3 DEF m, id
<1>12. n \in T
  <2> HIDE DEF T
  <2> QED
    BY <1>5, <1>10, <1>11, LastRound
<1>13. Sound(iew', done)
  BY <1>9, <1>12
<1>14. Buffer'
  <2> DEFINE tags == {fresh[k].tag : k \in 1 .. n}
             nops == {fresh[k].tag : k \in {l \in 1 .. n : fresh[l].fu = "NOP"}}
             stops == n > 0 /\ ControlFlow(fresh[n])
             queue == rob.queue \o [k \in 1 .. n |-> Len(iew.insn) + k]
             st == IF stops THEN "Undo" ELSE rob.state
             tag == IF stops THEN fresh[n].tag ELSE rob.rollBackTag
             d == (rob.done \ tags) \union nops
             b == (rob.stable \ tags) \union nops
  <2>1. rob' = [rob EXCEPT !.queue = queue, !.done = d, !.stable = b,
                           !.state = st, !.rollBackTag = tag]
    BY DEF Buffer, Dispatch, fresh, n
  <2>2. Len(queue) \in Nat
    <3>1. Len(rob.queue) \in Nat
      BY DEF Buffer
    <3> QED
      BY <1>5, <3>1
  <2>3. tag \in Int
    <3>1. stops => fresh[n] \in DynInsn
      BY <1>4, <1>5 DEF n
    <3>2. stops => fresh[n].tag \in 0 .. (cfg.robSize - 1) /\ cfg.robSize \in Nat
      BY <3>1, WiringFacts DEF DynInsn
    <3> QED
      BY <3>2 DEF Buffer
  <2> HIDE DEF queue, st, tag, d, b
  <2>4. /\ rob' = [queue |-> queue, header |-> rob.header, done |-> d, stable |-> b,
                   state |-> st, rollBackTag |-> tag, toCommit |-> rob.toCommit]
    BY <2>1 DEF Buffer
  <2> QED
    BY <2>2, <2>3, <2>4 DEF Buffer
<1> QED
  BY <1>13, <1>14


-----------------------------------------------------------------------------
(* WriteBack and Forwarding.                                               *)

LEMMA SoundDone ==
  ASSUME Wiring(cfg), NEW m, NEW done, Sound(m, done), NEW after, done \subseteq after
  PROVE  Sound(m, after)
<1>1. Insns(m.insn) /\ Reaches(m.insn, m.insn) /\ Parts(m)
  BY DEF Sound, Reaches
<1>2. Sound([m EXCEPT !.insn = m.insn], after)
  BY <1>1, SoundGrows
<1>3. [m EXCEPT !.insn = m.insn] = m
  BY <1>1 DEF Parts
<1> QED
  BY <1>2, <1>3

LEMMA SoundRedirect ==
  ASSUME NEW m, NEW done, Sound(m, done), NEW x \in Ids0
  PROVE  Sound([m EXCEPT !.redirect = x], done)
<1> DEFINE n == [m EXCEPT !.redirect = x]
<1>1. /\ n.unit = m.unit /\ n.port = m.port /\ n.wb = m.wb /\ n.ldq = m.ldq
      /\ n.redirect = x /\ n.insn = m.insn /\ n.sched = m.sched /\ Parts(n)
  BY SoundParts DEF Parts
<1> HIDE DEF n
<1> QED
  BY <1>1 DEF Sound, n

\* The re-order buffer and the redirect port as the write-back ports leave them.
LeftByPorts(a) ==
  /\ a = [rob |-> a.rob, redirect |-> a.redirect] /\ a.redirect \in Ids0
  /\ a.rob = [queue |-> rob.queue, header |-> rob.header, done |-> a.rob.done,
              stable |-> a.rob.stable, state |-> a.rob.state,
              rollBackTag |-> a.rob.rollBackTag, toCommit |-> rob.toCommit]
  /\ a.rob.rollBackTag \in Int

LEMMA RcuWriteBackKeeps ==
  ASSUME Wiring(cfg), NEW a, LeftByPorts(a), NEW id \in Ids, iew.insn[id].tag \in Int
  PROVE  LeftByPorts(RcuWriteBack(a, id))
<1> DEFINE y == iew.insn[id]
           r == a.rob
           st == IF TakesOver(r, y) THEN "Undo" ELSE IF Resumes(r, y) THEN "Idle" ELSE r.state
           tag == IF TakesOver(r, y) THEN y.tag ELSE r.rollBackTag
           d == r.done \union {y.tag}
           b == r.stable \union {y.tag}
           q == IF ~InRob(r, y.tag) THEN r
                ELSE [r EXCEPT !.done = d, !.stable = b, !.state = st, !.rollBackTag = tag]
           x == IF TakesOver(r, y) /\ Mispredicts(y) THEN id ELSE a.redirect
<1>1. tag \in Int /\ x \in Ids0
  BY DEF LeftByPorts, Ids0
<1>2. RcuWriteBack(a, id) = [rob |-> q, redirect |-> x]
  <2>1. r = [queue |-> r.queue, header |-> r.header, done |-> r.done, stable |-> r.stable,
             state |-> r.state, rollBackTag |-> r.rollBackTag, toCommit |-> r.toCommit]
    BY DEF LeftByPorts
  <2>2. [r EXCEPT !.done = @ \union {y.tag}, !.stable = @ \union {y.tag},
                  !.state = IF TakesOver(r, y) THEN "Undo"
                            ELSE IF Resumes(r, y) THEN "Idle" ELSE @,
                  !.rollBackTag = IF TakesOver(r, y) THEN y.tag ELSE @]
        = [r EXCEPT !.done = d, !.stable = b, !.state = st, !.rollBackTag = tag]
    BY <2>1
  <2> QED
    BY <2>2 DEF RcuWriteBack
<1> HIDE DEF y, st, tag, d, b, x
<1>3. q \in {r, [r EXCEPT !.done = d, !.stable = b, !.state = st, !.rollBackTag = tag]}
  OBVIOUS
<1> HIDE DEF q
<1>4. q = r \/ q = [queue |-> rob.queue, header |-> rob.header, done |-> d, stable |-> b,
                    state |-> st, rollBackTag |-> tag, toCommit |-> rob.toCommit]
  <2>1. PICK d0, s0, t0, b0 : r = [queue |-> rob.queue, header |-> rob.header, done |-> d0,
           stable |-> s0, state |-> t0, rollBackTag |-> b0, toCommit |-> rob.toCommit]
    BY DEF LeftByPorts
  <2> HIDE DEF r
  <2> QED
    BY <1>3, <2>1
<1> QED
  BY <1>1, <1>2, <1>4 DEF LeftByPorts

LEMMA WriteBackSound ==
  ASSUME Wiring(cfg), MaxInsns \in Nat, Registers, Buffer, Sound(iew, regs.done), WriteBack
  PROVE  Sound(iew', regs'.done) /\ Registers' /\ Buffer'
<1> DEFINE n == Len(cfg.wb)
<1>1. PICK h : /\ rob' = h[n].rob /\ iew' = [iew EXCEPT !.redirect = h[n].redirect]
               /\ h[0] = [rob |-> rob, redirect |-> Nil]
               /\ \A k \in 1 .. n : h[k] = EvaluateWbPort(h[k - 1], k)
  BY WbPortsRun
<1> DEFINE T == {k \in 0 .. n : LeftByPorts(h[k])}
<1>2. n \in Nat /\ DOMAIN cfg.wb = 1 .. n
  BY WiringFacts
<1>3. LeftByPorts([rob |-> rob, redirect |-> Nil])
  BY DEF Buffer, LeftByPorts, Ids0
<1>4. 0 \in T
  BY <1>1, <1>2, <1>3
<1>5. \A id \in DOMAIN iew.insn : id \in Ids /\ iew.insn[id] \in DynInsn
  <2>1. iew.insn \in Seq(DynInsn) /\ Len(iew.insn) <= MaxInsns
    BY DEF Sound, Insns
  <2> QED
    BY <2>1 DEF Ids
<1>6. ASSUME NEW k \in 1 .. n, k - 1 \in T
      PROVE  k \in T
  <2>1. LeftByPorts(h[k - 1]) /\ h[k] = EvaluateWbPort(h[k - 1], k)
    BY <1>1, <1>6
  <2> DEFINE a == h[k - 1]
  <2> HIDE DEF a
  <2>2. LeftByPorts(EvaluateWbPort(a, k))
    <3>1. CASE iew.wb[k].out = <<>>
      BY <2>1, <3>1 DEF EvaluateWbPort, a
    <3>2. CASE iew.wb[k].out # <<>>
      <4> DEFINE id == iew.wb[k].out[1]
      <4>1. iew.wb[k] \in Latch(Complete(iew.insn))
        BY <1>2 DEF Sound
      <4>2. id \in DOMAIN iew.insn
        BY <3>2, <4>1 DEF Latch, Port, Complete
      <4>3. id \in Ids /\ iew.insn[id].tag \in Int
        BY <1>5, <4>2, WiringFacts DEF DynInsn
      <4>4. EvaluateWbPort(a, k) = RcuWriteBack(a, id)
        BY <3>2 DEF EvaluateWbPort
      <4> HIDE DEF id
      <4> QED
        BY <2>1, <4>3, <4>4, RcuWriteBackKeeps DEF a
    <3> QED
      BY <3>1, <3>2
  <2> QED
    BY <2>1, <2>2 DEF a
<1> HIDE DEF n
<1>7. n \in T
  <2> HIDE DEF T
  <2> QED
    BY <1>2, <1>4, <1>6, LastRound
<1> DEFINE written == {id \in DOMAIN iew.insn :
                         LET y == iew.insn[id]
                         IN  /\ \E w \in DOMAIN iew.wb : iew.wb[w].out = <<id>>
                             /\ InRob(rob, y.tag) /\ y.rd /\ ~Faults(y)}
<1>8. written \in SUBSET Ids
  BY <1>5
<1>9. regs' = [done |-> regs.done \union written, forwarding |-> regs.forwarding \ written,
               file |-> regs.file \union written]
  BY DEF WriteBack
<1> HIDE DEF written
<1>10. Registers'
  <2>1. cfg' = cfg
    BY DEF WriteBack
  <2> QED
    BY <1>8, <1>9, <2>1 DEF Registers, Ids0
<1>11. Sound(iew', regs'.done)
  <2> DEFINE x == h[n].redirect
             after == regs'.done
  <2>1. x \in Ids0
    BY <1>7 DEF LeftByPorts
  <2>2. regs.done \subseteq after
    BY <1>9
  <2> HIDE DEF x, after
  <2>3. Sound(iew, after)
    BY <2>2, SoundDone
  <2>4. Sound([iew EXCEPT !.redirect = x], after)
    BY <2>1, <2>3, SoundRedirect
  <2> QED
    BY <1>1, <2>4 DEF x, after
<1>12. Buffer'
  BY <1>1, <1>7 DEF LeftByPorts, Buffer
<1> QED
  BY <1>10, <1>11, <1>12

LEMMA ForwardingSound ==
  ASSUME Wiring(cfg), MaxInsns \in Nat, Registers, Sound(iew, regs.done), Forwarding
  PROVE  Sound(iew', regs'.done) /\ Registers'
<1> DEFINE results == {id \in DOMAIN iew.insn :
                         iew.insn[id].rd /\ \E w \in DOMAIN iew.wb : iew.wb[w].in = <<id>>}
           visible == IF cfg.forwardResult THEN results ELSE {}
           j == [id \in DOMAIN iew.insn |-> Woken(id, results)]
<1>1. iew.insn \in Seq(DynInsn) /\ Len(iew.insn) <= MaxInsns /\ Insns(iew.insn) /\ Parts(iew)
  BY DEF Sound, Insns
<1>2. /\ DOMAIN iew.insn = 1 .. Len(iew.insn) /\ Len(iew.insn) \in Nat
      /\ \A id \in DOMAIN iew.insn : id \in Ids /\ iew.insn[id] \in DynInsn
  BY <1>1 DEF Ids
<1>3. results \subseteq Ids /\ visible \subseteq results
  BY <1>2
<1>4. /\ cfg' = cfg
      /\ regs' = RcuForwarding([regs EXCEPT !.forwarding = @ \union results], visible)
  BY DEF Forwarding
<1>5. iew' = [iew EXCEPT !.insn = j]
  BY <1>1 DEF Forwarding, Parts
<1>6. ASSUME NEW id \in DOMAIN iew.insn
      PROVE  LET y == Woken(id, results)
             IN  /\ y \in DynInsn /\ y.stale = {} /\ y.ready \subseteq y.srcs
                 /\ y.srcs = iew.insn[id].srcs /\ iew.insn[id].ready \subseteq y.ready
  <2> DEFINE x == iew.insn[id]
             heard == {z \in results \intersect x.srcs : Hears(id, z)}
             g == x.ready \union heard
  <2>1. x \in DynInsn /\ x.stale = {} /\ x.ready \subseteq x.srcs
    BY <1>1, <1>2 DEF Insns
  <2>2. g \subseteq x.srcs /\ x.ready \subseteq g
    BY <2>1
  <2>3. Woken(id, results) = [x EXCEPT !.ready = g]
    <3> HIDE DEF results
    <3> QED
      BY <2>1 DEF Woken, DynInsn
  <2> HIDE DEF x, g
  <2> QED
    BY <2>1, <2>2, <2>3 DEF DynInsn, x
<1>7. Insns(j) /\ Reaches(iew.insn, j)
  <2>1. \A id \in DOMAIN iew.insn : j[id] = Woken(id, results)
    OBVIOUS
  <2>2. DOMAIN j = DOMAIN iew.insn
    OBVIOUS
  <2>3. j = [id \in 1 .. Len(iew.insn) |-> Woken(id, results)]
    BY <1>2
  <2> HIDE DEF j, results
  <2>4. j \in Seq(DynInsn) /\ Len(j) = Len(iew.insn)
    BY <1>2, <1>6, <2>3
  <2> QED
    BY <1>1, <1>6, <2>1, <2>2, <2>4 DEF Insns, Reaches
<1> HIDE DEF j, results
<1>8. regs' = [done |-> regs.done \union visible, forwarding |-> regs.forwarding \union results,
               file |-> regs.file \union visible]
  BY <1>4 DEF RcuForwarding, Registers
<1>9. Registers'
  <2>1. visible \subseteq Ids0 /\ results \subseteq Ids0
    BY <1>3 DEF Ids0
  <2>2. cfg.forwardResult => visible = results
    OBVIOUS
  <2> HIDE DEF visible
  <2>3. /\ regs'.done = regs.done \union visible /\ regs'.file = regs.file \union visible
        /\ regs'.forwarding = regs.forwarding \union results
        /\ regs' \in [done : SUBSET Ids0, forwarding : SUBSET Ids0, file : SUBSET Ids0]
    BY <1>8, <2>1 DEF Registers
  <2> QED
    BY <1>4, <2>2, <2>3 DEF Registers
<1>10. Sound(iew', regs'.done)
  <2> DEFINE after == regs'.done
  <2>1. regs.done \subseteq after
    BY <1>8
  <2> HIDE DEF after
  <2>2. Sound([iew EXCEPT !.insn = j], after)
    BY <1>7, <2>1, SoundGrows
  <2> QED
    BY <1>5, <2>2 DEF after
<1> QED
  BY <1>9, <1>10


-----------------------------------------------------------------------------
(* Commit.                                                                 *)

Four(m, a, b, c, d) == [m EXCEPT !.sched = a, !.unit = b, !.port = c, !.wb = d]

LEMMA PartsSet ==
  ASSUME NEW m, Parts(m), NEW a, NEW b, NEW c, NEW d
  PROVE  /\ Four(m, a, b, c, d).sched = a /\ Four(m, a, b, c, d).unit = b
         /\ Four(m, a, b, c, d).port = c /\ Four(m, a, b, c, d).wb = d
         /\ Four(m, a, b, c, d).ldq = m.ldq /\ Four(m, a, b, c, d).redirect = m.redirect
         /\ Four(m, a, b, c, d).insn = m.insn /\ Parts(Four(m, a, b, c, d))
<1> DEFINE x == [m EXCEPT !.sched = a]
           y == [x EXCEPT !.unit = b]
           z == [y EXCEPT !.port = c]
<1>1. Parts(x) /\ x.sched = a /\ x.ldq = m.ldq /\ x.redirect = m.redirect /\ x.insn = m.insn
  BY DEF Parts
<1>2. Four(m, a, b, c, d) = [z EXCEPT !.wb = d]
  BY DEF Four
<1> HIDE DEF x
<1>3. /\ Parts(y) /\ y.unit = b /\ y.sched = a
      /\ y.ldq = m.ldq /\ y.redirect = m.redirect /\ y.insn = m.insn
  BY <1>1 DEF Parts
<1> HIDE DEF y
<1>4. /\ Parts(z) /\ z.port = c /\ z.unit = b /\ z.sched = a
      /\ z.ldq = m.ldq /\ z.redirect = m.redirect /\ z.insn = m.insn
  BY <1>3 DEF Parts
<1> HIDE DEF z
<1> QED
  BY <1>2, <1>4 DEF Parts

\* A re-order buffer Buffer would accept.
Shape(r) ==
  /\ r = [queue |-> r.queue, header |-> r.header, done |-> r.done, stable |-> r.stable,
          state |-> r.state, rollBackTag |-> r.rollBackTag, toCommit |-> r.toCommit]
  /\ Len(r.queue) \in Nat /\ r.header \in Int /\ r.toCommit \in Int /\ r.rollBackTag \in Int

LEMMA CommittedShape ==
  ASSUME Wiring(cfg), Buffer
  PROVE  Shape(Committed) /\ Committed.rollBackTag = rob.rollBackTag
<1> DEFINE k == rob.toCommit
           resumes == rob.state = "WaitForResume" /\ Distance(rob, rob.rollBackTag) < k
           q == SubSeq(rob.queue, k + 1, Len(rob.queue))
           h == (rob.header + k) % cfg.robSize
           st == IF resumes THEN "FlushBackend" ELSE rob.state
<1>1. Committed = [rob EXCEPT !.queue = q, !.header = h, !.state = st]
  BY DEF Committed, Buffer
<1>2. k \in Int /\ Len(rob.queue) \in Int /\ rob.header \in Int /\ cfg.robSize \in Nat \ {0}
  BY WiringFacts DEF Buffer
<1>3. h \in Int
  <2> HIDE DEF k
  <2> QED
    BY <1>2
<1>4. Len(q) \in Nat
  BY <1>2
<1> HIDE DEF k, resumes, q, h, st
<1>5. Committed = [queue |-> q, header |-> h, done |-> rob.done, stable |-> rob.stable,
                   state |-> st, rollBackTag |-> rob.rollBackTag, toCommit |-> rob.toCommit]
  BY <1>1 DEF Buffer
<1> QED
  BY <1>3, <1>4, <1>5 DEF Shape, Buffer

LEMMA CommitReqInt ==
  ASSUME Wiring(cfg), NEW r, Shape(r)
  PROVE  /\ CommitReq(r) \in Nat /\ CommitReq(r) <= Len(r.queue)
         /\ \A j \in 1 .. CommitReq(r) :
              LET tag == iew.insn[r.queue[j]].tag IN tag \in r.done /\ ReadyForCommit(r, tag)
<1> DEFINE n == Min({cfg.deallocWidth, Len(r.queue)})
           T == {k \in 0 .. n : \A j \in 1 .. k : LET tag == iew.insn[r.queue[j]].tag
                                                  IN  tag \in r.done /\ ReadyForCommit(r, tag)}
<1>1. n \in Nat /\ n <= Len(r.queue)
  <2>1. /\ cfg.deallocWidth \in Nat /\ Len(r.queue) \in Nat
        /\ cfg.deallocWidth \in Int /\ Len(r.queue) \in Int
    BY WiringFacts DEF Shape
  <2>2. n \in {cfg.deallocWidth, Len(r.queue)} /\ n <= Len(r.queue)
    BY <2>1, MinOfTwo
  <2> QED
    BY <2>1, <2>2
<1> HIDE DEF n
<1>2. T \subseteq 0 .. n /\ 0 \in T
  BY <1>1
<1>3. CommitReq(r) = Max(T)
  BY DEF CommitReq, n
<1>4. Max(T) \in T
  <2> HIDE DEF T
  <2> QED
    BY <1>1, <1>2, LargestOfSet
<1>5. CommitReq(r) \in T
  BY <1>3, <1>4
<1>6. CommitReq(r) \in 0 .. n
  BY <1>5
<1> QED
  BY <1>1, <1>5, <1>6 DEF Shape

LEMMA RecoveredShape ==
  ASSUME Wiring(cfg), NEW r, Shape(r)
  PROVE  Shape(Recovered(r))
<1> DEFINE k == Min({Newer(r), cfg.allocWidth})
           q == SubSeq(r.queue, 1, Len(r.queue) - k)
           st == IF k = Newer(r) THEN "WaitForResume" ELSE r.state
<1>1. CASE r.state = "Undo"
  <2>1. Newer(r) \in Int
    <3>1. cfg.robSize \in Nat \ {0}
      BY WiringFacts
    <3>2. Distance(r, r.rollBackTag) \in Int
      BY <3>1 DEF Distance, Shape
    <3> QED
      BY <3>2 DEF Newer, Shape
  <2>2. k \in Int
    <3>1. cfg.allocWidth \in Int
      BY WiringFacts
    <3>2. k \in {Newer(r), cfg.allocWidth}
      BY <2>1, <3>1, MinOfTwo
    <3> QED
      BY <2>1, <3>1, <3>2
  <2>3. Recovered(r) = [r EXCEPT !.queue = q, !.state = st]
    BY <1>1 DEF Recovered, Shape
  <2>4. Len(q) \in Nat
    BY <2>2 DEF Shape
  <2> HIDE DEF q, st
  <2>5. Recovered(r) = [queue |-> q, header |-> r.header, done |-> r.done, stable |-> r.stable,
                        state |-> st, rollBackTag |-> r.rollBackTag, toCommit |-> r.toCommit]
    BY <2>3 DEF Shape
  <2> QED
    BY <2>4, <2>5 DEF Shape
<1>2. CASE r.state = "FlushBackend"
  <2>1. Recovered(r) = [r EXCEPT !.state = "Idle"]
    BY <1>2 DEF Recovered
  <2>2. Recovered(r) = [queue |-> r.queue, header |-> r.header, done |-> r.done,
           stable |-> r.stable, state |-> "Idle", rollBackTag |-> r.rollBackTag,
           toCommit |-> r.toCommit]
    BY <2>1 DEF Shape
  <2> QED
    BY <2>2 DEF Shape
<1>3. CASE r.state \notin {"Undo", "FlushBackend"}
  <2>1. Recovered(r) = r
    BY <1>3 DEF Recovered
  <2> QED
    BY <2>1
<1> QED
  BY <1>1, <1>2, <1>3

LEMMA FlushedSound ==
  ASSUME Wiring(cfg), NEW m, NEW done, Sound(m, done)
  PROVE  Sound(Flushed(m), done) /\ Flushed(m).insn = m.insn
<1> DEFINE n == Flushed(m)
           a == [s \in DOMAIN m.sched |-> FlushSched(m.sched[s])]
           b == [u \in DOMAIN m.unit |-> FlushUnit(m.unit[u])]
           c == [p \in DOMAIN m.port |-> TB!Flush(m.port[p])]
           d == [w \in DOMAIN m.wb |-> TB!Flush(m.wb[w])]
<1>1. /\ n.sched = a /\ n.unit = b /\ n.port = c /\ n.wb = d
      /\ n.ldq = m.ldq /\ n.redirect = m.redirect /\ n.insn = m.insn /\ Parts(n)
  <2>1. n = Four(m, a, b, c, d)
    BY DEF Flushed, Four
  <2>2. Parts(m)
    BY SoundParts
  <2> HIDE DEF n, a, b, c, d
  <2> QED
    BY <2>1, <2>2, PartsSet
<1> HIDE DEF n
<1>2. ASSUME NEW s \in DOMAIN cfg.sched
      PROVE  n.sched[s] \in SchedState(cfg.sched[s], DOMAIN m.insn)
  <2>1. m.sched[s] \in SchedState(cfg.sched[s], DOMAIN m.insn) /\ s \in DOMAIN m.sched
    BY SchedFields
  <2>2. FlushSched(m.sched[s]) \in SchedState(cfg.sched[s], DOMAIN m.insn)
    <3> DEFINE x == m.sched[s]
               e == Seq([index : Int, id : DOMAIN m.insn])
    <3>1. <<>> \in e
      OBVIOUS
    <3> HIDE DEF x, e
    <3>2. \A v \in BOOLEAN : [x EXCEPT !.enq = <<>>, !.flush = v] \in SchedState(cfg.sched[s], DOMAIN m.insn)
      BY <2>1, <3>1 DEF SchedState, x, e
    <3> QED
      BY <3>2 DEF FlushSched, x
  <2> QED
    BY <1>1, <2>1, <2>2
<1>3. n.unit \in [DOMAIN cfg.unit -> UnitState(Complete(m.insn))]
  <2>1. m.unit \in [DOMAIN cfg.unit -> UnitState(Complete(m.insn))]
    BY DEF Sound
  <2>2. ASSUME NEW x \in UnitState(Complete(m.insn))
        PROVE  FlushUnit(x) \in UnitState(Complete(m.insn))
    <3>1. TB!Flush(x.pipe) \in Latch(Complete(m.insn))
      BY LatchMarks DEF UnitState
    <3> QED
      BY <3>1 DEF UnitState, FlushUnit
  <2> HIDE DEF UnitState
  <2> QED
    BY <1>1, <2>1, <2>2
<1>4. /\ n.port \in [1 .. cfg.ports -> Latch(Entry(m.insn, done))]
      /\ n.wb \in [DOMAIN cfg.wb -> Latch(Complete(m.insn))]
  <2>1. /\ m.port \in [1 .. cfg.ports -> Latch(Entry(m.insn, done))]
        /\ m.wb \in [DOMAIN cfg.wb -> Latch(Complete(m.insn))]
    BY DEF Sound
  <2>2. /\ \A p \in 1 .. cfg.ports : TB!Flush(m.port[p]) \in Latch(Entry(m.insn, done))
        /\ \A w \in DOMAIN cfg.wb : TB!Flush(m.wb[w]) \in Latch(Complete(m.insn))
    BY <2>1, LatchMarks
  <2> QED
    BY <1>1, <2>1, <2>2
<1>5. DOMAIN n.sched = DOMAIN cfg.sched
  BY <1>1 DEF Sound
<1> QED
  BY <1>1, <1>2, <1>3, <1>4, <1>5 DEF Sound, n

LEMMA KilledSound ==
  ASSUME Wiring(cfg), NEW m, NEW done, Sound(m, done), NEW gone
  PROVE  Sound(Killed(m, gone), done)
<1> DEFINE l == Without(m.ldq, gone)
           y(id) == IF id \in gone THEN [m.insn[id] EXCEPT !.killed = TRUE] ELSE m.insn[id]
           j == [id \in DOMAIN m.insn |-> y(id)]
           n == Queued(m, l)
<1>1. l \in Seq(Complete(m.insn))
  <2>1. m.ldq \in Seq(Complete(m.insn))
    BY DEF Sound
  <2> QED
    BY <2>1, WithoutType
<1>2. Sound(n, done) /\ n.insn = m.insn
  BY <1>1, QueuedSound
<1>3. Insns(m.insn) /\ Parts(m)
  BY DEF Sound
<1>4. /\ DOMAIN m.insn = 1 .. Len(m.insn) /\ Len(m.insn) \in Nat
      /\ \A id \in DOMAIN m.insn : m.insn[id] \in DynInsn
  <2>1. m.insn \in Seq(DynInsn)
    BY <1>3 DEF Insns
  <2> HIDE DEF j
  <2> QED
    BY <2>1
<1>5. ASSUME NEW id \in DOMAIN m.insn
      PROVE  /\ y(id) \in DynInsn /\ y(id).stale = m.insn[id].stale
             /\ y(id).ready = m.insn[id].ready /\ y(id).srcs = m.insn[id].srcs
  <2>1. m.insn[id] \in DynInsn
    BY <1>4
  <2>2. y(id) = m.insn[id] \/ \E k \in BOOLEAN : y(id) = [m.insn[id] EXCEPT !.killed = k]
    OBVIOUS
  <2> HIDE DEF y
  <2> QED
    BY <2>1, <2>2 DEF DynInsn
<1>6. Insns(j) /\ Reaches(m.insn, j)
  <2>1. \A id \in DOMAIN m.insn : j[id] = y(id)
    OBVIOUS
  <2>2. DOMAIN j = DOMAIN m.insn
    OBVIOUS
  <2>3. j = [id \in 1 .. Len(m.insn) |-> y(id)]
    BY <1>4
  <2> HIDE DEF j, y
  <2>4. j \in Seq(DynInsn) /\ Len(j) = Len(m.insn)
    BY <1>4, <1>5, <2>3
  <2> QED
    BY <1>3, <1>5, <2>1, <2>2, <2>4 DEF Insns, Reaches
<1>7. Killed(m, gone) = [n EXCEPT !.insn = j]
  <2>1. Killed(m, gone) = [m EXCEPT !.ldq = l, !.insn = j]
    BY DEF Killed
  <2> HIDE DEF l, j
  <2> QED
    BY <1>3, <2>1 DEF Parts, Queued
<1> HIDE DEF n, j
<1>8. Sound([n EXCEPT !.insn = j], done)
  <2>1. done \subseteq done
    OBVIOUS
  <2> QED
    BY <1>2, <1>6, <2>1, SoundGrows
<1> QED
  BY <1>7, <1>8

LEMMA CommitSound ==
  ASSUME Wiring(cfg), NEW done, Sound(iew, done), Buffer, Commit
  PROVE  Sound(iew', done) /\ Buffer'
<1> DEFINE r == Committed
           c == CommitReq(r)
           sent == [r EXCEPT !.toCommit = c]
           gone == ToSet(sent.queue) \ ToSet(Recovered(sent).queue)
           m == FlushForward(iew, sent.state)
<1>1. rob' = Recovered(sent) /\ iew' = Killed(m, gone)
  BY DEF Commit
<1>2. Shape(r)
  BY CommittedShape
<1> HIDE DEF r
<1>3. c \in Int
  BY <1>2, CommitReqInt
<1> HIDE DEF c
<1>4. Shape(sent)
  BY <1>2, <1>3 DEF Shape
<1> HIDE DEF sent, gone
<1>5. Shape(rob')
  BY <1>1, <1>4, RecoveredShape
<1>6. Sound(m, done)
  BY FlushedSound DEF FlushForward
<1> HIDE DEF m
<1>7. Sound(iew', done)
  BY <1>1, <1>6, KilledSound
<1> QED
  BY <1>5, <1>7 DEF Buffer, Shape

-----------------------------------------------------------------------------
(* Advance.                                                                *)

LEMMA AdvanceSound ==
  ASSUME Wiring(cfg), NEW done, Sound(iew, done), Advance
  PROVE  Sound(iew', done)
<1> DEFINE n == iew'
           sa == [s \in DOMAIN iew.sched |-> AdvanceSched(cfg.sched[s], iew.sched[s])]
           sb == [u \in DOMAIN iew.unit |->
                   IF IsMemoryUnit(u) THEN AdvanceLsu(cfg.unit[u], iew.unit[u])
                   ELSE AdvanceUnit(cfg.unit[u], iew.unit[u])]
           sc == [p \in DOMAIN iew.port |-> TB!Advance(iew.port[p], cfg.rfLatency)]
           sd == [w \in DOMAIN iew.wb |-> TB!Advance(iew.wb[w], 1)]
<1>1. /\ n.sched = sa /\ n.unit = sb /\ n.port = sc /\ n.wb = sd
      /\ n.ldq = iew.ldq /\ n.redirect = iew.redirect /\ n.insn = iew.insn /\ Parts(n)
  <2>1. n = Four(iew, sa, sb, sc, sd)
    BY DEF Advance, Four
  <2>2. Parts(iew)
    BY SoundParts
  <2> HIDE DEF n, sa, sb, sc, sd
  <2> QED
    BY <2>1, <2>2, PartsSet
<1> HIDE DEF n
<1>2. ASSUME NEW s \in DOMAIN cfg.sched
      PROVE  n.sched[s] \in SchedState(cfg.sched[s], DOMAIN iew.insn)
  <2> DEFINE c == cfg.sched[s]
             x == iew.sched[s]
             q == DispatchEntries(x.q, x.enq)
             q2 == IF x.flush THEN ResetQueue(c, q) ELSE q
  <2>1. x \in SchedState(c, DOMAIN iew.insn) /\ s \in DOMAIN iew.sched
    BY SchedFields
  <2>2. c.order \in Orders /\ c.entries \in Nat \ {0} /\ c.enqueWidth \in Nat
    BY SchedFacts
  <2>3. x.q \in QueueState(c, DOMAIN iew.insn) /\ x.enq \in Seq([index : Int, id : DOMAIN iew.insn])
    BY <2>1 DEF SchedState
  <2> HIDE DEF c, x
  <2>4. q \in QueueState(c, DOMAIN iew.insn)
    BY <2>2, <2>3, QueueDispatch
  <2> HIDE DEF q
  <2>5. q2 \in QueueState(c, DOMAIN iew.insn)
    BY <2>2, <2>4, QueueReset
  <2>6. AdvanceSched(c, x) = [q |-> q2, enq |-> <<>>, room |-> c.enqueWidth, flush |-> FALSE]
    BY DEF AdvanceSched, q
  <2> HIDE DEF q2
  <2>7. AdvanceSched(c, x) \in SchedState(c, DOMAIN iew.insn)
    BY <2>2, <2>5, <2>6 DEF SchedState
  <2> QED
    BY <1>1, <2>1, <2>7 DEF c, x
<1>3. ASSUME NEW u \in DOMAIN cfg.unit
      PROVE  n.unit[u] \in UnitState(Complete(iew.insn))
  <2> DEFINE S == Complete(iew.insn)
             f == iew.unit[u]
             c == cfg.unit[u]
             v == f.taken /\ ~c.pipelined /\ ~f.flush
             b == TB!Advance(f.pipe, c.latency)
             d == TB!Advance(f.dCache, cfg.dCacheLatency)
             x == AdvanceUnit(c, f)
  <2>1. f \in UnitState(S) /\ u \in DOMAIN iew.unit
    BY UnitFields DEF Sound
  <2>2. f.pipe \in Latch(S) /\ f.dCache \in Latch(S) /\ c.latency \in Nat /\ cfg.dCacheLatency \in Nat
    BY <2>1, UnitFacts, WiringFacts DEF UnitState
  <2> HIDE DEF S, f, c
  <2>3. b \in Latch(S) /\ d \in Latch(S)
    BY <2>2, LatchAdvance
  <2>4. x = [f EXCEPT !.pipe = b, !.taken = v, !.flush = FALSE]
    BY <2>1 DEF AdvanceUnit, UnitState
  <2>5. v \in BOOLEAN
    OBVIOUS
  <2> HIDE DEF v, b, d, x
  <2>6. x \in UnitState(S)
    BY <2>1, <2>3, <2>4, <2>5 DEF UnitState
  <2>7. AdvanceLsu(c, f) = [x EXCEPT !.dCache = d]
    <3>1. x.dCache = f.dCache
      BY <2>1, <2>4 DEF UnitState
    <3> QED
      BY <2>6, <3>1 DEF AdvanceLsu, x, d, UnitState
  <2>8. AdvanceLsu(c, f) \in UnitState(S)
    BY <2>3, <2>6, <2>7 DEF UnitState
  <2> QED
    BY <1>1, <2>1, <2>6, <2>8 DEF S, f, c, x
<1>4. /\ n.port \in [1 .. cfg.ports -> Latch(Entry(iew.insn, done))]
      /\ n.wb \in [DOMAIN cfg.wb -> Latch(Complete(iew.insn))]
  <2>1. /\ iew.port \in [1 .. cfg.ports -> Latch(Entry(iew.insn, done))]
        /\ iew.wb \in [DOMAIN cfg.wb -> Latch(Complete(iew.insn))]
    BY DEF Sound
  <2>2. cfg.rfLatency \in Nat /\ 1 \in Nat
    BY WiringFacts
  <2>3. \A p \in 1 .. cfg.ports :
          TB!Advance(iew.port[p], cfg.rfLatency) \in Latch(Entry(iew.insn, done))
    BY <2>1, <2>2, LatchAdvance
  <2>4. \A w \in DOMAIN cfg.wb : TB!Advance(iew.wb[w], 1) \in Latch(Complete(iew.insn))
    BY <2>1, <2>2, LatchAdvance
  <2> QED
    BY <1>1, <2>1, <2>3, <2>4
<1>5. DOMAIN n.sched = DOMAIN cfg.sched
  BY <1>1 DEF Sound
<1>6. n.unit \in [DOMAIN cfg.unit -> UnitState(Complete(iew.insn))]
  <2>1. DOMAIN iew.unit = DOMAIN cfg.unit
    BY DEF Sound
  <2>2. n.unit = [u \in DOMAIN cfg.unit |-> n.unit[u]]
    BY <1>1, <2>1
  <2> QED
    BY <1>3, <2>2
<1>7. Insns(iew.insn) /\ iew.ldq \in Seq(Complete(iew.insn)) /\ iew.redirect \in Ids0
  BY DEF Sound
<1>8. Sound(n, done)
  BY <1>1, <1>2, <1>4, <1>5, <1>6, <1>7 DEF Sound
<1> QED
  BY <1>8 DEF n

-----------------------------------------------------------------------------
(* The theorems.                                                           *)

LEMMA WiringOfConfig ==
  ASSUME cfg \in Configs
  PROVE  Wiring(cfg) /\ MaxInsns \in Nat
BY IssueConstants

LEMMA TickPhase ==
  ASSUME NEW p \in 1 .. 8, Tick(p)
  PROVE  phase' \in ToSet(Phases)
<1>1. Len(Phases) = 8
  BY DEF Phases, IewPhases
<1>2. (p % 8) + 1 \in 1 .. 8
  OBVIOUS
<1>3. DOMAIN Phases = 1 .. 8
  BY DEF Phases, IewPhases
<1> QED
  BY <1>1, <1>2, <1>3 DEF Tick, ToSet

\* The predicates are about the same wiring before and after a step.
LEMMA SameWiring ==
  ASSUME cfg' = cfg, Sound(iew', regs'.done)
  PROVE  Sound(iew, regs.done)'
<1>1. OperandsAwaited' = OperandsAwaited
  BY DEF OperandsAwaited
<1>2. DynInsn' = DynInsn
  BY DEF DynInsn
<1>3. Insns(iew.insn)' = Insns(iew.insn')
  BY <1>2 DEF Insns
<1>4. Complete(iew.insn)' = Complete(iew.insn')
  BY <1>1 DEF Complete
<1>5. Entry(iew.insn, regs.done)' = Entry(iew.insn', regs.done')
  BY <1>1 DEF Entry
<1> QED
  BY <1>3, <1>4, <1>5 DEF Sound

LEMMA FlowInit ==
  ASSUME Init
  PROVE  Flow
<1>1. cfg \in Configs /\ Wiring(cfg) /\ MaxInsns \in Nat
  BY WiringOfConfig DEF Init
<1>2. /\ iew.insn = <<>> /\ iew.ldq = <<>> /\ iew.redirect = Nil /\ Parts(iew)
      /\ iew.sched = [s \in DOMAIN cfg.sched |-> Blank(cfg.sched[s])]
      /\ iew.unit = [u \in DOMAIN cfg.unit |->
                       [pipe |-> TB!Empty, taken |-> FALSE, flush |-> FALSE,
                        dCache |-> TB!Empty]]
      /\ iew.port = [p \in 1 .. cfg.ports |-> TB!Empty]
      /\ iew.wb = [w \in DOMAIN cfg.wb |-> TB!Empty]
  BY DEF Init, Parts
<1>3. Insns(iew.insn)
  BY <1>1, <1>2 DEF Insns
<1>4. ASSUME NEW s \in DOMAIN cfg.sched
      PROVE  iew.sched[s] \in SchedState(cfg.sched[s], DOMAIN iew.insn)
  <2> DEFINE c == cfg.sched[s]
             S == DOMAIN iew.insn
  <2>1. c.order \in Orders /\ c.entries \in Nat \ {0} /\ c.enqueWidth \in Nat
    BY <1>1, SchedFacts
  <2>2. iew.sched[s] = Blank(c)
    BY <1>2
  <2> HIDE DEF c, S
  <2>3. Vacant(c) \in QueueState(c, S) /\ <<>> \in Seq([index : Int, id : S])
    BY <2>1, QueueVacant
  <2>4. Blank(c) \in SchedState(c, S)
    BY <2>1, <2>3 DEF Blank, SchedState
  <2> QED
    BY <2>2, <2>4 DEF c, S
<1>5. iew.unit \in [DOMAIN cfg.unit -> UnitState(Complete(iew.insn))]
  BY <1>2, EmptyLatch DEF UnitState
<1>6. /\ iew.port \in [1 .. cfg.ports -> Latch(Entry(iew.insn, regs.done))]
      /\ iew.wb \in [DOMAIN cfg.wb -> Latch(Complete(iew.insn))]
  BY <1>2, EmptyLatch
<1>7. iew.ldq \in Seq(Complete(iew.insn)) /\ iew.redirect \in Ids0
  BY <1>2 DEF Ids0
<1>8. DOMAIN iew.sched = DOMAIN cfg.sched
  BY <1>2
<1>9. Sound(iew, regs.done)
  BY <1>2, <1>3, <1>4, <1>5, <1>6, <1>7, <1>8 DEF Sound
<1>10. Registers
  BY DEF Init, Registers, Ids0
<1>11. Buffer
  BY DEF Init, Buffer
<1>12. phase \in ToSet(Phases)
  BY DEF Init, Phases, IewPhases, ToSet
<1> QED
  BY <1>1, <1>9, <1>10, <1>11, <1>12 DEF Flow

LEMMA FlowStep ==
  ASSUME Flow, [Next]_vars
  PROVE  Flow'
<1>1. Wiring(cfg) /\ MaxInsns \in Nat /\ cfg \in Configs
  BY WiringOfConfig DEF Flow
<1>2. Sound(iew, regs.done) /\ Registers /\ Buffer /\ phase \in ToSet(Phases)
  BY DEF Flow
<1>3. SUFFICES /\ cfg' = cfg /\ phase' \in ToSet(Phases) /\ Sound(iew', regs'.done)
               /\ Registers' /\ Buffer'
  BY <1>1, SameWiring DEF Flow
<1> DEFINE Kept == regs' = regs /\ cfg' = cfg
<1>4. Kept => Registers' /\ regs'.done = regs.done
  BY <1>2 DEF Registers
<1>5. rob' = rob => Buffer'
  BY <1>2 DEF Buffer
<1>6. CASE WriteBack
  <2>1. cfg' = cfg /\ phase' \in ToSet(Phases)
    BY <1>6, TickPhase DEF WriteBack
  <2> QED
    BY <1>1, <1>2, <1>6, <2>1, WriteBackSound
<1>7. CASE Execute
  <2>1. Kept /\ phase' \in ToSet(Phases)
    BY <1>7, TickPhase DEF Execute
  <2>2. Sound(iew', regs.done)
    BY <1>1, <1>2, <1>7, ExecuteSound
  <2>3. Buffer'
    <3>1. rob' = AGUFastDetect(rob, {id \in DOMAIN iew.insn : \E u \in DOMAIN cfg.unit :
             /\ IsMemoryUnit(u)
             /\ TB!OutPort(iew.unit[u].pipe, cfg.unit[u].latency) = <<id>>})
      BY <1>7 DEF Execute
    <3>2. ASSUME NEW ids
          PROVE  Shape(AGUFastDetect(rob, ids))
      <4> DEFINE a == rob.stable \union {iew.insn[id].tag : id \in ids}
                 b == rob.done \union {iew.insn[id].tag : id \in {x \in ids : iew.insn[x].fu = "STU"}}
      <4>1. AGUFastDetect(rob, ids) = [rob EXCEPT !.stable = a, !.done = b]
        BY <1>2 DEF AGUFastDetect, Buffer
      <4> HIDE DEF a, b
      <4>2. AGUFastDetect(rob, ids) =
              [queue |-> rob.queue, header |-> rob.header, done |-> b, stable |-> a,
               state |-> rob.state, rollBackTag |-> rob.rollBackTag, toCommit |-> rob.toCommit]
        BY <1>2, <4>1 DEF Buffer
      <4> QED
        BY <1>2, <4>2 DEF Shape, Buffer
    <3> QED
      BY <3>1, <3>2 DEF Buffer, Shape
  <2> QED
    BY <1>4, <2>1, <2>2, <2>3
<1>8. CASE Forwarding
  <2>1. cfg' = cfg /\ phase' \in ToSet(Phases) /\ rob' = rob
    BY <1>8, TickPhase DEF Forwarding
  <2> QED
    BY <1>1, <1>2, <1>5, <1>8, <2>1, ForwardingSound
<1>9. CASE Issue
  <2>1. Kept /\ phase' \in ToSet(Phases) /\ rob' = rob
    BY <1>9, TickPhase DEF Issue
  <2>2. Sound(iew', regs.done)
    BY <1>1, <1>2, <1>9, IssueSound
  <2> QED
    BY <1>4, <1>5, <2>1, <2>2
<1>10. CASE ReadOperand
  <2>1. Kept /\ phase' \in ToSet(Phases) /\ rob' = rob
    BY <1>10, TickPhase DEF ReadOperand
  <2>2. Sound(iew', regs.done)
    BY <1>1, <1>2, <1>10, ReadOperandSound
  <2> QED
    BY <1>4, <1>5, <2>1, <2>2
<1>11. ASSUME NEW pkg \in Packages, Dispatch(pkg)
       PROVE  /\ Kept /\ phase' \in ToSet(Phases)
              /\ Sound(iew', regs.done) /\ Buffer'
  <2>1. Kept /\ phase' \in ToSet(Phases)
    <3>1. Tick(6) /\ UNCHANGED <<cfg, regs>>
      BY <1>11, Zenon DEF Dispatch
    <3> QED
      BY <3>1, TickPhase
  <2>2. Sound(iew', regs.done) /\ Buffer'
    BY <1>1, <1>2, <1>11, DispatchSound
  <2> QED
    BY <2>1, <2>2
<1>12. CASE Commit
  <2>1. Kept /\ phase' \in ToSet(Phases)
    BY <1>12, TickPhase DEF Commit
  <2>2. Sound(iew', regs.done) /\ Buffer'
    BY <1>1, <1>2, <1>12, CommitSound
  <2> QED
    BY <1>4, <2>1, <2>2
<1>13. CASE Advance
  <2>1. Kept /\ phase' \in ToSet(Phases) /\ rob' = rob
    BY <1>13, TickPhase DEF Advance
  <2>2. Sound(iew', regs.done)
    BY <1>1, <1>2, <1>13, AdvanceSound
  <2> QED
    BY <1>4, <1>5, <2>1, <2>2
<1>14. CASE UNCHANGED vars
  <2>1. Kept /\ phase' = phase /\ rob' = rob /\ iew' = iew
    BY <1>14 DEF vars
  <2> QED
    BY <1>2, <1>4, <1>5, <2>1
<1> QED
  BY <1>4, <1>6, <1>7, <1>8, <1>9, <1>10, <1>11, <1>12, <1>13, <1>14 DEF Next

(* Whatever the wiring and the program, everything the issue path holds is *)
(* of the kind its place is for; and an instruction past the read ports    *)
(* has its operands, each read after the register file had it.             *)
THEOREM FlowAlways == Spec => []Flow
<1>1. Init => Flow
  BY FlowInit
<1>2. Flow /\ [Next]_vars => Flow'
  BY FlowStep
<1> QED
  BY <1>1, <1>2, PTL DEF Spec

LEMMA HeldInLatch ==
  ASSUME NEW S, NEW b \in Latch(S), NEW h \in Held(b)
  PROVE  h[3] \in S
<1>1. b.queue \in Seq([data : S, wait : Int])
  BY DEF Latch
<1>2. \A k \in DOMAIN b.queue : b.queue[k] \in [data : S, wait : Int]
  <2> DEFINE E == [data : S, wait : Int]
  <2> HIDE DEF E
  <2>1. b.queue \in Seq(E)
    BY <1>1 DEF E
  <2>2. \A k \in DOMAIN b.queue : b.queue[k] \in E
    BY <2>1
  <2> QED
    BY <2>2 DEF E
<1>3. b.in \in Port(S) /\ b.out \in Port(S)
  BY DEF Latch
<1>4. /\ \A k \in DOMAIN b.in : b.in[k] \in S
      /\ \A k \in DOMAIN b.out : b.out[k] \in S
      /\ \A k \in DOMAIN b.queue : b.queue[k].data \in S
  BY <1>2, <1>3 DEF Port
<1> QED
  BY <1>4 DEF Held

(* In a wiring where every instruction waits for its operands before it    *)
(* reaches a unit, as all configuration files are, a result is computed    *)
(* from operands that were all read, and none before its register was      *)
(* written: whatever the widths, the latencies, the order of the queues    *)
(* and the squashes.                                                       *)
THEOREM OperandsCurrentAlways == Spec => [](OperandsAwaited => OperandsCurrent)
<1>1. Flow => (OperandsAwaited => OperandsCurrent)
  <2> SUFFICES ASSUME Flow, OperandsAwaited, NEW id \in IdsAt(InWriteBack)
               PROVE  iew.insn[id].ready = iew.insn[id].srcs /\ iew.insn[id].stale = {}
    BY DEF OperandsCurrent
  <2>1. Sound(iew, regs.done)
    BY DEF Flow
  <2>2. id \in Complete(iew.insn)
    <3>1. PICK w \in DOMAIN iew.wb : \E h \in Held(iew.wb[w]) : id = h[3]
      BY DEF IdsAt, InWriteBack, Latched
    <3>2. iew.wb[w] \in Latch(Complete(iew.insn))
      BY <2>1 DEF Sound
    <3> QED
      BY <3>1, <3>2, HeldInLatch
  <2>3. Insns(iew.insn)
    BY <2>1 DEF Sound
  <2> QED
    BY <2>2, <2>3 DEF Complete, Insns
<1> QED
  BY <1>1, FlowAlways, PTL

=============================================================================

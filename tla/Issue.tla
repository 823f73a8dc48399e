-------------------------------- MODULE Issue --------------------------------
(***************************************************************************)
(* The issue path: schedulers, register-file read ports, functional units, *)
(* write-back ports, and as much of dispatch, the re-order buffer and      *)
(* commit as decides what they see (Rcu models the rest).  The path is     *)
(* wired by the configuration file, so the wiring is part of the state:    *)
(* one of Configs, chosen when the program starts.                         *)
(*                                                                         *)
(* One tick is the eight phases below, in the order the processor runs     *)
(* them; each phase visits its parts in the order of the configuration.    *)
(* Physical registers are named after the instruction that writes them:    *)
(* Rcu shows that two live instructions never share one.                   *)
(***************************************************************************)
EXTENDS Integers, SequencesExt, FiniteSetsExt

CONSTANTS
  Configs,    \* the wirings: see MCIssue for their fields
  MaxInsns    \* bound: instructions dispatched in a run

TB == INSTANCE TimeBuffer

VARIABLES
  cfg,
  phase,      \* the phase of the tick to run next
  iew,        \* the parts of IEW, insn: what the instructions carry
  rob,        \* re-order buffer, recovery and commit latch
  regs        \* busy list (done, forwarding) and register file

vars == <<cfg, phase, iew, rob, regs>>

IewPhases == <<"WriteBack", "Execute", "Forwarding", "Issue", "ReadOperand">>
Phases == IewPhases \o <<"Dispatch", "Commit", "Advance">>

Tick(p) == phase = Phases[p] /\ phase' = Phases[(p % Len(Phases)) + 1]

Orders == {"In-Order", "In-Age-Order", "Out-of-Order"}
WakeUps == {"None", "OperandReady", "RfQueue", "ResvrStation", "Commit"}

Ids == 1 .. MaxInsns
Nil == 0      \* nullptr in a queue slot; as a source, a register long since written

(* What an instruction carries: unit, sources (the instructions that write *)
(* them) and which of them it has, whether it writes a register and comes  *)
(* back mispredicted or faulting, its place in the buffer; killed and      *)
(* stale are history.  NOP stands for what needs no unit.                  *)
FuncType == {"ALU", "MUL", "DIV", "BRU", "CSR", "LDU", "STU", "NOP"}
DynInsn ==
  [fu : FuncType, rd : BOOLEAN, bad : BOOLEAN, tag : 0 .. (cfg.robSize - 1),
   srcs : SUBSET (Ids \union {Nil}), ready : SUBSET (Ids \union {Nil}),
   stale : SUBSET (Ids \union {Nil}), killed : BOOLEAN]

(* What the wiring of a configuration file is made of: the units, the      *)
(* schedulers in the order they are evaluated (top: those behind Dispatch) *)
(* and the write-back ports, each with the schedulers it wakes.  Of the    *)
(* instructions only a branch is mispredicted, and only the answer of the  *)
(* memory to a load is a fault.                                            *)
Wiring(c) ==
  /\ c.robSize \in Nat \ {0} /\ c.allocWidth \in Nat /\ c.deallocWidth \in Nat
  /\ c.ports \in Nat /\ c.rfLatency \in Nat /\ c.dCacheLatency \in Nat \ {0}
  /\ c.forwardResult \in BOOLEAN /\ c.speculation \in BOOLEAN
  /\ c.sched \in Seq([order : Orders, wakeUp : WakeUps, entries : Nat \ {0},
                      enqueWidth : Nat, dequeWidth : Nat, units : Seq(DOMAIN c.unit),
                      subs : Seq(DOMAIN c.sched), ports : Seq(1 .. c.ports)])
  /\ c.top \in Seq(DOMAIN c.sched)
  /\ c.unit \in Seq([kinds : SUBSET FuncType, latency : Nat \ {0},
                     pipelined : BOOLEAN, wb : Seq(DOMAIN c.wb)])
  /\ c.wb \in Seq(Seq(DOMAIN c.sched))
  /\ c.templates \subseteq [fu : FuncType, dist : SUBSET Nat, rd : BOOLEAN, bad : BOOLEAN]
  /\ \A t \in c.templates : t.bad => t.fu \in {"BRU", "LDU"}

ASSUME IssueConstants == MaxInsns \in Nat /\ \A c \in Configs : Wiring(c)

(* A loop of the program: base is the value before it, op(value, k) the    *)
(* value after its k-th round.                                             *)
Loop(op(_, _), base, n) ==
  LET after[k \in 0 .. n] == IF k = 0 THEN base ELSE op(after[k - 1], k)
  IN  after[n]

Without(seq, gone) ==
  Loop(LAMBDA rest, k : IF seq[k] \in gone THEN rest ELSE Append(rest, seq[k]),
       <<>>, Len(seq))

-----------------------------------------------------------------------------
(* The queue of a scheduler, by the order it issues in.  c is its          *)
(* configuration, q the queue.  The five classes of an order share it.     *)

Indices(c) == 0 .. (c.entries - 1)

Vacant(c) ==
  LET nils == [i \in Indices(c) |-> Nil]
  IN  CASE c.order = "In-Order"     -> [slots |-> nils, header |-> 0, usage |-> 0]
        [] c.order = "In-Age-Order" -> [slots |-> nils, bust |-> <<>>,
                                        free |-> [i \in 1 .. c.entries |-> i - 1]]
        [] c.order = "Out-of-Order" -> [slots |-> nils, valid |-> {}, usage |-> 0]

(* The out-of-order classes clear copies of their entries: only the usage  *)
(* count is reset.                                                         *)
ResetQueue(c, q) ==
  CASE c.order = "In-Order"     -> Vacant(c)
    [] c.order = "In-Age-Order" -> [Vacant(c) EXCEPT !.slots = q.slots]
    [] c.order = "Out-of-Order" -> [q EXCEPT !.usage = 0]

GetAvailibleEntryCount(c, q) ==
  IF c.order = "In-Age-Order" THEN Len(q.free) ELSE c.entries - q.usage

Live(c, q) == c.entries - GetAvailibleEntryCount(c, q)

(* The slot an allocation returns: -1 when the scan finds none.            *)
NextIndex(c, q) ==
  CASE c.order = "In-Order"     -> (q.header + q.usage) % c.entries
    [] c.order = "In-Age-Order" -> Head(q.free)
    [] c.order = "Out-of-Order" -> Min((Indices(c) \ q.valid) \union {c.entries})

AllocateEntry(c, q) ==
  LET i == NextIndex(c, q)
  IN  CASE c.order = "In-Order"     -> [q EXCEPT !.usage = @ + 1]
        [] c.order = "In-Age-Order" -> [q EXCEPT !.free = Tail(@),
                                                 !.bust = Append(@, i),
                                                 !.slots[i] = Nil]
        [] c.order = "Out-of-Order" ->
             IF i \notin Indices(c) THEN q
             ELSE [q EXCEPT !.valid = @ \union {i}, !.usage = @ + 1]

(* Pop of the circular queue leaves the slot as it is.                     *)
Deallocate(c, q, i) ==
  CASE c.order = "In-Order"     -> [q EXCEPT !.header = (@ + 1) % c.entries,
                                             !.usage = @ - 1]
    [] c.order = "In-Age-Order" -> [q EXCEPT !.free = Append(@, i),
                                             !.bust = Without(@, {i}),
                                             !.slots[i] = Nil]
    [] c.order = "Out-of-Order" -> [q EXCEPT !.valid = @ \ {i},
                                             !.slots[i] = Nil,
                                             !.usage = @ - 1]

(* The slots IssueSelect looks at, and the one of them it comes to first.  *)
AtHead(q) == {i \in {q.header} : q.slots[i] # Nil}
ByAge(q) == {i \in ToSet(q.bust) : q.slots[i] # Nil}
ByIndex(q) == {i \in q.valid : q.slots[i] # Nil}

Earliest(c, q, slots) ==
  IF c.order = "In-Age-Order" THEN q.bust[Min({k \in DOMAIN q.bust : q.bust[k] \in slots})]
  ELSE Min(slots)

(* The slots that hear a result: those between the cursors, or in use.     *)
Listening(c, q) ==
  CASE c.order = "In-Order"     ->
         {(q.header + k) % c.entries : k \in 0 .. (q.usage - 1)}
    [] c.order = "In-Age-Order" -> ToSet(q.bust)
    [] c.order = "Out-of-Order" -> IF q.usage = 0 THEN {} ELSE q.valid

-----------------------------------------------------------------------------
(* The re-order buffer, as issue sees it.                                  *)

Distance(r, tag) == (tag - r.header + cfg.robSize) % cfg.robSize
InRob(r, tag) == Distance(r, tag) < Len(r.queue)
IsOlder(r, a, b) == Distance(r, a) < Distance(r, b)

(* Mutant: what is ahead of the instruction may still fault.               *)
BadReadyForCommit(r, tag) ==
  IF r.state = "Idle" \/ IsOlder(r, tag, r.rollBackTag)
  THEN InRob(r, tag) /\ Distance(r, tag) < cfg.deallocWidth
  ELSE r.state = "WaitForResume" /\ r.rollBackTag = tag

ReadyForCommit(r, tag) ==
  IF r.state = "Idle" \/ IsOlder(r, tag, r.rollBackTag)
  THEN /\ InRob(r, tag) /\ Distance(r, tag) < cfg.deallocWidth
       /\ \A k \in 1 .. Distance(r, tag) :
            LET y == iew.insn[r.queue[k]]
            IN  y.tag \in r.stable \/ y.fu \notin {"LDU", "STU", "BRU"}
  ELSE r.state = "WaitForResume" /\ r.rollBackTag = tag

-----------------------------------------------------------------------------
(* Functional units and schedulers as destinations of an instruction.      *)

Kinds(u) == cfg.unit[u].kinds

(* AddFuncUnit, AddSubSchedular: no configuration nests deeper.            *)
SupportFunc(s) ==
  UNION ({Kinds(u) : u \in ToSet(cfg.sched[s].units)} \union
         {Kinds(u) : u \in UNION {ToSet(cfg.sched[t].units) :
                                  t \in ToSet(cfg.sched[s].subs)}})

(* Mutant: a unit claimed by an instruction on its way looks free.         *)
BadUnitBusy(m, u) ==
  \/ m.unit[u].pipe.stall
  \/ ~cfg.unit[u].pipelined /\ ~TB!IsDrained(m.unit[u].pipe, cfg.unit[u].latency)

UnitBusy(m, u) ==
  LET f == m.unit[u]
  IN  \/ f.taken \/ f.pipe.stall
      \/ ~cfg.unit[u].pipelined /\ ~TB!IsDrained(f.pipe, cfg.unit[u].latency)

SchedBusy(m, s) ==
  m.sched[s].room = 0 \/ GetAvailibleEntryCount(cfg.sched[s], m.sched[s].q) = 0

Fires(m, failed, name) == IF failed THEN [m EXCEPT !.fired = @ \union {name}] ELSE m

(* BaseFuncUnit::Issue                                                     *)
IssueToUnit(m, u, id) ==
  LET n == Fires(m, m.unit[u].pipe.in # <<>>, "FuncUnit issued twice in a cycle")
  IN  [n EXCEPT !.unit[u].taken = TRUE, !.unit[u].pipe = TB!Set(@, id)]

(* BaseSchedular::Allocate and Schedule                                    *)
AllocateIn(m, s) ==
  LET c == cfg.sched[s]
      n == Fires(m, NextIndex(c, m.sched[s].q) \notin Indices(c),
                 "Allocate When there is no available entry!")
  IN  [n EXCEPT !.sched[s].q = AllocateEntry(c, @), !.sched[s].room = @ - 1]

Schedule(m, s, i, id) ==
  [m EXCEPT !.sched[s].enq = Append(@, [index |-> i, id |-> id])]

(* The positions, in its units followed by its sub-schedulers, of what     *)
(* takes an instruction from scheduler s now, and the first of them.       *)
Takers(m, s, id) ==
  LET c == cfg.sched[s]
      fu == iew.insn[id].fu
  IN  {k \in DOMAIN c.units : fu \in Kinds(c.units[k]) /\ ~UnitBusy(m, c.units[k])} \union
      {Len(c.units) + k :
         k \in {j \in DOMAIN c.subs : fu \in SupportFunc(c.subs[j]) /\ ~SchedBusy(m, c.subs[j])}}

Taker(m, s, id) ==
  LET c == cfg.sched[s]
      k == Min(Takers(m, s, id))
  IN  IF k <= Len(c.units) THEN [toFu |-> TRUE, des |-> c.units[k]]
      ELSE [toFu |-> FALSE, des |-> c.subs[k - Len(c.units)]]

Left(m, s, i) == [m EXCEPT !.sched[s].q = Deallocate(cfg.sched[s], @, i)]

(* None and ResvrStation: the first candidate with a taker goes straight   *)
(* to it.  The result is a sequence: empty when nothing was selected.      *)
ToTaker(m, s, candidates) ==
  LET q == m.sched[s].q
      ok == {i \in candidates : Takers(m, s, q.slots[i]) # {}}
      i == Earliest(cfg.sched[s], q, ok)
      id == q.slots[i]
      d == Taker(m, s, id)
      slot == NextIndex(cfg.sched[d.des], m.sched[d.des].q)
      sent == IF d.toFu THEN IssueToUnit(m, d.des, id)
              ELSE Schedule(AllocateIn(m, d.des), d.des, slot, id)
  IN  IF ok = {} THEN <<>> ELSE <<Left(sent, s, i)>>

(* OperandReady, RfQueue and Commit: the first candidate claims its taker  *)
(* and goes through a free read port; without a taker the search ends.     *)
FreePorts(m, s) ==
  LET ports == cfg.sched[s].ports IN {k \in DOMAIN ports : m.port[ports[k]].in = <<>>}

ToReadPort(m, s, candidates) ==
  LET i == Earliest(cfg.sched[s], m.sched[s].q, candidates)
      id == m.sched[s].q.slots[i]
      p == cfg.sched[s].ports[Min(FreePorts(m, s))]
      d == Taker(m, s, id)
      slot == IF d.toFu THEN Nil ELSE NextIndex(cfg.sched[d.des], m.sched[d.des].q)
      claimed == IF d.toFu THEN [m EXCEPT !.unit[d.des].taken = TRUE]
                 ELSE AllocateIn(m, d.des)
      info == [toFu |-> d.toFu, des |-> d.des, index |-> slot, id |-> id]
  IN  IF candidates = {} \/ FreePorts(m, s) = {} \/ Takers(m, s, id) = {} THEN <<>>
      ELSE <<Left([claimed EXCEPT !.port[p] = TB!Set(@, info)], s, i)>>

-----------------------------------------------------------------------------
(* The fifteen classes: which slots are candidates, and where they go.     *)
(* The methods other than IssueSelect and Forwarding are the operators on  *)
(* queues above.                                                           *)

Q(m, s) == m.sched[s].q

OperandsDone(id) == iew.insn[id].srcs \subseteq regs.done
OperandsForwarding(id) == iew.insn[id].srcs \subseteq regs.forwarding
OperandsReady(id) == iew.insn[id].srcs \subseteq iew.insn[id].ready

Where(m, s, slots, Ready(_)) == {i \in slots : Ready(Q(m, s).slots[i])}

N_InOrder(m, s)    == ToTaker(m, s, AtHead(Q(m, s)))
N_InAgeOrder(m, s) == ToTaker(m, s, ByAge(Q(m, s)))
N_OutOfOrder(m, s) == ToTaker(m, s, ByIndex(Q(m, s)))

OR_InOrder(m, s)    == ToReadPort(m, s, Where(m, s, AtHead(Q(m, s)), OperandsDone))
OR_InAgeOrder(m, s) == ToReadPort(m, s, Where(m, s, ByAge(Q(m, s)), OperandsDone))
OR_OutOfOrder(m, s) == ToReadPort(m, s, Where(m, s, ByIndex(Q(m, s)), OperandsDone))

RFQ_InOrder(m, s)    == ToReadPort(m, s, AtHead(Q(m, s)))
RFQ_InAgeOrder(m, s) == ToReadPort(m, s, ByAge(Q(m, s)))
RFQ_OutOfOrder(m, s) == ToReadPort(m, s, ByIndex(Q(m, s)))

RS_InOrder(m, s)    == ToTaker(m, s, Where(m, s, AtHead(Q(m, s)), OperandsReady))
RS_InAgeOrder(m, s) == ToTaker(m, s, Where(m, s, ByAge(Q(m, s)), OperandsReady))
RS_OutOfOrder(m, s) == ToTaker(m, s, Where(m, s, ByIndex(Q(m, s)), OperandsReady))

(* The in-order class asks for finished operands, the other two for        *)
(* operands that are being forwarded, which their write back ends.         *)
MayCommitDone(id) == ReadyForCommit(rob, iew.insn[id].tag) /\ OperandsDone(id)
MayCommitForwarding(id) == ReadyForCommit(rob, iew.insn[id].tag) /\ OperandsForwarding(id)

CMT_InOrder(m, s) ==
  ToReadPort(m, s, Where(m, s, AtHead(Q(m, s)), MayCommitDone))
CMT_InAgeOrder(m, s) ==
  ToReadPort(m, s, Where(m, s, ByAge(Q(m, s)), MayCommitForwarding))
CMT_OutOfOrder(m, s) ==
  ToReadPort(m, s, Where(m, s, ByIndex(Q(m, s)), MayCommitForwarding))

CreateNoneSchedular(m, s) ==
  CASE cfg.sched[s].order = "In-Order"     -> N_InOrder(m, s)
    [] cfg.sched[s].order = "In-Age-Order" -> N_InAgeOrder(m, s)
    [] cfg.sched[s].order = "Out-of-Order" -> N_OutOfOrder(m, s)

CreateOperandReadySchedular(m, s) ==
  CASE cfg.sched[s].order = "In-Order"     -> OR_InOrder(m, s)
    [] cfg.sched[s].order = "In-Age-Order" -> OR_InAgeOrder(m, s)
    [] cfg.sched[s].order = "Out-of-Order" -> OR_OutOfOrder(m, s)

CreateRfQueueSchedular(m, s) ==
  CASE cfg.sched[s].order = "In-Order"     -> RFQ_InOrder(m, s)
    [] cfg.sched[s].order = "In-Age-Order" -> RFQ_InAgeOrder(m, s)
    [] cfg.sched[s].order = "Out-of-Order" -> RFQ_OutOfOrder(m, s)

CreateResvrStationSchedular(m, s) ==
  CASE cfg.sched[s].order = "In-Order"     -> RS_InOrder(m, s)
    [] cfg.sched[s].order = "In-Age-Order" -> RS_InAgeOrder(m, s)
    [] cfg.sched[s].order = "Out-of-Order" -> RS_OutOfOrder(m, s)

CreateCommitSchedular(m, s) ==
  CASE cfg.sched[s].order = "In-Order"     -> CMT_InOrder(m, s)
    [] cfg.sched[s].order = "In-Age-Order" -> CMT_InAgeOrder(m, s)
    [] cfg.sched[s].order = "Out-of-Order" -> CMT_OutOfOrder(m, s)

(* The factory picks the class when the processor is built; here it picks  *)
(* the class's IssueSelect.                                                *)
IssueSelect(m, s) ==
  CASE cfg.sched[s].wakeUp = "None"         -> CreateNoneSchedular(m, s)
    [] cfg.sched[s].wakeUp = "OperandReady" -> CreateOperandReadySchedular(m, s)
    [] cfg.sched[s].wakeUp = "RfQueue"      -> CreateRfQueueSchedular(m, s)
    [] cfg.sched[s].wakeUp = "ResvrStation" -> CreateResvrStationSchedular(m, s)
    [] cfg.sched[s].wakeUp = "Commit"       -> CreateCommitSchedular(m, s)

-----------------------------------------------------------------------------
Blank(c) == [q |-> Vacant(c), enq |-> <<>>, room |-> c.enqueWidth, flush |-> FALSE]

Init ==
  /\ cfg \in Configs
  /\ phase = Phases[1]
  /\ iew = [sched |-> [s \in DOMAIN cfg.sched |-> Blank(cfg.sched[s])],
            unit  |-> [u \in DOMAIN cfg.unit |->
                         [pipe |-> TB!Empty, taken |-> FALSE, flush |-> FALSE,
                          dCache |-> TB!Empty]],
            port  |-> [p \in 1 .. cfg.ports |-> TB!Empty],
            wb    |-> [w \in DOMAIN cfg.wb |-> TB!Empty],
            ldq   |-> <<>>,
            redirect |-> Nil,
            insn  |-> <<>>,
            fired |-> {}]
  /\ rob = [queue |-> <<>>, header |-> 0, done |-> {}, stable |-> {},
            state |-> "Idle", rollBackTag |-> 0, toCommit |-> 0]
  /\ regs = [done |-> {Nil}, forwarding |-> {}, file |-> {Nil}]

-----------------------------------------------------------------------------
(* IEW::WriteBack: each valid port in turn.  The redirect request and its  *)
(* flag are shared by the ports.                                           *)

Faults(y) == y.bad /\ y.fu = "LDU"
Mispredicts(y) == y.bad /\ y.fu = "BRU"

TakesOver(r, y) ==
  /\ InRob(r, y.tag) /\ y.bad
  /\ \/ r.state = "Idle" \/ IsOlder(r, y.tag, r.rollBackTag)
     \/ Mispredicts(y) /\ y.tag = r.rollBackTag

Resumes(r, y) ==
  /\ y.fu = "BRU" /\ ~y.bad /\ ~cfg.speculation
  /\ r.state = "WaitForResume" /\ y.tag = r.rollBackTag

(* Mutant: every mispredicted branch of the buffer asks for a redirect.    *)
BadRcuWriteBack(a, id) ==
  LET y == iew.insn[id]
      r == a.rob
  IN  [rob |-> IF ~InRob(r, y.tag) THEN r
               ELSE [r EXCEPT !.done = @ \union {y.tag},
                              !.stable = @ \union {y.tag},
                              !.state = IF TakesOver(r, y) THEN "Undo"
                                        ELSE IF Resumes(r, y) THEN "Idle" ELSE @,
                              !.rollBackTag = IF TakesOver(r, y) THEN y.tag ELSE @],
       redirect |-> IF InRob(r, y.tag) /\ Mispredicts(y) THEN id ELSE a.redirect]

RcuWriteBack(a, id) ==
  LET y == iew.insn[id]
      r == a.rob
      needRedirect == TakesOver(r, y) /\ Mispredicts(y)
  IN  [rob |-> IF ~InRob(r, y.tag) THEN r
               ELSE [r EXCEPT !.done = @ \union {y.tag},
                              !.stable = @ \union {y.tag},
                              !.state = IF TakesOver(r, y) THEN "Undo"
                                        ELSE IF Resumes(r, y) THEN "Idle" ELSE @,
                              !.rollBackTag = IF TakesOver(r, y) THEN y.tag ELSE @],
       redirect |-> IF needRedirect THEN id ELSE a.redirect]

EvaluateWbPort(a, w) ==
  IF iew.wb[w].out = <<>> THEN a ELSE RcuWriteBack(a, iew.wb[w].out[1])

WriteBack ==
  LET after == Loop(EvaluateWbPort, [rob |-> rob, redirect |-> Nil], Len(cfg.wb))
      written == {id \in DOMAIN iew.insn :
                    LET y == iew.insn[id]
                    IN  /\ \E w \in DOMAIN iew.wb : iew.wb[w].out = <<id>>
                        /\ InRob(rob, y.tag) /\ y.rd /\ ~Faults(y)}
  IN  /\ Tick(1)
      /\ rob' = after.rob
      /\ iew' = [iew EXCEPT !.redirect = after.redirect]
      /\ regs' = [done |-> regs.done \union written,
                  forwarding |-> regs.forwarding \ written,
                  file |-> regs.file \union written]
      /\ UNCHANGED cfg

-----------------------------------------------------------------------------
(* IEW::Execute.                                                           *)

(* Mutant: a port with a result in it counts as free.                      *)
BadFreeWbPorts(m, u) == DOMAIN cfg.unit[u].wb

FreeWbPorts(m, u) ==
  LET wb == cfg.unit[u].wb IN {k \in DOMAIN wb : m.wb[wb[k]].in = <<>>}

ToWbPort(m, u, id) ==
  LET w == cfg.unit[u].wb[Min(FreeWbPorts(m, u))] IN [m EXCEPT !.wb[w] = TB!Set(@, id)]

(* BaseFuncUnit::Evaluate                                                  *)
Compute(m, u) ==
  LET out == TB!OutPort(m.unit[u].pipe, cfg.unit[u].latency)
  IN  IF out = <<>> THEN m
      ELSE IF FreeWbPorts(m, u) = {}
      THEN [m EXCEPT !.unit[u].pipe = TB!Stall(@)]
      ELSE [ToWbPort(m, u, out[1]) EXCEPT !.unit[u].taken = FALSE]

InBuffer(id) == id \in ToSet(rob.queue)

(* Func_LSU, Func_LDU: a load leaves the pipe after address generation and *)
(* waits in the load queue; the answer of the memory needs a port at once, *)
(* unless its load was killed.                                             *)
AddrGen(m, u) ==
  LET out == TB!OutPort(m.unit[u].pipe, cfg.unit[u].latency)
      waits == out # <<>> /\ iew.insn[out[1]].fu = "LDU" /\ InBuffer(out[1])
  IN  [m EXCEPT !.unit[u].taken = @ /\ out = <<>>,
                !.ldq = IF waits THEN Append(@, out[1]) ELSE @]

SendLoadReq(m, u) ==
  IF m.ldq = <<>> THEN m
  ELSE [m EXCEPT !.unit[u].dCache = TB!Set(@, Head(m.ldq)), !.ldq = Tail(@)]

ReceiveResponse(m, u) ==
  LET out == TB!OutPort(m.unit[u].dCache, cfg.dCacheLatency)
  IN  IF out = <<>> \/ ~InBuffer(out[1]) THEN m
      ELSE IF FreeWbPorts(m, u) = {} THEN Fires(m, TRUE, "UnAllowed WriteBack Failed")
      ELSE ToWbPort(m, u, out[1])

IsMemoryUnit(u) == Kinds(u) \intersect {"LDU", "STU"} # {}

EvaluateUnit(m, u) ==
  IF IsMemoryUnit(u) THEN ReceiveResponse(SendLoadReq(AddrGen(m, u), u), u)
  ELSE Compute(m, u)

(* Rcu::AGUFastDetect: no address generation raises an exception (see      *)
(* README), so what it does with one never happens.                        *)
AGUFastDetect(r, ids) ==
  [r EXCEPT !.stable = @ \union {iew.insn[id].tag : id \in ids},
            !.done = @ \union {iew.insn[id].tag : id \in {x \in ids : iew.insn[x].fu = "STU"}}]

Execute ==
  LET agu == {id \in DOMAIN iew.insn : \E u \in DOMAIN cfg.unit :
                /\ IsMemoryUnit(u)
                /\ TB!OutPort(iew.unit[u].pipe, cfg.unit[u].latency) = <<id>>}
  IN  /\ Tick(2)
      /\ iew' = Loop(EvaluateUnit, iew, Len(cfg.unit))
      /\ rob' = AGUFastDetect(rob, agu)
      /\ UNCHANGED <<cfg, regs>>

-----------------------------------------------------------------------------
(* IEW::Forwarding: a result about to be written wakes its readers.        *)

(* Mutant: a port wakes the first of its queues only.                      *)
BadWokenBy(w) ==
  UNION {{iew.sched[s].q.slots[i] : i \in Listening(cfg.sched[s], iew.sched[s].q)} :
         s \in {t \in ToSet(cfg.wb[w]) : t = cfg.wb[w][1]}}

WokenBy(w) ==
  UNION {{iew.sched[s].q.slots[i] : i \in Listening(cfg.sched[s], iew.sched[s].q)} :
         s \in {t \in ToSet(cfg.wb[w]) : cfg.sched[t].wakeUp = "ResvrStation"}}

Hears(id, x) ==
  \E w \in DOMAIN iew.wb : iew.wb[w].in = <<x>> /\ iew.insn[x].rd /\ id \in WokenBy(w)

Woken(id, results) ==
  LET heard == {x \in results \intersect iew.insn[id].srcs : Hears(id, x)}
  IN  [iew.insn[id] EXCEPT !.ready = @ \union heard]

(* Rcu::Forwarding of each of the results.                                 *)
RcuForwarding(r, results) ==
  [r EXCEPT !.done = @ \union results, !.file = @ \union results]

(* Mutant: the busy list is told, the register file is not.                *)
BadForwarding ==
  LET results == {id \in DOMAIN iew.insn :
                    iew.insn[id].rd /\ \E w \in DOMAIN iew.wb : iew.wb[w].in = <<id>>}
      visible == IF cfg.forwardResult THEN results ELSE {}
  IN  /\ Tick(3)
      /\ iew' = [iew EXCEPT !.insn = [id \in DOMAIN @ |-> Woken(id, results)]]
      /\ regs' = [done |-> regs.done \union visible,
                  forwarding |-> regs.forwarding \union results,
                  file |-> regs.file]
      /\ UNCHANGED <<cfg, rob>>

Forwarding ==
  LET results == {id \in DOMAIN iew.insn :
                    iew.insn[id].rd /\ \E w \in DOMAIN iew.wb : iew.wb[w].in = <<id>>}
      visible == IF cfg.forwardResult THEN results ELSE {}
  IN  /\ Tick(3)
      /\ iew' = [iew EXCEPT !.insn = [id \in DOMAIN @ |-> Woken(id, results)]]
      /\ regs' = RcuForwarding([regs EXCEPT !.forwarding = @ \union results], visible)
      /\ UNCHANGED <<cfg, rob>>

-----------------------------------------------------------------------------
(* IEW::Issue: BaseSchedular::Evaluate of each scheduler, which selects up *)
(* to its dequeue width and stops at the first failure.                    *)

SelectOne(s, a) ==
  IF ~a.go \/ Live(cfg.sched[s], Q(a.m, s)) = 0 THEN [a EXCEPT !.go = FALSE]
  ELSE LET next == IssueSelect(a.m, s)
       IN  IF next = <<>> THEN [a EXCEPT !.go = FALSE] ELSE [a EXCEPT !.m = next[1]]

EvaluateSched(m, s) ==
  Loop(LAMBDA a, k : SelectOne(s, a), [m |-> m, go |-> TRUE], cfg.sched[s].dequeWidth).m

Issue ==
  /\ Tick(4)
  /\ iew' = Loop(EvaluateSched, iew, Len(cfg.sched))
  /\ UNCHANGED <<cfg, rob, regs>>

(* IEW::ReadOperand: RfReadPort::Evaluate of each port.  stale is history: *)
(* the operands taken before their register was written.                   *)
ReadRegisters(y) ==
  LET got == (y.srcs \ y.ready) \intersect regs.done
  IN  [y EXCEPT !.ready = @ \union got, !.stale = @ \union (got \ regs.file)]

Deliver(m, p) ==
  LET out == TB!OutPort(m.port[p], cfg.rfLatency)
      x == out[1]
      n == [m EXCEPT !.insn[x.id] = ReadRegisters(@)]
  IN  IF out = <<>> THEN m
      ELSE IF x.toFu THEN IssueToUnit(n, x.des, x.id)
      ELSE Schedule(n, x.des, x.index, x.id)

ReadOperand ==
  /\ Tick(5)
  /\ iew' = Loop(Deliver, iew, cfg.ports)
  /\ UNCHANGED <<cfg, rob, regs>>

-----------------------------------------------------------------------------
(* Dispatch: of the package offered, the instructions every resource has   *)
(* room for.  A template is [fu, dist, rd, bad]: dist names its sources as *)
(* the last or last but one register written before it.                    *)

Entrances(m, room, fu) ==
  {k \in DOMAIN cfg.top : LET s == cfg.top[k]
                          IN  fu \in SupportFunc(s) /\ ~SchedBusy(m, s) /\ room[s] > 0}

ControlFlow(t) == t.fu = "BRU" /\ ~cfg.speculation

TryOne(a, t) ==
  LET c == Entrances(iew, a.room, t.fu)
  IN  IF ~a.go THEN a
      ELSE IF t.fu = "NOP" THEN [a EXCEPT !.count = @ + 1]
      ELSE IF c = {} THEN [a EXCEPT !.go = FALSE]
      ELSE [count |-> a.count + 1, room |-> [a.room EXCEPT ![cfg.top[Min(c)]] = @ - 1],
            go |-> ~ControlFlow(t)]

TryDispatch(pkg) ==
  LET room == [s \in ToSet(cfg.top) |->
                 Min({GetAvailibleEntryCount(cfg.sched[s], Q(iew, s)),
                      cfg.sched[s].enqueWidth})]
  IN  Loop(LAMBDA a, k : TryOne(a, pkg[k]), [count |-> 0, room |-> room, go |-> TRUE],
           Len(pkg)).count

(* Rcu::Allocate: what is taken is renamed, in order, and given the next   *)
(* tags.  A source is the instruction that wrote its register.             *)
Writes(taken, x) ==
  IF x <= Len(iew.insn) THEN iew.insn[x].rd /\ ~iew.insn[x].killed
  ELSE taken[x - Len(iew.insn)].rd

Writers(taken, x, d) ==
  {w \in 1 .. (x - 1) :
     Writes(taken, w) /\ Cardinality({v \in w .. (x - 1) : Writes(taken, v)}) = d}

Sources(taken, k) ==
  UNION {LET w == Writers(taken, Len(iew.insn) + k, d) IN IF w = {} THEN {Nil} ELSE w :
         d \in taken[k].dist}

NewInsn(t, srcs, tag) ==
  [fu |-> t.fu, rd |-> t.rd, bad |-> t.bad, tag |-> tag, srcs |-> srcs,
   ready |-> {}, stale |-> {}, killed |-> FALSE]

Renamed(taken) ==
  LET tail == rob.header + Len(rob.queue)
  IN  [k \in 1 .. Len(taken) |->
         NewInsn(taken[k], Sources(taken, k), (tail + k - 1) % cfg.robSize)]

DispatchInsn(m, id) ==
  LET c == Entrances(m, [s \in ToSet(cfg.top) |-> 1], m.insn[id].fu)
      s == cfg.top[Min(c)]
  IN  IF m.insn[id].fu = "NOP" THEN m
      ELSE IF c = {} THEN Fires(m, TRUE, "Unexpected Dispatch Fail!")
      ELSE Schedule(AllocateIn(m, s), s, NextIndex(cfg.sched[s], Q(m, s)), id)

Taken(pkg) ==
  SubSeq(pkg, 1, Min({TryDispatch(pkg), cfg.robSize - Len(rob.queue)}))

Dispatch(pkg) ==
  LET fresh == Renamed(Taken(pkg))
      n == Len(iew.insn)
      count == Len(fresh)
      tags == {fresh[k].tag : k \in 1 .. count}
      nops == {fresh[k].tag : k \in {j \in 1 .. count : fresh[j].fu = "NOP"}}
      stops == count > 0 /\ ControlFlow(fresh[count])
  IN  /\ rob.state = "Idle" \/ pkg = <<>>
      /\ n + Len(pkg) <= MaxInsns
      /\ Tick(6)
      /\ iew' = Loop(LAMBDA m, k : DispatchInsn(m, n + k),
                     [iew EXCEPT !.insn = @ \o fresh], count)
      /\ rob' = [rob EXCEPT !.queue = @ \o [k \in 1 .. count |-> n + k],
                            !.done = (@ \ tags) \union nops,
                            !.stable = (@ \ tags) \union nops,
                            !.state = IF stops THEN "Undo" ELSE @,
                            !.rollBackTag = IF stops THEN fresh[count].tag ELSE @]
      /\ UNCHANGED <<cfg, regs>>

-----------------------------------------------------------------------------
(* Commit::Evaluate, then Rcu::Evaulate.                                   *)

(* Mutant: the header does not wrap.                                       *)
BadCommitted ==
  LET k == rob.toCommit
      resumes == rob.state = "WaitForResume" /\ Distance(rob, rob.rollBackTag) < k
  IN  [rob EXCEPT !.queue = SubSeq(@, k + 1, Len(@)),
                  !.header = @ + k,
                  !.state = IF resumes THEN "FlushBackend" ELSE @]

Committed ==
  LET k == rob.toCommit
      resumes == rob.state = "WaitForResume" /\ Distance(rob, rob.rollBackTag) < k
  IN  [rob EXCEPT !.queue = SubSeq(@, k + 1, Len(@)),
                  !.header = (@ + k) % cfg.robSize,
                  !.state = IF resumes THEN "FlushBackend" ELSE @]

Newer(r) == (Len(r.queue) - 1) - Distance(r, r.rollBackTag)

(* Rcu::RollBack, or the end of a recovery.                                *)
Recovered(r) ==
  LET k == Min({Newer(r), cfg.allocWidth})
  IN  CASE r.state = "Undo" ->
             [r EXCEPT !.queue = SubSeq(@, 1, Len(@) - k),
                       !.state = IF k = Newer(r) THEN "WaitForResume" ELSE @]
        [] r.state = "FlushBackend" -> [r EXCEPT !.state = "Idle"]
        [] OTHER -> r

(* Flush of a scheduler and of a unit; what they hold goes when the latch  *)
(* they set comes out, at the end of the tick.                             *)
FlushSched(x) == [x EXCEPT !.enq = <<>>, !.flush = TRUE]
FlushUnit(f)  == [f EXCEPT !.pipe = TB!Flush(@), !.flush = TRUE]

(* Mutant: the write-back ports are forgotten.                             *)
BadFlushed(m) ==
  [m EXCEPT !.sched = [s \in DOMAIN @ |-> FlushSched(@[s])],
            !.unit = [u \in DOMAIN @ |-> FlushUnit(@[u])],
            !.port = [p \in DOMAIN @ |-> TB!Flush(@[p])]]

(* IEW::Flush: every part of it, which leaves the memory's answers.        *)
Flushed(m) ==
  [m EXCEPT !.sched = [s \in DOMAIN @ |-> FlushSched(@[s])],
            !.unit = [u \in DOMAIN @ |-> FlushUnit(@[u])],
            !.port = [p \in DOMAIN @ |-> TB!Flush(@[p])],
            !.wb = [w \in DOMAIN @ |-> TB!Flush(@[w])]]

(* FlushForward(State_Dispatch) flushes the stages behind Dispatch.        *)
FlushForward(m, state) == IF state = "FlushBackend" THEN Flushed(m) ELSE m

Killed(m, gone) ==
  [m EXCEPT !.ldq = Without(@, gone),
            !.insn = [id \in DOMAIN @ |->
                        IF id \in gone THEN [@[id] EXCEPT !.killed = TRUE] ELSE @[id]]]

(* Commit::SendCommitReq: the package for the next tick.                   *)
CommitReq(r) ==
  Max({k \in 0 .. Min({cfg.deallocWidth, Len(r.queue)}) :
         \A j \in 1 .. k : LET tag == iew.insn[r.queue[j]].tag
                           IN  tag \in r.done /\ ReadyForCommit(r, tag)})

Commit ==
  LET sent == [Committed EXCEPT !.toCommit = CommitReq(Committed)]
      gone == ToSet(sent.queue) \ ToSet(Recovered(sent).queue)
  IN  /\ Tick(7)
      /\ rob' = Recovered(sent)
      /\ iew' = Killed(FlushForward(iew, sent.state), gone)
      /\ UNCHANGED <<cfg, regs>>

-----------------------------------------------------------------------------
(* Processor::Advance.                                                     *)

(* What was scheduled this tick enters the queue in the same tick, unless  *)
(* it is flushed.                                                          *)
DispatchEntries(q, enq) ==
  [q EXCEPT !.slots =
     [i \in DOMAIN @ |-> LET last == {k \in DOMAIN enq : enq[k].index = i}
                         IN  IF last = {} THEN @[i] ELSE enq[Max(last)].id]]

AdvanceSched(c, x) ==
  LET q == DispatchEntries(x.q, x.enq)
  IN  [q |-> IF x.flush THEN ResetQueue(c, q) ELSE q,
       enq |-> <<>>, room |-> c.enqueWidth, flush |-> FALSE]

AdvanceUnit(c, f) ==
  [f EXCEPT !.pipe = TB!Advance(@, c.latency),
            !.taken = @ /\ ~c.pipelined /\ ~f.flush,
            !.flush = FALSE]

(* The memory unit moves the latch of its data cache port too.             *)
AdvanceLsu(c, f) ==
  [AdvanceUnit(c, f) EXCEPT !.dCache = TB!Advance(@, cfg.dCacheLatency)]

Advance ==
  /\ Tick(8)
  /\ iew' = [iew EXCEPT
       !.sched = [s \in DOMAIN @ |-> AdvanceSched(cfg.sched[s], @[s])],
       !.unit = [u \in DOMAIN @ |-> IF IsMemoryUnit(u) THEN AdvanceLsu(cfg.unit[u], @[u])
                                    ELSE AdvanceUnit(cfg.unit[u], @[u])],
       !.port = [p \in DOMAIN @ |-> TB!Advance(@[p], cfg.rfLatency)],
       !.wb = [w \in DOMAIN @ |-> TB!Advance(@[w], 1)]]
  /\ UNCHANGED <<cfg, rob, regs>>

-----------------------------------------------------------------------------
Packages == BoundedSeq(cfg.templates, cfg.allocWidth)

Next ==
  \/ WriteBack \/ Execute \/ Forwarding \/ Issue \/ ReadOperand
  \/ \E pkg \in Packages : Dispatch(pkg)
  \/ Commit \/ Advance

(* The clock ticks: every phase is a step of the main loop, and each may   *)
(* always be taken.                                                        *)
Spec == Init /\ [][Next]_vars /\ WF_phase(\E p \in DOMAIN Phases : Tick(p))

-----------------------------------------------------------------------------
(* Properties.                                                             *)

(* The places of the path that hold an instruction, which is their last    *)
(* component: the part, its number, where in it and how far.               *)
Held(b) ==
  {<<"in", k, b.in[k]>> : k \in DOMAIN b.in} \union
  {<<"out", k, b.out[k]>> : k \in DOMAIN b.out} \union
  {<<"queue", k, b.queue[k].data>> : k \in DOMAIN b.queue}

Latched(part, n, b) == {<<part, n, h[1], h[2], h[3]>> : h \in Held(b)}

InQueue(s) ==
  LET q == Q(iew, s)
  IN  {<<"sched", s, "slot", i, q.slots[i]>> :
         i \in {j \in Listening(cfg.sched[s], q) : q.slots[j] # Nil}}
InQueues == UNION {InQueue(s) : s \in DOMAIN cfg.sched}

(* On the way to a unit, or to a sub-scheduler.                            *)
InPort(p, toFu) ==
  {<<"port", p, h[1], h[2], h[3].id>> : h \in {g \in Held(iew.port[p]) : g[3].toFu = toFu}}
ToUnits == UNION {InPort(p, TRUE) : p \in DOMAIN iew.port}
ToScheds == UNION {InPort(p, FALSE) : p \in DOMAIN iew.port}

InUnits == UNION {Latched("unit", u, iew.unit[u].pipe) : u \in DOMAIN iew.unit}
InMemory == UNION {Latched("dCache", u, iew.unit[u].dCache) : u \in DOMAIN iew.unit}
InLdq == {<<"ldq", 1, "queue", k, iew.ldq[k]>> : k \in DOMAIN iew.ldq}
InWriteBack == UNION {Latched("wb", w, iew.wb[w]) : w \in DOMAIN iew.wb}

(* Between two ticks, everything IEW holds.                                *)
OnThePath == InQueues \union ToScheds \union ToUnits \union InUnits \union InLdq
             \union InWriteBack
BetweenTicks == phase = Phases[1]

IdsAt(places) == {x[5] : x \in places}
Copies(id) == Cardinality({x \in OnThePath \union InMemory : x[5] = id})

TypeOK ==
  /\ cfg \in Configs /\ phase \in ToSet(Phases)
  /\ \A id \in DOMAIN iew.insn : iew.insn[id] \in DynInsn
  /\ IdsAt(OnThePath \union InMemory) \subseteq DOMAIN iew.insn
  /\ iew.redirect \in Ids \union {Nil}
  /\ \A s \in DOMAIN cfg.sched :
       LET c == cfg.sched[s] IN
       /\ iew.sched[s].q.slots \in [Indices(c) -> Ids \union {Nil}]
       /\ GetAvailibleEntryCount(c, Q(iew, s)) \in 0 .. c.entries
       /\ iew.sched[s].room \in 0 .. c.enqueWidth
  /\ rob.header \in 0 .. (cfg.robSize - 1) /\ Len(rob.queue) <= cfg.robSize
  /\ rob.toCommit \in 0 .. Len(rob.queue)
  /\ regs.done \union regs.file \subseteq Ids \union {Nil}

(* No assertion of the issue path fires, and an allocation always finds a  *)
(* slot.                                                                   *)
NoAssertFires == iew.fired = {}

(* Between ticks, an instruction of the re-order buffer that is not done   *)
(* is at exactly one place of the path; one that is done is at none.       *)
NeitherLostNorDoubled ==
  BetweenTicks =>
    \A id \in DOMAIN iew.insn :
      ~iew.insn[id].killed =>
        Copies(id) = IF InBuffer(id) /\ iew.insn[id].tag \notin rob.done THEN 1 ELSE 0

(* Once dispatch may go on, nothing of the squashed path is left in IEW.   *)
FlushedOut ==
  BetweenTicks /\ rob.state = "Idle" =>
    \A id \in IdsAt(OnThePath) : ~iew.insn[id].killed

(* A result was computed from operands that were all read, and none before *)
(* its register was written.                                               *)
OperandsCurrent ==
  \A id \in IdsAt(InWriteBack) :
    LET y == iew.insn[id] IN y.ready = y.srcs /\ y.stale = {}

(* What a CSR instruction writes cannot be undone.  A squashed one never   *)
(* gets to the CSR unit, and one that got there, or has been there, is     *)
(* squashed by nothing but the recovery of an older load: address          *)
(* generation makes the load stable, and the memory may refuse it later.   *)
PastReadyForCommit(id) ==
  \/ id \in IdsAt(ToUnits \union InUnits \union InWriteBack)
  \/ InBuffer(id) /\ iew.insn[id].tag \in rob.done
OnlyFaultsSquashSideEffects ==
  [][\A id \in DOMAIN iew.insn :
       iew.insn[id].fu = "CSR" /\ iew'.insn[id].killed =>
         /\ PastReadyForCommit(id)' => PastReadyForCommit(id)
         /\ PastReadyForCommit(id) /\ ~iew.insn[id].killed =>
              Faults(iew.insn[rob.queue[Distance(rob, rob.rollBackTag) + 1]])]_vars

(* The request left on the shared redirect port is the mispredicted branch *)
(* the recovery rolls back to, unless an older faulting load took over in  *)
(* the same tick.                                                          *)
RedirectMatchesRecovery ==
  phase = "Execute" /\ iew.redirect # Nil =>
    LET tag == iew.insn[iew.redirect].tag
    IN  /\ rob.state = "Undo"
        /\ \/ tag = rob.rollBackTag
           \/ /\ IsOlder(rob, rob.rollBackTag, tag)
              /\ Faults(iew.insn[rob.queue[Distance(rob, rob.rollBackTag) + 1]])

(* Every dispatched instruction leaves the re-order buffer.                *)
EveryDispatchedInsnLeaves == \A id \in Ids : InBuffer(id) ~> ~InBuffer(id)
=============================================================================

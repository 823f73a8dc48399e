------------------------------ MODULE FrontEnd ------------------------------
(***************************************************************************)
(* The stages that fetch and decode (Pipeline/Fetch1.cc, Fetch2.cc,        *)
(* Decode.cc, BaseStage.hh), with the instruction cache port, the latches  *)
(* between the stages and the flushes and redirects of Processor.cc.  The  *)
(* tick runs the stages from the last to the first (IEW, Dispatch, Decode, *)
(* Fetch2, Fetch1, then Commit) and then advances every latch.             *)
(*                                                                         *)
(* Dispatch, IEW and Commit appear as what they do to the front end: take  *)
(* some of a package or stall it, and redirect.  An instruction is the     *)
(* addresses of the parcels it was put together from; what a parcel holds  *)
(* is whether it begins a wide instruction, and whether that is a direct   *)
(* jump or a conditional branch.  No branch and no indirect jump is ever   *)
(* predicted taken (Fetch1::Predict clears every prediction), except by    *)
(* what is read past the end of InsnPred.  FetchByteWidth =                *)
(* iCacheAlignByte and every latency between stages is 1, as in every file *)
(* of config/.                                                             *)
(*                                                                         *)
(* Undefined behaviour: SendSuccess is read uninitialised when the pc      *)
(* register is not valid, and InsnPred is read past its end for the last   *)
(* parcel of a line that began with half an instruction.                   *)
(***************************************************************************)
EXTENDS TimeBuffer, Integers

CONSTANTS
  Programs,         \* the programs in memory: functions from parcel to
                    \* [wide, jumps, branches, by]; by is the offset of a
                    \* jump, and what sbimm() makes of a branch, wide or not
  Confs,            \* the configurations
  FetchByteWidth,   \* bytes of a line
  BootPc,
  Targets,          \* where IEW and Commit may redirect to
  MaxRedirects,     \* bound on their redirects
  BootSendSuccess,  \* what SendSuccess may read as in the first tick
  Nowhere

\* Z506_0328.yaml:301 of config/ asks for InflightQueueSize >= latency + 1.
ASSUME ConfsAssumption ==
  \A c \in Confs :
    /\ c \in [iCacheLatency : Nat \ {0}, inflightQueueSize : Nat,
              instrBufferSize : Nat, decodeWidth : Nat \ {0},
              decodeQueueSize : Nat, dispatchWidth : Nat \ {0},
              mustTakenAllInsn : BOOLEAN]
    /\ c.inflightQueueSize >= c.iCacheLatency + 1
    /\ c.instrBufferSize >= FetchByteWidth \div 2
    /\ c.decodeQueueSize >= c.decodeWidth
ASSUME AddressAssumption ==
  /\ FetchByteWidth \in {2 * n : n \in 1 .. 64}
  /\ \A a \in Targets \union {BootPc} : a \in Nat
  /\ Nowhere \notin Nat
\* A memory is a number of whole lines, and no jump or branch goes below 0.
ASSUME ProgramsAssumption ==
  \A p \in Programs :
    /\ \E last \in DOMAIN p :
         /\ DOMAIN p = {a \in 0 .. last : a % 2 = 0}
         /\ (last + 2) % FetchByteWidth = 0
    /\ \A a \in DOMAIN p :
         /\ p[a] \in [wide : BOOLEAN, jumps : BOOLEAN, branches : BOOLEAN,
                    by : Int]
         /\ p[a].jumps \/ p[a].branches => a + p[a].by \in Nat

\* Definitions whose names begin with Bad are injected faults: see README.

VARIABLES
  program, conf,
  phase,
  pcRegister,   \* m_PcRegister
  iCache,       \* m_iCacheRespLatch
  fetch1,       \* m_InflightQueue, m_State, m_ExcpTag, m_MisalignHalf
  insnBuffer,   \* Fetch2::m_InsnBuffer
  decodeQueue,  \* Decode::m_DecodeQueue
  toFetch2, toDecode, toDispatch,  \* the latches between the stages
  ackFetch2, ackDecode,            \* the acknowledge latches, latency 0
  redirect,     \* m_RedirectConnectionLatch
  flushSync,    \* stages whose m_FlushSyncLatch has its input set
  robIdle,      \* m_RobState = Rob_Idle
  redirects,    \* how often IEW and Commit have redirected
  inFlight,     \* whether they have anything to redirect for
  due, taken    \* history: see InsnStream

fetch == <<pcRegister, iCache, fetch1>>
acks  == <<ackFetch2, ackDecode>>
back  == <<robIdle, redirects, inFlight, due, taken>>
vars  == <<program, conf, phase, fetch, insnBuffer, decodeQueue, toFetch2,
           toDecode, toDispatch, acks, redirect, flushSync, back>>

Phases == <<"IEW", "Dispatch", "Decode", "Fetch2", "Fetch1", "Commit", "Advance">>
PhaseOf(i) == phase = Phases[i] /\ phase' = Phases[(i % 7) + 1]

\* Everything past the end of memory is one line that cannot be read.
End == CHOOSE a \in {p + 2 : p \in DOMAIN program} : a \notin DOMAIN program
Line(a) == a - (a % FetchByteWidth)
NextLine(a) == IF a >= End THEN End ELSE Line(a) + FetchByteWidth

\* The order of InsnState_t, and of the ports in m_RedirectPortVec.
Rank == [Fetch1 |-> 1, Fetch2 |-> 2, Issue |-> 3, Commit |-> 4]
Redirectors == DOMAIN Rank

First(seq, n) == SubSeq(seq, 1, IF Len(seq) < n THEN Len(seq) ELSE n)
Drop(seq, n)  == SubSeq(seq, n + 1, Len(seq))
Acked(ack)    == IF OutPort(ack, 0) = <<>> THEN 0 ELSE OutPort(ack, 0)[1]

-----------------------------------------------------------------------------
(* The stages behind Decode.  FlushBackWard(State_Issue) flushes the       *)
(* stages before it and the latches they feed.                             *)

FlushFrontEnd ==
  /\ flushSync' = {"Fetch1", "Fetch2", "Decode"}
  /\ toFetch2'   = Flush(toFetch2)
  /\ toDecode'   = Flush(toDecode)
  /\ toDispatch' = Flush(toDispatch)

RedirectFrom(stage, target) ==
  /\ inFlight
  /\ redirects < MaxRedirects
  /\ redirects' = redirects + 1
  /\ redirect' = [redirect EXCEPT ![stage] = Set(@, target)]
  /\ due' = target
  /\ FlushFrontEnd

\* IEW leaves the re-order buffer idle, or busy with a recovery.
Iew ==
  /\ PhaseOf(1)
  /\ robIdle' \in BOOLEAN
  /\ UNCHANGED <<program, conf, fetch, insnBuffer, decodeQueue, toFetch2,
                 toDecode, toDispatch, acks, redirect, flushSync,
                 redirects, inFlight, due, taken>>

RobIdles == Iew /\ robIdle'

\* WriteBackPort: a branch was mispredicted, and recovery begins.
Mispredict(target) ==
  /\ PhaseOf(1)
  /\ RedirectFrom("Issue", target)
  /\ robIdle' = FALSE
  /\ UNCHANGED <<program, conf, fetch, insnBuffer, decodeQueue, acks, inFlight, taken>>

\* Rcu::CommitInsn: an exception commits while its recovery waits for it.
Trap(target) ==
  /\ PhaseOf(6)
  /\ ~robIdle
  /\ RedirectFrom("Commit", target)
  /\ inFlight' = FALSE
  /\ UNCHANGED <<program, conf, fetch, insnBuffer, decodeQueue, acks, robIdle, taken>>

Commit ==
  /\ PhaseOf(6)
  /\ UNCHANGED <<program, conf, fetch, insnBuffer, decodeQueue, toFetch2,
                 toDecode, toDispatch, acks, redirect, flushSync, back>>

-----------------------------------------------------------------------------
(* Dispatch takes as many instructions as the re-order buffer, the queues  *)
(* and the schedulers have room for, or stalls during a recovery.          *)

DispatchKeeps ==
  UNCHANGED <<program, conf, fetch, insnBuffer, decodeQueue, toFetch2, toDecode,
              ackFetch2, redirect, flushSync, robIdle, redirects>>

DispatchStalls ==
  /\ PhaseOf(2)
  /\ toDispatch.out # <<>> => ~robIdle
  /\ toDispatch' = IF toDispatch.out = <<>> THEN toDispatch ELSE Stall(toDispatch)
  /\ UNCHANGED <<ackDecode, inFlight, due, taken>>
  /\ DispatchKeeps

\* An instruction behind one with an exception is not taken with it.
Takeable(package) ==
  {n \in 1 .. Len(package) : \A i \in 1 .. (n - 1) : ~package[i].excp}

DispatchTakesNone ==
  /\ PhaseOf(2)
  /\ toDispatch.out # <<>> /\ robIdle
  /\ ackDecode' = Set(ackDecode, 0)
  /\ UNCHANGED <<toDispatch, inFlight, due, taken>>
  /\ DispatchKeeps

DispatchTakes ==
  /\ PhaseOf(2)
  /\ toDispatch.out # <<>> /\ robIdle
  /\ \E n \in Takeable(toDispatch.out[1]) :
       /\ taken' = First(toDispatch.out[1], n)
       /\ due' = taken'[n].next
       /\ ackDecode' = Set(ackDecode, n)
  /\ inFlight' = TRUE
  /\ UNCHANGED toDispatch
  /\ DispatchKeeps

-----------------------------------------------------------------------------
(* Decode: release what Dispatch took, take a package whole or stall it,   *)
(* offer the oldest instructions without removing them.                    *)

Offer(queue, width, latch) ==
  IF queue = <<>> \/ latch.stall THEN latch ELSE Set(latch, First(queue, width))

BadReleased(queue, ack) == Drop(queue, IF Acked(ack) > 1 THEN 1 ELSE Acked(ack))
Released(queue, ack) == Drop(queue, Acked(ack))

Decode ==
  /\ PhaseOf(3)
  /\ LET held  == Released(decodeQueue, ackDecode)
         room  == conf.decodeQueueSize - Len(held)
         come  == toDecode.out # <<>>
         takes == come /\ (conf.mustTakenAllInsn => room >= conf.decodeWidth)
         new   == IF takes THEN First(toDecode.out[1], room) ELSE <<>>
     IN  /\ decodeQueue' = held \o new
         /\ ackFetch2' = IF takes THEN Set(ackFetch2, Len(new)) ELSE ackFetch2
         /\ toDecode' = IF come /\ ~takes THEN Stall(toDecode) ELSE toDecode
  /\ toDispatch' = Offer(decodeQueue', conf.dispatchWidth, toDispatch)
  /\ UNCHANGED <<program, conf, fetch, insnBuffer, toFetch2, ackDecode, redirect,
                 flushSync, back>>

(* Fetch2: the same, but it never stalls Fetch1.  Without room for a whole *)
(* package it drops the one that has come and fetches it again.            *)

BadHasRoom(buffer) == Len(buffer) < conf.instrBufferSize
HasRoom(buffer) == conf.instrBufferSize - Len(buffer) >= FetchByteWidth \div 2

BadReplay(package) ==
  /\ redirect' = [redirect EXCEPT !.Fetch2 = Set(@, package[1].pc)]
  /\ UNCHANGED <<flushSync, toFetch2>>
Replay(package) ==
  /\ redirect' = [redirect EXCEPT !.Fetch2 = Set(@, package[1].pc)]
  /\ flushSync' = flushSync \union {"Fetch1"}
  /\ toFetch2' = Flush(toFetch2)

Fetch2 ==
  /\ PhaseOf(4)
  /\ LET held == Released(insnBuffer, ackFetch2)
         come == toFetch2.out
     IN  IF come # <<>> /\ ~HasRoom(held)
         THEN Replay(come[1]) /\ insnBuffer' = held
         ELSE /\ insnBuffer' = IF come = <<>> THEN held ELSE held \o come[1]
              /\ UNCHANGED <<redirect, flushSync, toFetch2>>
  /\ toDecode' = Offer(insnBuffer', conf.decodeWidth, toDecode)
  /\ UNCHANGED <<program, conf, fetch, decodeQueue, toDispatch, acks, back>>

-----------------------------------------------------------------------------
(* Fetch1.  The queue of outstanding fetches is a LoopQueue: header is the *)
(* slot of its oldest entry, and a slot is the tag of a fetch.             *)

Tag(f, i) == (f.header + i - 1) % conf.inflightQueueSize
QueueFull(f) == Len(f.queue) = conf.inflightQueueSize

\* KillNewer(tag): from the tag to the tail, which is the header again when
\* the queue is full: called with the header it then kills nothing.
KillNewer(f, i) ==
  IF i = 1 /\ QueueFull(f) THEN f
  ELSE [f EXCEPT !.queue = [j \in DOMAIN f.queue |->
                             [f.queue[j] EXCEPT !.killed = @ \/ j >= i]]]

\* LoopQueue::isOlder, with the comparison it makes across the wrap.
IsOlder(f, tag1, tag2) ==
  IF (tag1 >= f.header) # (tag2 >= f.header) THEN tag1 > tag2 ELSE tag1 < tag2

(* ReceiveReq: the answer of the instruction cache.  A fault kills its own *)
(* entry too, so that it is never handed on.                               *)
ReceiveReq(f, answer) ==
  LET i == CHOOSE j \in 1 .. Len(f.queue) : Tag(f, j) = answer.tag
      g == [f EXCEPT !.queue[i].busy = FALSE, !.queue[i].excp = answer.fault]
  IN  IF /\ answer.fault
         /\ \/ f.state = "Idle"
            \/ f.state = "HandleExcp" /\ IsOlder(f, answer.tag, f.excpTag)
      THEN [KillNewer(g, i) EXCEPT !.excpTag = answer.tag]
      ELSE g

\* The instruction cache port: it takes a request in every tick, answers
\* after its latency in the order of the requests, and knows no flush.
ReceiveFetchReq(tag, pc) == Set(iCache, [tag |-> tag, fault |-> pc >= End])
BadICacheAnswers ==
  IF \/ iCache.out = <<>>
     \/ \E i \in DOMAIN fetch1.queue :
          fetch1.queue[i].killed /\ Tag(fetch1, i) = iCache.out[1].tag
  THEN fetch1 ELSE ReceiveReq(fetch1, iCache.out[1])
ICacheAnswers ==
  IF iCache.out = <<>> THEN fetch1 ELSE ReceiveReq(fetch1, iCache.out[1])

\* followed: what InsnPred holds for it is a prediction that it is taken.
Insn(pc, parcels, followed) ==
  LET first == program[parcels[1]]
  IN  [pc |-> pc, parcels |-> parcels, excp |-> FALSE,
       next |-> IF first.jumps \/ (first.branches /\ followed)
                THEN pc + first.by ELSE pc + 2 * Len(parcels)]

(* Predecode cuts a line into instructions until one is followed.  skew is *)
(* how far offset runs ahead once half an instruction has been completed:  *)
(* InsnPred is then read past its end.  If what is there looks like a      *)
(* valid prediction a branch is redirected to its target, for the branch   *)
(* unit to verify, and another instruction to its own successor.           *)
(* The half an instruction at the end of the line waits for the next line; *)
(* after a redirect FlushAction clears it in the same tick.                *)
Then(insn, pastEnd, rest) ==
  IF program[insn.parcels[1]].jumps \/ pastEnd
  THEN [package |-> <<insn>>, half |-> <<>>, target |-> <<insn.next>>]
  ELSE [rest EXCEPT !.package = <<insn>> \o @]

CutAt(from, at, end, skew, garbage) ==
  LET pastEnd == garbage /\ at + skew >= end
      wide == program[at].wide
  IN  CASE at = end ->
             [package |-> <<>>, half |-> <<>>, target |-> <<>>]
        [] at < end /\ ~wide ->
             Then(Insn(at, <<at>>, pastEnd), pastEnd, from[at + 2])
        [] at + 2 < end /\ wide ->
             Then(Insn(at, <<at, at + 2>>, pastEnd), pastEnd, from[at + 4])
        [] at + 2 = end /\ wide ->
             [package |-> <<>>, half |-> <<at>>, target |-> <<>>]

Cuts(start, end, skew, garbage) ==
  LET from[at \in {a \in start .. end : a % 2 = 0}] ==
        CutAt(from, at, end, skew, garbage)
  IN  from

Predecode(entry, half, garbage) ==
  LET at   == entry.address
      end  == Line(at) + FetchByteWidth
      from == Cuts(at, end, 2 * Len(half), garbage)
  IN  IF half = <<>> THEN from[at]
      ELSE Then(Insn(at - 2, <<half[1], at>>, FALSE), FALSE, from[at + 2])

FaultInsn(pc) == [pc |-> pc, parcels |-> <<>>, excp |-> TRUE, next |-> Nowhere]

Popped(f) ==
  [f EXCEPT !.queue = Tail(@), !.header = (@ + 1) % conf.inflightQueueSize]

\* SendReq: what leaves the queue, and where Fetch1 redirects itself to.
SendReq(f, garbage) ==
  LET front    == f.queue[1]
      cut      == Predecode(front, f.half, garbage)
      Quiet(g) == [fetch1 |-> g, package |-> <<>>, target |-> <<>>]
  IN  IF f.queue = <<>> THEN Quiet(f)
      ELSE IF front.busy THEN Quiet(f)
      ELSE IF front.killed THEN Quiet(Popped(f))
      ELSE IF front.excp
      THEN [fetch1  |-> [Popped(f) EXCEPT !.state = "WaitForResume"],
            package |-> <<FaultInsn(front.address)>>, target |-> <<>>]
      ELSE [fetch1  |-> [Popped(f) EXCEPT !.half = cut.half],
            package |-> cut.package, target |-> cut.target]

\* SendFetchReq: the next fetch, or an exception entry for an odd address.
MayFetch(f) == ~QueueFull(f) /\ f.state = "Idle" /\ ~toFetch2.stall

NewEntry(pc) ==
  [address |-> pc, busy |-> pc % 2 = 0, killed |-> FALSE, excp |-> pc % 2 = 1]

Requested(f, pc) ==
  LET tag == Tag(f, Len(f.queue) + 1)
      g   == [f EXCEPT !.queue = Append(@, NewEntry(pc))]
  IN  IF pc % 2 = 0 THEN g
      ELSE [g EXCEPT !.state = "HandleExcp", !.excpTag = tag]

\* GenNextFetchAddress: the latest stage that redirects wins.
Winner(stages) == CHOOSE s \in stages : \A t \in stages : Rank[s] >= Rank[t]

GenNextFetchAddress(sent, stale) ==
  LET from == {s \in Redirectors : redirect[s].out # <<>>}
      pc   == IF pcRegister.out = <<>> THEN stale ELSE pcRegister.out[1]
  IN  IF from # {} THEN Set(pcRegister, redirect[Winner(from)].out[1])
      ELSE IF sent THEN Set(pcRegister, NextLine(pc))
      ELSE IF pcRegister.out # <<>> THEN Set(pcRegister, pc)
      ELSE pcRegister

\* In the first tick the boot address is still in the input port.
Uninitialised == IF pcRegister.in # <<>> THEN BootSendSuccess ELSE BOOLEAN

Fetch1 ==
  /\ PhaseOf(5)
  /\ \E garbage \in BOOLEAN, unset \in Uninitialised, stale \in DOMAIN program :
       LET sending  == SendReq(ICacheAnswers, garbage)
           f        == sending.fetch1
           pc       == pcRegister.out[1]
           tries    == pcRegister.out # <<>> /\ MayFetch(f)
           sent     == IF pcRegister.out = <<>> THEN unset
                       ELSE tries /\ pc % 2 = 0
       IN  /\ fetch1' = IF tries THEN Requested(f, pc) ELSE f
           /\ iCache' = IF tries /\ pc % 2 = 0
                        THEN ReceiveFetchReq(Tag(f, Len(f.queue) + 1), pc)
                        ELSE iCache
           /\ toFetch2' = IF sending.package = <<>> THEN toFetch2
                          ELSE Set(toFetch2, sending.package)
           /\ IF sending.target = <<>> THEN UNCHANGED <<redirect, flushSync>>
              ELSE /\ redirect' = [redirect EXCEPT
                                     !.Fetch1 = Set(@, sending.target[1])]
                   /\ flushSync' = flushSync \union {"Fetch1"}
           /\ pcRegister' = GenNextFetchAddress(sent, stale)
  /\ UNCHANGED <<program, conf, insnBuffer, decodeQueue, toDecode, toDispatch,
                 acks, back>>

-----------------------------------------------------------------------------
(* The end of the tick: Processor::Advance.  The stages come first, and a  *)
(* stage whose flush is latched empties itself before its latches move.    *)

BadFlushed(f) == [KillNewer(f, 1) EXCEPT !.excpTag = 0, !.state = "Idle"]
Flushed(f) ==
  [KillNewer(f, 1) EXCEPT !.half = <<>>, !.excpTag = 0, !.state = "Idle"]

Advanced(stage, queue) == IF stage \in flushSync THEN <<>> ELSE queue

PcAdvanced ==
  LET next == Advance(pcRegister, 1)
  IN  IF "Fetch1" \in flushSync THEN KillOut(next) ELSE next

TickAdvances ==
  /\ PhaseOf(7)
  /\ pcRegister' = PcAdvanced
  /\ fetch1' = IF "Fetch1" \in flushSync THEN Flushed(fetch1) ELSE fetch1
  /\ iCache' = Advance(iCache, conf.iCacheLatency)
  /\ insnBuffer'  = Advanced("Fetch2", insnBuffer)
  /\ decodeQueue' = Advanced("Decode", decodeQueue)
  /\ flushSync'   = {}
  /\ toFetch2'    = Advance(toFetch2, 1)
  /\ toDecode'    = Advance(toDecode, 1)
  /\ toDispatch'  = Advance(toDispatch, 1)
  /\ ackFetch2'   = Advance(ackFetch2, 0)
  /\ ackDecode'   = Advance(ackDecode, 0)
  /\ redirect'    = [s \in Redirectors |-> Advance(redirect[s], 1)]
  /\ robIdle' = TRUE
  /\ taken' = <<>>
  /\ UNCHANGED <<program, conf, redirects, inFlight, due>>

Fetch1Reset ==
  [queue |-> <<>>, header |-> 0, state |-> "Idle", excpTag |-> 0, half |-> <<>>]
InitBootPc == Set(Empty, BootPc)

\* The latches between the stages, and those of the redirects.
ConnectPipeline ==
  /\ toFetch2 = Empty /\ toDecode = Empty /\ toDispatch = Empty
  /\ ackFetch2 = Empty /\ ackDecode = Empty
  /\ redirect = [s \in Redirectors |-> Empty]

\* Processor::Reset.
Init ==
  /\ program \in Programs /\ conf \in Confs
  /\ phase = Phases[1]
  /\ pcRegister = InitBootPc
  /\ iCache = Empty
  /\ fetch1 = Fetch1Reset
  /\ insnBuffer = <<>> /\ decodeQueue = <<>>
  /\ ConnectPipeline
  /\ flushSync = {}
  /\ robIdle = TRUE /\ redirects = 0 /\ inFlight = FALSE
  /\ due = BootPc /\ taken = <<>>

Next ==
  \/ Iew \/ \E t \in Targets : Mispredict(t)
  \/ DispatchStalls \/ DispatchTakesNone \/ DispatchTakes
  \/ Decode \/ Fetch2 \/ Fetch1
  \/ Commit \/ \E t \in Targets : Trap(t)
  \/ TickAdvances

(* The tick loop never stops; the re-order buffer is idle again and again, *)
(* and Dispatch, given a package again and again, takes some of it again   *)
(* and again: recoveries end and resources are given back (Rcu, Issue).    *)
Fairness ==
  /\ WF_vars(\E i \in 1 .. 7 : PhaseOf(i) /\ Next)
  /\ SF_vars(RobIdles) /\ SF_vars(DispatchTakes)

Spec == Init /\ [][Next]_vars
FairSpec == Spec /\ Fairness

-----------------------------------------------------------------------------
\* Every package fits the width of the stage that gets it, and no queue or
\* buffer exceeds its size (the DASSERTs of LoopQueue::Push and Allocate).
TypeOK ==
  /\ phase \in {Phases[i] : i \in 1 .. 7}
  /\ fetch1.state \in {"Idle", "HandleExcp", "WaitForResume"}
  /\ Len(fetch1.queue) <= conf.inflightQueueSize
  /\ \A i \in 1 .. Len(fetch1.queue) : fetch1.queue[i].address \in Nat
  /\ fetch1.half \in {<<>>} \union {<<a>> : a \in DOMAIN program}
  /\ Len(insnBuffer) <= conf.instrBufferSize
  /\ Len(decodeQueue) <= conf.decodeQueueSize
  /\ \A b \in {toFetch2.in, toFetch2.out} :
       b # <<>> => Len(b[1]) \in 1 .. (FetchByteWidth \div 2)
  /\ \A b \in {toDecode.in, toDecode.out} :
       b # <<>> => Len(b[1]) \in 1 .. conf.decodeWidth
  /\ \A b \in {toDispatch.in, toDispatch.out} :
       b # <<>> => Len(b[1]) \in 1 .. conf.dispatchWidth
  /\ due \in Nat \union {Nowhere}

Fetches == {i \in 1 .. Len(fetch1.queue) : ~fetch1.queue[i].killed}

(* While half an instruction waits for its other half, the oldest fetch    *)
(* that still counts is the line that begins with it: never a line of      *)
(* another path, and never one entered in its middle (the DASSERT "Shift   *)
(* Cacheline when MisAlign valid!" of Fetch1::Predecode).                  *)
HalfMeetsItsOther ==
  fetch1.half # <<>> /\ Fetches # {} /\ flushSync = {} =>
    LET oldest == CHOOSE i \in Fetches : \A j \in Fetches : i <= j
    IN  fetch1.queue[oldest].address = fetch1.half[1] + 2

(* A fetch that was killed stays killed until its answer has come and it   *)
(* leaves the queue, and every live fetch is of the line after the one     *)
(* before it: what is in flight is one run of lines, never two paths.      *)
OneRunOfLines ==
  \A i, j \in Fetches :
    i < j /\ flushSync = {} =>
      /\ j = i + 1 => fetch1.queue[j].address = NextLine(fetch1.queue[i].address)
      /\ \A k \in i .. j : k \in Fetches

(* Dispatch takes the instructions of the program in order, each once, and *)
(* after a redirect those from its target: whatever was stalled, taken in  *)
(* part, dropped for want of room and fetched again, or killed in flight.  *)
Promised == INSTANCE InsnStream
ImplementsInsnStream == Promised!Spec

\* What is due can be delivered: an instruction wholly in memory, or the
\* exception of an odd address.
Runnable ==
  /\ due # Nowhere
  /\ \/ due % 2 = 1
     \/ /\ due \in DOMAIN program
        /\ program[due].wide => due + 2 \in DOMAIN program

(* The instruction that is due comes: no stall, replay, redirect or        *)
(* exception leaves the front end waiting for ever.                        *)
InsnsArrive == Runnable ~> (taken # <<>> \/ ~Runnable)
=============================================================================

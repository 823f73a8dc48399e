--------------------------- MODULE FrontEndProofs ---------------------------
(***************************************************************************)
(* What FrontEnd promises, proved for every program, configuration and     *)
(* line width.                                                             *)
(***************************************************************************)
EXTENDS FrontEnd, TLAPS, WellFoundedInduction, SequenceTheorems

\* What the theorems assume of the build and of the configuration.
ShortLatency == \A c \in Confs : c.iCacheLatency <= 2
NoStraySend == BootSendSuccess = {FALSE}

-----------------------------------------------------------------------------
(* Data. *)

Port(S) == {s \in Seq(S) : Len(s) <= 1}
Latch(S) ==
  [in : Port(S), out : Port(S), queue : {<<>>}, stall : BOOLEAN, flush : BOOLEAN]

\* The instruction at pc, a branch followed or not, and the addresses an
\* instruction can be at.
InsnAt(p, pc, followed) ==
  IF pc % 2 = 1 THEN FaultInsn(pc)
  ELSE [pc      |-> pc,
        parcels |-> IF p[pc].wide THEN <<pc, pc + 2>> ELSE <<pc>>,
        excp    |-> FALSE,
        next    |-> IF p[pc].jumps \/ (p[pc].branches /\ followed)
                    THEN pc + p[pc].by
                    ELSE pc + IF p[pc].wide THEN 4 ELSE 2]
IsInsn(p, x) ==
  /\ \E followed \in BOOLEAN : x = InsnAt(p, x.pc, followed)
  /\ x.pc % 2 = 0 => x.pc \in DOMAIN p
Insns(p) ==
  {x \in [pc : Nat, parcels : Seq(Nat), excp : BOOLEAN, next : Nat \union {Nowhere}] :
     IsInsn(p, x)}
Package(p, n) == {s \in Seq(Insns(p)) : Len(s) \in 1 .. n}

Answer == [tag : Nat, fault : BOOLEAN]
\* At rest a fetch of an even address waits for its answer: the answer comes
\* in the tick in which the fetch leaves the queue.
Slot == [address : Nat, busy : BOOLEAN, killed : BOOLEAN, excp : BOOLEAN]
Entry ==
  {e \in Slot :
     /\ e.busy <=> e.address % 2 = 0
     /\ e.excp <=> e.address % 2 = 1}

Early == phase \in {"IEW", "Dispatch", "Decode", "Fetch2", "Fetch1"}
Flushing == "Decode" \in flushSync

Shape ==
  /\ program \in Programs /\ conf \in Confs
  /\ phase \in {"IEW", "Dispatch", "Decode", "Fetch2", "Fetch1", "Commit", "Advance"}
  /\ pcRegister \in Latch(Nat) /\ ~pcRegister.stall /\ ~pcRegister.flush
  /\ iCache \in [in : Port(Answer), out : Port(Answer),
                 queue : Port([data : Answer, wait : {0}]),
                 stall : {FALSE}, flush : {FALSE}]
  /\ fetch1 \in [queue : Seq(Entry), header : Nat, excpTag : Nat, half : Port(Nat),
                 state : {"Idle", "HandleExcp", "WaitForResume"}]
  /\ fetch1.header < conf.inflightQueueSize
  /\ Len(fetch1.queue) <= conf.iCacheLatency
  /\ insnBuffer \in Seq(Insns(program)) /\ Len(insnBuffer) <= conf.instrBufferSize
  /\ decodeQueue \in Seq(Insns(program)) /\ Len(decodeQueue) <= conf.decodeQueueSize
  /\ toFetch2 \in Latch(Package(program, FetchByteWidth \div 2)) /\ ~toFetch2.stall
  /\ toDecode \in Latch(Package(program, conf.decodeWidth))
  /\ toDispatch \in Latch(Package(program, conf.dispatchWidth))
  /\ ackFetch2 \in Latch(Nat) /\ ~ackFetch2.stall /\ ~ackFetch2.flush
  /\ ackDecode \in Latch(Nat) /\ ~ackDecode.stall /\ ~ackDecode.flush
  /\ redirect \in [Redirectors -> Latch(Nat)]
  /\ \A s \in Redirectors : ~redirect[s].stall /\ ~redirect[s].flush
  /\ flushSync \in SUBSET {"Fetch1", "Fetch2", "Decode"}
  /\ robIdle \in BOOLEAN /\ inFlight \in BOOLEAN /\ redirects \in Nat
  /\ due \in Nat \union {Nowhere}

-----------------------------------------------------------------------------
(* The protocol of the latches within a tick. *)

Protocol ==
  /\ phase \in {"IEW", "Dispatch"} => ackDecode.in = <<>> /\ ~toDispatch.stall
  /\ phase \in {"IEW", "Dispatch", "Decode"} =>
       toDispatch.in = <<>> /\ ackFetch2.in = <<>> /\ ~toDecode.stall
  /\ phase \in {"IEW", "Dispatch", "Decode", "Fetch2"} =>
       toDecode.in = <<>> /\ redirect["Fetch2"].in = <<>>
  /\ Early => /\ toFetch2.in = <<>> /\ iCache.in = <<>>
              /\ redirect["Fetch1"].in = <<>>
              /\ pcRegister.in # <<>> => pcRegister.out = <<>>
  /\ ~Early => pcRegister.in # <<>>
  /\ "Fetch2" \in flushSync <=> Flushing
  /\ Flushing => "Fetch1" \in flushSync
  /\ phase = "IEW" => flushSync = {}
  /\ phase \in {"Dispatch", "Decode", "Fetch2"} =>
       ("Fetch1" \in flushSync => Flushing)
  /\ toDecode.flush <=> Flushing
  /\ toDispatch.flush <=> Flushing
  /\ Flushing => toFetch2.flush /\ (Early => ~robIdle)
  /\ toFetch2.flush => "Fetch1" \in flushSync
  /\ toFetch2.flush <=> (Flushing \/ redirect["Fetch2"].in # <<>>)
  /\ ~Flushing => redirect["Issue"].in = <<>> /\ redirect["Commit"].in = <<>>
  /\ "Fetch1" \in flushSync <=> \E s \in Redirectors : redirect[s].in # <<>>

-----------------------------------------------------------------------------
(* The stream of instructions. *)

Flat(port) == IF port = <<>> THEN <<>> ELSE port[1]
Follows(s, from) ==
  /\ s # <<>> => s[1].pc = from
  /\ \A i \in 1 .. (Len(s) - 1) : s[i + 1].pc = s[i].next
Tip(s, from) == IF s = <<>> THEN from ELSE s[Len(s)].next
Begins(s, t) == Len(s) <= Len(t) /\ \A i \in 1 .. Len(s) : s[i] = t[i]
OffersOf(port, queue) == port # <<>> => Begins(port[1], queue)

OfDecode ==
  IF phase = "Decode" THEN Released(decodeQueue, ackDecode) ELSE decodeQueue
OfFetch2 ==
  IF phase = "Fetch2" THEN Released(insnBuffer, ackFetch2) ELSE insnBuffer
OfFetch1 ==
  IF phase \in {"IEW", "Dispatch", "Decode", "Fetch2"} THEN Flat(toFetch2.out)
  ELSE IF toFetch2.flush THEN <<>> ELSE Flat(toFetch2.in)
Stream == OfDecode \o OfFetch2 \o OfFetch1

Offers ==
  /\ phase \in {"IEW", "Dispatch"} => OffersOf(toDispatch.out, decodeQueue)
  /\ phase = "Decode" /\ toDispatch.stall =>
       OffersOf(toDispatch.out, decodeQueue) /\ ackDecode.in = <<>>
  /\ phase \in {"Fetch2", "Fetch1", "Commit", "Advance"} =>
       IF toDispatch.stall
       THEN toDispatch.in = <<>> /\ OffersOf(toDispatch.out, decodeQueue)
       ELSE OffersOf(toDispatch.in, decodeQueue)
  /\ phase \in {"IEW", "Dispatch", "Decode"} => OffersOf(toDecode.out, insnBuffer)
  /\ phase = "Fetch2" /\ toDecode.stall =>
       OffersOf(toDecode.out, insnBuffer) /\ ackFetch2.in = <<>>
  /\ phase \in {"Fetch1", "Commit", "Advance"} =>
       IF toDecode.stall
       THEN toDecode.in = <<>> /\ OffersOf(toDecode.out, insnBuffer)
       ELSE OffersOf(toDecode.in, insnBuffer)

Linked == ~Flushing => Follows(Stream, due)

-----------------------------------------------------------------------------
(* The fetches in flight. *)

Ready(queue) == IF queue = <<>> THEN <<>> ELSE <<queue[1].data>>
Sooner ==
  IF Early THEN iCache.out
  ELSE IF conf.iCacheLatency = 1 THEN iCache.in ELSE Ready(iCache.queue)
Later ==
  IF conf.iCacheLatency = 1 THEN <<>>
  ELSE IF Early THEN Ready(iCache.queue) ELSE iCache.in

\* answer is the one fetch i of f waits for.
Answers(answer, f, i) ==
  /\ i \in 1 .. Len(f.queue)
  /\ answer.tag = Tag(f, i)
  /\ f.queue[i].busy
  /\ answer.fault <=> f.queue[i].address >= End

Pending(f, sooner, later) ==
  /\ sooner # <<>> => Answers(sooner[1], f, 1)
  /\ later # <<>> => Answers(later[1], f, Len(f.queue))
  /\ sooner # <<>> /\ later # <<>> => Len(f.queue) = 2
  /\ Len(f.queue) >= 1 /\ f.queue[1].busy =>
       sooner # <<>> \/ (Len(f.queue) = 1 /\ later # <<>>)
  /\ Len(f.queue) = 2 /\ f.queue[2].busy => later # <<>>

Timing ==
  /\ conf.iCacheLatency = 1 => iCache.queue = <<>>
  /\ Pending(fetch1, Sooner, Later)

Live(f, i) == i \in 1 .. Len(f.queue) /\ ~f.queue[i].killed
Idle(f) ==
  f.state = "Idle" /\ f.half = <<>> /\ (\A i \in 1 .. Len(f.queue) : ~Live(f, i))
\* Where the next line to be handed on begins.
Aim(f, pc) ==
  IF Live(f, 1) THEN f.queue[1].address
  ELSE IF Live(f, 2) THEN f.queue[2].address ELSE pc

\* The live fetches and pc are one run of lines, on from the half.
Run(f, pc) ==
  /\ Live(f, 1) /\ Len(f.queue) = 2 =>
       Live(f, 2) /\ f.queue[2].address = NextLine(f.queue[1].address)
  /\ Live(f, 2) /\ ~Live(f, 1) => f.queue[2].address >= End
  /\ \A i \in 1 .. Len(f.queue) : Live(f, i) => f.queue[i].address % 2 = 0
  /\ Live(f, Len(f.queue)) => pc = NextLine(f.queue[Len(f.queue)].address)
  /\ pc % 2 = 1 => Idle(f)
  /\ f.half # <<>> =>
       /\ f.half[1] \in DOMAIN program /\ program[f.half[1]].wide
       /\ Aim(f, pc) = f.half[1] + 2
       /\ Aim(f, pc) % FetchByteWidth = 0

Path(f, pc, later) ==
  \/ /\ f.state = "Idle"
     /\ Run(f, pc)
     /\ later # <<>> \/ Len(f.queue) = 2 => Live(f, Len(f.queue))
  \/ /\ f.state = "HandleExcp"
     /\ f.half = <<>>
     /\ Len(f.queue) = 1 /\ Live(f, 1) /\ f.queue[1].address % 2 = 1
  \/ /\ f.state = "WaitForResume"
     /\ f.half = <<>> /\ f.queue = <<>>

Redirected == \E s \in Redirectors : redirect[s].out # <<>>

Fetching ==
  /\ Early /\ Redirected => pcRegister = Empty /\ Idle(fetch1)
  /\ Early /\ ~Redirected /\ pcRegister.out # <<>> =>
       Path(fetch1, pcRegister.out[1], Later)
  /\ Early /\ pcRegister.in # <<>> =>
       ~Redirected /\ fetch1 = Fetch1Reset /\ iCache = Empty
  /\ Early => Redirected \/ pcRegister.in # <<>> \/ pcRegister.out # <<>>
  /\ ~Early /\ "Fetch1" \notin flushSync => Path(fetch1, pcRegister.in[1], Later)

-----------------------------------------------------------------------------
(* Where the fetches and the stream meet. *)

OutStages == {s \in Redirectors : redirect[s].out # <<>>}
InStages == {s \in Redirectors : redirect[s].in # <<>>}

\* What f hands on next begins at tip.
Reaches(f, pc, tip) ==
  f.state # "WaitForResume" =>
    IF f.half = <<>> THEN Aim(f, pc) = tip \/ (Aim(f, pc) >= End /\ Aim(f, pc) % 2 = 0)
    ELSE tip = f.half[1]

Meets(tip) ==
  IF "Fetch1" \in flushSync THEN tip = redirect[Winner(InStages)].in[1]
  ELSE IF Early /\ Redirected THEN tip = redirect[Winner(OutStages)].out[1]
  ELSE Reaches(fetch1,
               IF pcRegister.in # <<>> THEN pcRegister.in[1] ELSE pcRegister.out[1], tip)

\* Where the fetches have to go on.
Goal == IF Flushing THEN due ELSE Tip(Stream, due)
Aimed == Meets(Goal)

Inv == /\ Shape /\ Protocol /\ Offers /\ Linked /\ Timing /\ Fetching /\ Aimed

-----------------------------------------------------------------------------
(* Sets of naturals, lines and the memory.                                 *)

LEMMA SmallestOfSet ==
  ASSUME NEW T, T \subseteq Nat, T # {}
  PROVE  \E x \in T : \A y \in T : x <= y
<1> DEFINE R == OpToRel(<, Nat)
<1>1. IsWellFoundedOn(R, Nat)
  BY NatLessThanWellFounded
<1> HIDE DEF R
<1>2. PICK x \in T : \A y \in T : ~(<<y, x>> \in R)
  BY <1>1, WFMin
<1>3. \A y \in T : y < x => <<y, x>> \in R
  BY DEF R, OpToRel
<1>4. \A y \in T : ~(y < x)
  BY <1>2, <1>3
<1>5. \A y \in T : y \in Nat
  OBVIOUS
<1> QED
  BY <1>4, <1>5

LEMMA UpFromZero ==
  ASSUME NEW T, T \subseteq Nat, 0 \in T, \A n \in T : n + 1 \in T
  PROVE  T = Nat
<1> DEFINE Left == Nat \ T
<1>1. SUFFICES ASSUME Left # {} PROVE FALSE
  OBVIOUS
<1>2. PICK x \in Left : \A y \in Left : x <= y
  <2> Left \subseteq Nat
    OBVIOUS
  <2> HIDE DEF Left
  <2> QED
    BY <1>1, SmallestOfSet
<1>3. x \in Nat /\ x # 0
  OBVIOUS
<1>4. x - 1 \in Nat /\ x - 1 \notin Left
  BY <1>2, <1>3
<1>5. x - 1 \in T /\ (x - 1) + 1 = x
  BY <1>3, <1>4
<1> QED
  BY <1>5

LEMMA WidthFacts ==
  /\ FetchByteWidth \in Nat \ {0} /\ FetchByteWidth % 2 = 0
  /\ FetchByteWidth \div 2 \in Nat \ {0}
  /\ FetchByteWidth = 2 * (FetchByteWidth \div 2)
BY AddressAssumption

LEMMA LineFacts ==
  ASSUME NEW a \in Nat
  PROVE  /\ Line(a) \in Nat /\ Line(a) <= a /\ a < Line(a) + FetchByteWidth
         /\ (Line(a) + FetchByteWidth) % FetchByteWidth = 0
         /\ a % FetchByteWidth = 0 => Line(a) = a
<1> DEFINE w == FetchByteWidth  q == a \div w  r == a % w
<1>1. w \in Nat \ {0}
  BY WidthFacts
<1>2. a = w * q + r /\ q \in Nat /\ r \in 0 .. (w - 1)
  BY <1>1
<1>3. Line(a) = a - r
  BY DEF Line
<1>4. Line(a) = w * q /\ Line(a) + w = w * (q + 1) + 0 /\ w * q \in Nat
  BY <1>1, <1>2, <1>3
<1>5. (w * (q + 1) + 0) % w = 0
  BY <1>1, <1>2
<1> HIDE DEF w, q, r
<1>6. /\ Line(a) \in Nat /\ Line(a) <= a /\ a < Line(a) + w
      /\ (Line(a) + w) % w = 0
      /\ r = 0 => Line(a) = a
  BY <1>1, <1>2, <1>3, <1>4, <1>5
<1> QED
  BY <1>6 DEF w, r

LEMMA EvenLines ==
  ASSUME NEW a \in Nat
  PROVE  a % FetchByteWidth = 0 => a % 2 = 0
<1> DEFINE w == FetchByteWidth  h == w \div 2  q == a \div w
<1>1. SUFFICES ASSUME a % w = 0 PROVE a % 2 = 0
  OBVIOUS
<1>2. w \in Nat \ {0} /\ h \in Nat /\ w = 2 * h
  BY WidthFacts
<1>3. a = w * q /\ q \in Nat
  BY <1>1, <1>2
<1>4. a = 2 * (h * q) /\ h * q \in Nat
  BY <1>2, <1>3
<1> QED
  BY <1>4

LEMMA LineEven ==
  ASSUME NEW a \in Nat
  PROVE  (Line(a) + FetchByteWidth) % 2 = 0
BY LineFacts, WidthFacts, EvenLines

LEMMA EndFacts ==
  ASSUME program \in Programs
  PROVE  /\ End \in Nat /\ End % FetchByteWidth = 0 /\ End % 2 = 0
         /\ \A a : a \in DOMAIN program <=> a \in Nat /\ a < End /\ a % 2 = 0
         /\ \A a \in DOMAIN program :
              /\ program[a].wide \in BOOLEAN /\ program[a].jumps \in BOOLEAN
              /\ program[a].branches \in BOOLEAN /\ program[a].by \in Int
              /\ program[a].jumps \/ program[a].branches => a + program[a].by \in Nat
<1>1. PICK last \in DOMAIN program :
        /\ DOMAIN program = {a \in 0 .. last : a % 2 = 0}
        /\ (last + 2) % FetchByteWidth = 0
  BY ProgramsAssumption
<1>2. last \in Nat /\ last % 2 = 0
  <2>1. last \in 0 .. last /\ last % 2 = 0
    BY <1>1
  <2>2. last \in Int
    BY <2>1
  <2> QED
    BY <2>1, <2>2
<1>3. End = last + 2
  <2> DEFINE S == {p + 2 : p \in DOMAIN program}
  <2>1. last + 2 \in S /\ last + 2 \notin DOMAIN program
    BY <1>1, <1>2
  <2>2. \A a \in S : a \notin DOMAIN program => a = last + 2
    BY <1>1, <1>2
  <2> QED
    BY <2>1, <2>2 DEF End
<1>4. \A a : a \in DOMAIN program <=> a \in Nat /\ a < last + 2 /\ a % 2 = 0
  BY <1>1, <1>2
<1>5. \A a \in DOMAIN program :
        /\ program[a].wide \in BOOLEAN /\ program[a].jumps \in BOOLEAN
        /\ program[a].branches \in BOOLEAN /\ program[a].by \in Int
        /\ program[a].jumps \/ program[a].branches => a + program[a].by \in Nat
  BY ProgramsAssumption
<1>6. (last + 2) % 2 = 0 /\ last + 2 \in Nat
  BY <1>2
<1> QED
  BY <1>1, <1>3, <1>4, <1>5, <1>6

LEMMA LineFits ==
  ASSUME NEW w \in Nat \ {0}, NEW e \in Nat, e % w = 0, NEW a \in Nat, a < e
  PROVE  (a - (a % w)) + w <= e
<1>1. PICK q \in Nat : a = w * q + (a % w)
  <2>1. a = w * (a \div w) + (a % w) /\ a \div w \in Nat
    OBVIOUS
  <2> QED
    BY <2>1
<1>2. PICK k \in Nat : e = w * k
  OBVIOUS
<1>3. a % w \in Nat /\ w * q \in Nat
  OBVIOUS
<1>4. q < k
  <2>1. CASE q >= k
    <3>1. q - k \in Nat /\ w * q = w * k + w * (q - k) /\ w * (q - k) \in Nat
      BY <2>1
    <3> QED
      BY <1>1, <1>2, <1>3, <3>1
  <2> QED
    BY <2>1
<1>5. k - q - 1 \in Nat /\ w * k = w * q + w + w * (k - q - 1) /\ w * (k - q - 1) \in Nat
  BY <1>4
<1>6. \A r, p, d \in Nat : a = p + r /\ e = p + w + d => (a - r) + w <= e
  OBVIOUS
<1>7. a = (w * q) + (a % w) /\ e = (w * q) + w + (w * (k - q - 1))
  BY <1>1, <1>2, <1>5
<1> QED
  BY <1>3, <1>5, <1>6, <1>7

LEMMA NextLineFacts ==
  ASSUME program \in Programs, NEW a \in Nat
  PROVE  /\ NextLine(a) \in Nat /\ NextLine(a) % FetchByteWidth = 0
         /\ NextLine(a) % 2 = 0
         /\ a >= End => NextLine(a) = End
         /\ a < End => /\ NextLine(a) = Line(a) + FetchByteWidth
                       /\ NextLine(a) <= End
<1>1. End \in Nat /\ End % FetchByteWidth = 0 /\ End % 2 = 0
  BY EndFacts
<1>2. /\ Line(a) \in Nat /\ Line(a) <= a /\ a < Line(a) + FetchByteWidth
      /\ (Line(a) + FetchByteWidth) % FetchByteWidth = 0
      /\ (Line(a) + FetchByteWidth) % 2 = 0
  BY LineFacts, LineEven
<1>3. a < End => Line(a) + FetchByteWidth <= End
  BY <1>1, WidthFacts, LineFits DEF Line
<1> QED
  BY <1>1, <1>2, <1>3, WidthFacts DEF NextLine

-----------------------------------------------------------------------------
(* Predecode: the function that cuts a line exists, and what it cuts is a  *)
(* run of instructions from the one it is asked for.                       *)

Blank == [package |-> <<>>, half |-> <<>>, target |-> <<>>]

LEMMA CutAtCases ==
  ASSUME program \in Programs, NEW f, NEW at \in Nat, NEW end \in Nat,
         at % 2 = 0, end % 2 = 0, at <= end, end <= End, NEW skew, NEW garbage
  PROVE  \/ at = end /\ CutAt(f, at, end, skew, garbage) = Blank
         \/ /\ at + 2 <= end /\ at \in DOMAIN program /\ ~program[at].wide
            /\ CutAt(f, at, end, skew, garbage) =
                 Then(Insn(at, <<at>>, garbage /\ at + skew >= end),
                      garbage /\ at + skew >= end, f[at + 2])
         \/ /\ at + 4 <= end /\ at \in DOMAIN program /\ at + 2 \in DOMAIN program
            /\ program[at].wide
            /\ CutAt(f, at, end, skew, garbage) =
                 Then(Insn(at, <<at, at + 2>>, garbage /\ at + skew >= end),
                      garbage /\ at + skew >= end, f[at + 4])
         \/ /\ at + 2 = end /\ at \in DOMAIN program /\ program[at].wide
            /\ CutAt(f, at, end, skew, garbage) = [Blank EXCEPT !.half = <<at>>]
<1>1. /\ End \in Nat
      /\ \A a : a \in DOMAIN program <=> a \in Nat /\ a < End /\ a % 2 = 0
      /\ \A a \in DOMAIN program : program[a].wide \in BOOLEAN
  BY EndFacts
<1>2. CASE at = end
  BY <1>2 DEF CutAt, Blank
<1>3. CASE at < end
  <2>1. at \in DOMAIN program /\ at + 2 <= end
    BY <1>1, <1>3
  <2>2. CASE ~program[at].wide
    BY <1>3, <2>1, <2>2 DEF CutAt
  <2>3. CASE program[at].wide /\ at + 2 < end
    <3>1. at + 4 <= end /\ at + 2 \in DOMAIN program
      BY <1>1, <2>3
    <3> QED
      BY <1>3, <2>1, <2>3, <3>1 DEF CutAt
  <2>4. CASE program[at].wide /\ at + 2 = end
    <3>1. CutAt(f, at, end, skew, garbage) = [package |-> <<>>, half |-> <<at>>, target |-> <<>>]
      BY <1>3, <2>4 DEF CutAt
    <3> QED
      BY <2>1, <2>4, <3>1 DEF Blank
  <2> QED
    BY <2>1, <2>2, <2>3, <2>4
<1> QED
  BY <1>2, <1>3

LEMMA CutAtSame ==
  ASSUME program \in Programs, NEW f, NEW g, NEW at \in Nat, NEW end \in Nat,
         at % 2 = 0, end % 2 = 0, at <= end, end <= End, NEW skew, NEW garbage,
         \A b \in Nat : b % 2 = 0 /\ at < b /\ b <= end => f[b] = g[b]
  PROVE  CutAt(f, at, end, skew, garbage) = CutAt(g, at, end, skew, garbage)
<1>1. at + 2 <= end => f[at + 2] = g[at + 2]
  OBVIOUS
<1>2. at + 4 <= end => f[at + 4] = g[at + 4]
  OBVIOUS
<1>3. at = end \/ at + 2 = end \/ at + 4 <= end
  OBVIOUS
<1>4. at < end => program[at].wide \in BOOLEAN
  BY EndFacts
<1>5. CASE at = end
  BY <1>5 DEF CutAt
<1>6. CASE at + 2 <= end /\ ~program[at].wide
  BY <1>1, <1>6 DEF CutAt
<1>7. CASE at + 4 <= end /\ program[at].wide
  BY <1>2, <1>7 DEF CutAt
<1>8. CASE at + 2 = end /\ program[at].wide
  BY <1>8 DEF CutAt
<1> QED
  BY <1>3, <1>4, <1>5, <1>6, <1>7, <1>8

Evens(start, end) == {a \in start .. end : a % 2 = 0}
CutsOn(f, k, end, skew, garbage) ==
  f = [at \in Evens(end - k, end) |-> CutAt(f, at, end, skew, garbage)]

LEMMA CutsExtend ==
  ASSUME program \in Programs, NEW k \in Nat, NEW end \in Nat, k + 1 <= end,
         end % 2 = 0, end <= End, NEW skew, NEW garbage,
         \E f : CutsOn(f, k, end, skew, garbage)
  PROVE  \E f : CutsOn(f, k + 1, end, skew, garbage)
<1>1. PICK f : CutsOn(f, k, end, skew, garbage)
  OBVIOUS
<1>2. PICK at0 \in Nat : at0 = end - (k + 1)
  OBVIOUS
<1>3. end - k = at0 + 1
  BY <1>2
<1>4. CASE at0 % 2 = 1
  <2>1. Evens(at0, end) = Evens(at0 + 1, end)
    BY <1>2, <1>4 DEF Evens
  <2> QED
    BY <1>1, <1>2, <1>3, <2>1 DEF CutsOn
<1>5. CASE at0 % 2 = 0
  <2> DEFINE D == Evens(at0, end)
             g == [at \in D |->
                     IF at = at0 THEN CutAt(f, at0, end, skew, garbage) ELSE f[at]]
  <2>1. /\ \A at \in D : at = at0 \/ at \in Evens(at0 + 1, end)
        /\ Evens(at0 + 1, end) \subseteq D
        /\ at0 \notin Evens(at0 + 1, end) /\ at0 \in D
    BY <1>2, <1>5 DEF Evens
  <2>2. \A at \in Evens(at0 + 1, end) : f[at] = CutAt(f, at, end, skew, garbage)
    BY <1>1, <1>3 DEF CutsOn
  <2> HIDE DEF D
  <2>3. \A at \in Evens(at0 + 1, end) : g[at] = f[at]
    BY <2>1
  <2>4. \A at \in D : g[at] = CutAt(f, at, end, skew, garbage)
    BY <2>1, <2>2
  <2>5. g = [at \in D |-> g[at]]
    OBVIOUS
  <2> HIDE DEF g
  <2>6. ASSUME NEW at \in D
        PROVE  CutAt(g, at, end, skew, garbage) = CutAt(f, at, end, skew, garbage)
    <3>1. at \in Nat /\ at % 2 = 0 /\ at <= end /\ at >= at0
      BY <1>2 DEF D, Evens
    <3>2. \A b \in Nat : b % 2 = 0 /\ at < b /\ b <= end => b \in Evens(at0 + 1, end)
      BY <1>2, <3>1 DEF Evens
    <3>3. \A b \in Nat : b % 2 = 0 /\ at < b /\ b <= end => g[b] = f[b]
      BY <2>3, <3>2
    <3> QED
      BY <3>1, <3>3, CutAtSame
  <2>7. \A at \in D : g[at] = CutAt(g, at, end, skew, garbage)
    BY <2>4, <2>6
  <2>8. g = [at \in D |-> CutAt(g, at, end, skew, garbage)]
    BY <2>5, <2>7
  <2>9. CutsOn(g, k + 1, end, skew, garbage)
    BY <1>2, <2>8 DEF CutsOn, D
  <2> QED
    BY <2>9
<1> QED
  BY <1>4, <1>5

LEMMA CutsDefined ==
  ASSUME program \in Programs, NEW start \in Nat, NEW end \in Nat,
         start <= end, end % 2 = 0, end <= End, NEW skew, NEW garbage
  PROVE  \A at \in start .. end : at % 2 = 0 =>
           Cuts(start, end, skew, garbage)[at] =
             CutAt(Cuts(start, end, skew, garbage), at, end, skew, garbage)
<1> DEFINE Solved == {k \in Nat : k <= end - start =>
                                    \E f : CutsOn(f, k, end, skew, garbage)}
<1>1. \E f : CutsOn(f, 0, end, skew, garbage)
  <2> DEFINE f == [at \in {end} |-> Blank]
  <2>1. \A at \in {end} : f[at] = CutAt(f, at, end, skew, garbage)
    BY DEF CutAt, Blank
  <2>2. f = [at \in {end} |-> f[at]]
    OBVIOUS
  <2> HIDE DEF f
  <2>3. f = [at \in {end} |-> CutAt(f, at, end, skew, garbage)]
    BY <2>1, <2>2
  <2>4. Evens(end - 0, end) = {end}
    BY DEF Evens
  <2>5. CutsOn(f, 0, end, skew, garbage)
    BY <2>3, <2>4 DEF CutsOn
  <2> QED
    BY <2>5
<1>2. 0 \in Solved
  BY <1>1
<1>3. ASSUME NEW k \in Solved PROVE k + 1 \in Solved
  <2>1. k \in Nat /\ k + 1 \in Nat
    OBVIOUS
  <2>2. ASSUME k + 1 <= end - start
        PROVE  \E f : CutsOn(f, k + 1, end, skew, garbage)
    <3>1. k <= end - start /\ k + 1 <= end
      BY <2>1, <2>2
    <3>2. \E f : CutsOn(f, k, end, skew, garbage)
      BY <3>1
    <3> HIDE DEF Solved
    <3> QED
      BY <2>1, <3>1, <3>2, CutsExtend
  <2> QED
    BY <2>1, <2>2
<1>4. Solved = Nat
  <2>1. Solved \subseteq Nat
    OBVIOUS
  <2> HIDE DEF Solved
  <2> QED
    BY <1>2, <1>3, <2>1, UpFromZero
<1>5. end - start \in Nat
  OBVIOUS
<1>6. \E f : CutsOn(f, end - start, end, skew, garbage)
  <2>1. end - start \in Solved
    <3> HIDE DEF Solved
    <3> QED
      BY <1>4, <1>5
  <2> QED
    BY <1>5, <2>1
<1>7. end - (end - start) = start
  OBVIOUS
<1>8. \E f : f = [at \in {a \in start .. end : a % 2 = 0} |-> CutAt(f, at, end, skew, garbage)]
  BY <1>6, <1>7 DEF CutsOn, Evens
<1> DEFINE c == Cuts(start, end, skew, garbage)
<1>9. c = [at \in {a \in start .. end : a % 2 = 0} |-> CutAt(c, at, end, skew, garbage)]
  BY <1>8 DEF Cuts
<1> HIDE DEF c
<1>10. \A at \in {a \in start .. end : a % 2 = 0} : c[at] = CutAt(c, at, end, skew, garbage)
  BY <1>9
<1> QED
  BY <1>10 DEF c

-----------------------------------------------------------------------------
(* Runs of instructions.                                                   *)

LEMMA FollowsConcat ==
  ASSUME NEW S, NEW s \in Seq(S), NEW t \in Seq(S), NEW from
  PROVE  /\ Follows(s \o t, from) <=> Follows(s, from) /\ Follows(t, Tip(s, from))
         /\ Tip(s \o t, from) = Tip(t, Tip(s, from))
<1> DEFINE st == s \o t  n == Len(s)  m == Len(t)
<1>1. /\ n \in Nat /\ m \in Nat /\ Len(st) = n + m /\ st \in Seq(S)
      /\ \A i \in 1 .. n : st[i] = s[i]
      /\ \A i \in 1 .. m : st[n + i] = t[i]
      /\ (s = <<>> <=> n = 0) /\ (t = <<>> <=> m = 0) /\ (st = <<>> <=> n + m = 0)
  OBVIOUS
<1> HIDE DEF st, n, m
<1>2. CASE n = 0
  <2>1. s = <<>> /\ st = t
    BY <1>1, <1>2 DEF st
  <2>2. Follows(s, from) /\ Tip(s, from) = from
    BY <1>1, <1>2, <2>1 DEF Follows, Tip, n
  <2> QED
    BY <2>1, <2>2 DEF st
<1>3. CASE n # 0 /\ m = 0
  <2>1. t = <<>> /\ st = s
    BY <1>1, <1>3 DEF st
  <2>2. Follows(t, Tip(s, from)) /\ Tip(t, Tip(s, from)) = Tip(s, from)
    BY <1>1, <1>3, <2>1 DEF Follows, Tip, m
  <2> QED
    BY <2>1, <2>2 DEF st
<1>4. CASE n # 0 /\ m # 0
  <2>1. Tip(s, from) = s[n].next /\ Tip(t, Tip(s, from)) = t[m].next
    BY <1>1, <1>4 DEF Tip, n, m
  <2>2. Tip(st, from) = t[m].next
    BY <1>1, <1>4 DEF Tip
  <2>3. Follows(st, from) =>
          Follows(s, from) /\ Follows(t, Tip(s, from))
    <3>1. SUFFICES ASSUME Follows(st, from)
                   PROVE  Follows(s, from) /\ Follows(t, s[n].next)
      BY <2>1
    <3>2. st[1] = s[1] /\ st[1].pc = from
      BY <1>1, <1>4, <3>1 DEF Follows
    <3>3. \A i \in 1 .. (n - 1) : s[i + 1].pc = s[i].next
      BY <1>1, <1>4, <3>1, SMTT(40) DEF Follows
    <3>4. t[1].pc = s[n].next
      <4>1. n \in 1 .. (Len(st) - 1) /\ st[n + 1] = t[1] /\ st[n] = s[n]
        BY <1>1, <1>4
      <4> QED
        BY <3>1, <4>1 DEF Follows
    <3>5. \A i \in 1 .. (m - 1) : t[i + 1].pc = t[i].next
      <4> TAKE i \in 1 .. (m - 1)
      <4>1. n + i \in 1 .. (Len(st) - 1) /\ st[(n + i) + 1] = t[i + 1] /\ st[n + i] = t[i]
        BY <1>1, <1>4
      <4> QED
        BY <3>1, <4>1 DEF Follows
    <3> QED
      BY <3>2, <3>3, <3>4, <3>5 DEF Follows, n, m
  <2>4. Follows(s, from) /\ Follows(t, Tip(s, from)) => Follows(st, from)
    <3>1. SUFFICES ASSUME Follows(s, from), Follows(t, s[n].next)
                   PROVE  Follows(st, from)
      BY <2>1
    <3>2. st[1].pc = from
      BY <1>1, <1>4, <3>1 DEF Follows
    <3>3. ASSUME NEW i \in 1 .. (Len(st) - 1) PROVE st[i + 1].pc = st[i].next
      <4>1. CASE i < n
        <5>1. st[i] = s[i] /\ st[i + 1] = s[i + 1] /\ i \in 1 .. (Len(s) - 1)
          BY <1>1, <4>1 DEF n
        <5> QED
          BY <3>1, <5>1 DEF Follows
      <4>2. CASE i = n
        BY <1>1, <1>4, <3>1, <4>2 DEF Follows
      <4>3. CASE i > n
        <5>1. i - n \in 1 .. (m - 1)
          BY <1>1, <4>3
        <5>2. t[(i - n) + 1].pc = t[i - n].next
          BY <3>1, <5>1 DEF Follows, m
        <5>3. st[i] = t[i - n] /\ st[i + 1] = t[(i - n) + 1]
          <6>1. i = n + (i - n) /\ i + 1 = n + ((i - n) + 1) /\ (i - n) + 1 \in 1 .. m
            BY <1>1, <5>1
          <6>2. i - n \in 1 .. m
            BY <1>1, <5>1
          <6> QED
            BY <1>1, <6>1, <6>2
        <5> QED
          BY <5>2, <5>3
      <4> QED
        BY <1>1, <4>1, <4>2, <4>3
    <3> QED
      BY <3>2, <3>3 DEF Follows
  <2> QED
    BY <2>1, <2>2, <2>3, <2>4 DEF st
<1> QED
  BY <1>1, <1>2, <1>3, <1>4

LEMMA IsConcat ==
  ASSUME NEW S, NEW s \in Seq(S), NEW a \in Seq(S), NEW b \in Seq(S),
         Len(s) = Len(a) + Len(b),
         \A i \in 1 .. Len(a) : s[i] = a[i],
         \A i \in 1 .. Len(b) : s[Len(a) + i] = b[i]
  PROVE  s = a \o b
<1>1. a \o b \in Seq(S) /\ Len(a \o b) = Len(s)
  OBVIOUS
<1>2. ASSUME NEW i \in 1 .. Len(s) PROVE s[i] = (a \o b)[i]
  <2>1. CASE i <= Len(a)
    BY <2>1
  <2>2. CASE i > Len(a)
    <3>1. i - Len(a) \in 1 .. Len(b) /\ Len(a) + (i - Len(a)) = i
      BY <2>2
    <3>2. s[Len(a) + (i - Len(a))] = b[i - Len(a)]
      BY <3>1
    <3>3. (a \o b)[i] = b[i - Len(a)]
      BY <2>2
    <3> QED
      BY <3>1, <3>2, <3>3
  <2> QED
    BY <2>1, <2>2
<1> QED
  BY <1>1, <1>2, SeqEqual

Associative(a, b, c) == (a \o b) \o c = a \o (b \o c)

LEMMA Associates == \A S : \A a, b, c \in Seq(S) : Associative(a, b, c)
BY ConcatAssociative DEF Associative

LEMMA FirstIs ==
  ASSUME NEW S, NEW s \in Seq(S), NEW n \in Nat
  PROVE  /\ First(s, n) \in Seq(S)
         /\ Len(s) < n => Len(First(s, n)) = Len(s)
         /\ Len(s) >= n => Len(First(s, n)) = n
         /\ \A i \in 1 .. Len(First(s, n)) : First(s, n)[i] = s[i]
<1>1. Len(s) < n => First(s, n) = SubSeq(s, 1, Len(s))
  BY DEF First
<1>2. Len(s) >= n => First(s, n) = SubSeq(s, 1, n)
  BY DEF First
<1> QED
  BY <1>1, <1>2

LEMMA DropIs ==
  ASSUME NEW S, NEW s \in Seq(S), NEW n \in Nat
  PROVE  /\ Drop(s, n) \in Seq(S)
         /\ Len(s) < n => Drop(s, n) = <<>>
         /\ Len(s) >= n => /\ Len(Drop(s, n)) = Len(s) - n
                           /\ \A i \in 1 .. Len(Drop(s, n)) : Drop(s, n)[i] = s[n + i]
<1>1. Len(s) <= n => SubSeq(s, n + 1, Len(s)) = <<>>
  BY SubSeqEmpty
<1>2. Len(s) > n =>
        /\ SubSeq(s, n + 1, Len(s)) \in Seq(S)
        /\ Len(SubSeq(s, n + 1, Len(s))) = Len(s) - n
        /\ \A i \in 1 .. (Len(s) - n) : SubSeq(s, n + 1, Len(s))[i] = s[n + i]
  OBVIOUS
<1> QED
  BY <1>1, <1>2 DEF Drop

LEMMA SplitAt ==
  ASSUME NEW S, NEW s \in Seq(S), NEW n \in Nat
  PROVE  s = First(s, n) \o Drop(s, n)
<1>1. PICK a \in Seq(S) : a = First(s, n)
  BY FirstIs
<1>2. PICK b \in Seq(S) : b = Drop(s, n)
  BY DropIs
<1>3. CASE Len(s) < n
  <2>1. Len(a) = Len(s) /\ Len(b) = 0 /\ \A i \in 1 .. Len(a) : s[i] = a[i]
    BY <1>1, <1>2, <1>3, FirstIs, DropIs
  <2> QED
    BY <1>1, <1>2, <2>1, IsConcat
<1>4. CASE Len(s) >= n
  <2>1. Len(a) = n /\ \A i \in 1 .. Len(a) : s[i] = a[i]
    BY <1>1, <1>4, FirstIs
  <2>2. \A i \in 1 .. Len(b) : s[n + i] = b[i]
    BY <1>2, <1>4, DropIs
  <2>3. Len(b) = Len(s) - n
    BY <1>2, <1>4, DropIs
  <2>4. \A i \in 1 .. Len(b) : s[Len(a) + i] = b[i]
    BY <2>1, <2>2
  <2>5. Len(s) = Len(a) + Len(b)
    <3>1. Len(s) \in Nat
      OBVIOUS
    <3> QED
      BY <2>1, <2>3, <3>1
  <2>6. s = a \o b
    BY <2>1, <2>4, <2>5, IsConcat
  <2> QED
    BY <1>1, <1>2, <2>6
<1> QED
  BY <1>3, <1>4

LEMMA InsnIs ==
  ASSUME program \in Programs, NEW at \in DOMAIN program,
         NEW followed \in BOOLEAN
  PROVE  LET x == InsnAt(program, at, followed) IN
         /\ x \in Insns(program) /\ x.pc = at /\ x.parcels[1] = at
         /\ x.next \in Nat
         /\ \/ program[at].jumps \/ followed
            \/ x.next = at + IF program[at].wide THEN 4 ELSE 2
         /\ program[at].wide => x = Insn(at, <<at, at + 2>>, followed)
         /\ ~program[at].wide => x = Insn(at, <<at>>, followed)
<1>1. /\ at \in Nat /\ at % 2 = 0
      /\ program[at].wide \in BOOLEAN /\ program[at].jumps \in BOOLEAN
      /\ program[at].branches \in BOOLEAN /\ program[at].by \in Int
      /\ program[at].jumps \/ program[at].branches => at + program[at].by \in Nat
  BY EndFacts
<1> DEFINE x == InsnAt(program, at, followed)
<1>2. /\ x.pc = at /\ x.parcels[1] = at /\ x.next \in Nat
      /\ \/ program[at].jumps \/ followed
         \/ x.next = at + IF program[at].wide THEN 4 ELSE 2
      /\ x \in [pc : Nat, parcels : Seq(Nat), excp : BOOLEAN, next : Nat]
  BY <1>1 DEF InsnAt
<1>3. x \in Insns(program)
  BY <1>1, <1>2 DEF Insns, IsInsn
<1>4. program[at].wide => x = Insn(at, <<at, at + 2>>, followed)
  BY <1>1 DEF Insn, InsnAt
<1>5. ~program[at].wide => x = Insn(at, <<at>>, followed)
  BY <1>1 DEF Insn, InsnAt
<1> QED
  BY <1>2, <1>3, <1>4, <1>5

\* What is cut from at to the end of the line.
CutOK(c, at, end) ==
  /\ c \in [package : Seq(Insns(program)), half : Port(Nat), target : Port(Nat)]
  /\ 2 * Len(c.package) <= end - at
  /\ Follows(c.package, at)
  /\ c.target # <<>> => /\ c.package # <<>> /\ c.half = <<>>
                        /\ c.target = <<Tip(c.package, at)>>
  /\ c.target = <<>> /\ c.half = <<>> => Tip(c.package, at) = end
  /\ c.half # <<>> => /\ c.half = <<end - 2>> /\ Tip(c.package, at) = end - 2
                      /\ end - 2 \in DOMAIN program /\ program[end - 2].wide

LEMMA ThenOK ==
  ASSUME program \in Programs, NEW at \in DOMAIN program, NEW end \in Nat,
         NEW pastEnd \in BOOLEAN, NEW rest,
         LET next == at + IF program[at].wide THEN 4 ELSE 2 IN
         next <= end /\ CutOK(rest, next, end)
  PROVE  CutOK(Then(InsnAt(program, at, pastEnd), pastEnd, rest), at, end)
<1> DEFINE x == InsnAt(program, at, pastEnd)
<1>1. /\ x \in Insns(program) /\ x.pc = at /\ x.parcels[1] = at /\ x.next \in Nat
      /\ \/ program[at].jumps \/ pastEnd
         \/ x.next = at + IF program[at].wide THEN 4 ELSE 2
  BY InsnIs
<1> HIDE DEF x
<1>2. at \in Nat /\ program[at].wide \in BOOLEAN
  BY EndFacts
<1>3. CASE program[at].jumps \/ pastEnd
  <2>1. Then(x, pastEnd, rest) = [package |-> <<x>>, half |-> <<>>, target |-> <<x.next>>]
    BY <1>1, <1>3 DEF Then
  <2>2. <<x>> \in Seq(Insns(program)) /\ Len(<<x>>) = 1 /\ <<x>> # <<>>
    BY <1>1
  <2>3. Follows(<<x>>, at) /\ Tip(<<x>>, at) = x.next
    BY <1>1, <2>2 DEF Follows, Tip
  <2>4. <<x.next>> \in Port(Nat) /\ <<>> \in Port(Nat)
    BY <1>1 DEF Port
  <2>5. 2 <= end - at
    BY <1>2
  <2> QED
    BY <2>1, <2>2, <2>3, <2>4, <2>5 DEF CutOK, x
<1>4. CASE ~(program[at].jumps \/ pastEnd)
  <2> DEFINE next == at + IF program[at].wide THEN 4 ELSE 2
             s == rest.package
  <2>1. x.next = next /\ next \in Nat /\ next <= end /\ at + 2 <= next
    BY <1>1, <1>2, <1>4
  <2>2. Then(x, pastEnd, rest) = [rest EXCEPT !.package = <<x>> \o s]
    BY <1>1, <1>4 DEF Then
  <2>3. CutOK(rest, next, end)
    OBVIOUS
  <2> HIDE DEF next
  <2>4. /\ rest \in [package : Seq(Insns(program)), half : Port(Nat), target : Port(Nat)]
        /\ s \in Seq(Insns(program)) /\ 2 * Len(s) <= end - next /\ Follows(s, next)
    BY <2>3 DEF CutOK
  <2>5. <<x>> \in Seq(Insns(program)) /\ Follows(<<x>>, at) /\ Tip(<<x>>, at) = next
    BY <1>1, <2>1 DEF Follows, Tip
  <2>6. Follows(<<x>> \o s, at) /\ Tip(<<x>> \o s, at) = Tip(s, next)
    <3>1. PICK S : S = Insns(program)
      OBVIOUS
    <3>2. PICK t \in Seq(S), u \in Seq(S) : t = <<x>> /\ u = s
      BY <2>4, <2>5, <3>1
    <3>3. Follows(t, at) /\ Follows(u, next) /\ Tip(t, at) = next
      BY <2>4, <2>5, <3>2
    <3>4. Follows(t \o u, at) /\ Tip(t \o u, at) = Tip(u, next)
      BY <3>3, FollowsConcat
    <3> QED
      BY <3>2, <3>4
  <2>7. <<x>> \o s \in Seq(Insns(program)) /\ Len(<<x>> \o s) = 1 + Len(s) /\ <<x>> \o s # <<>>
    BY <2>4, <2>5
  <2>8. 2 * (1 + Len(s)) <= end - at
    BY <1>2, <2>1, <2>4
  <2> DEFINE c == [rest EXCEPT !.package = <<x>> \o s]
  <2>9. /\ c \in [package : Seq(Insns(program)), half : Port(Nat), target : Port(Nat)]
        /\ c.package = <<x>> \o s /\ c.half = rest.half /\ c.target = rest.target
    BY <2>4, <2>7
  <2> HIDE DEF c
  <2>10. CutOK(c, at, end)
    BY <2>3, <2>6, <2>7, <2>8, <2>9 DEF CutOK
  <2> QED
    BY <2>2, <2>10 DEF c, x
<1> QED
  BY <1>3, <1>4

LEMMA CutsOK ==
  ASSUME program \in Programs, NEW start \in Nat, NEW end \in Nat,
         start <= end, end % 2 = 0, end <= End, NEW skew \in Nat, NEW garbage \in BOOLEAN
  PROVE  \A at \in start .. end : at % 2 = 0 =>
           CutOK(Cuts(start, end, skew, garbage)[at], at, end)
<1> DEFINE c == Cuts(start, end, skew, garbage)
           Good == {k \in Nat : \A at \in start .. end :
                      at % 2 = 0 /\ end - at <= k => CutOK(c[at], at, end)}
<1>1. \A at \in start .. end : at % 2 = 0 => c[at] = CutAt(c, at, end, skew, garbage)
  BY CutsDefined
<1> HIDE DEF c
<1>2. CutOK(Blank, end, end)
  BY DEF CutOK, Blank, Port, Follows, Tip
<1>3. 0 \in Good
  <2> SUFFICES ASSUME NEW at \in start .. end, end - at <= 0
               PROVE  CutOK(c[at], at, end)
    OBVIOUS
  <2>1. at = end
    OBVIOUS
  <2>2. c[end] = CutAt(c, end, end, skew, garbage)
    BY <1>1
  <2>3. c[at] = Blank
    BY <2>1, <2>2 DEF CutAt, Blank
  <2> QED
    BY <1>2, <2>1, <2>3
<1>4. ASSUME NEW k \in Good PROVE k + 1 \in Good
  <2>1. k \in Nat
    OBVIOUS
  <2>2. SUFFICES ASSUME NEW at \in start .. end, at % 2 = 0, end - at <= k + 1
                 PROVE  CutOK(c[at], at, end)
    BY <2>1
  <2>3. \A b \in start .. end : b % 2 = 0 /\ at < b => CutOK(c[b], b, end)
    BY <2>1, <2>2
  <2>4. at \in Nat /\ at <= end /\ at >= start
    OBVIOUS
  <2>5. c[at] = CutAt(c, at, end, skew, garbage)
    BY <1>1, <2>2
  <2> HIDE DEF Good
  <2>6. CASE at = end
    BY <1>2, <2>5, <2>6 DEF CutAt, Blank
  <2>7. CASE at < end
    <3>1. at \in DOMAIN program /\ program[at].wide \in BOOLEAN /\ at + 2 <= end
      BY <2>2, <2>4, <2>7, EndFacts
    <3>2. PICK pastEnd \in BOOLEAN : pastEnd = (garbage /\ at + skew >= end)
      OBVIOUS
    <3>3. CASE ~program[at].wide
      <4>1. InsnAt(program, at, pastEnd) = Insn(at, <<at>>, pastEnd)
        BY <3>1, <3>3, InsnIs
      <4>2. c[at] = Then(InsnAt(program, at, pastEnd), pastEnd, c[at + 2])
        BY <2>4, <2>5, <2>7, <3>2, <3>3, <4>1 DEF CutAt
      <4>3. CutOK(c[at + 2], at + 2, end)
        BY <2>2, <2>3, <2>4, <3>1
      <4> QED
        BY <3>1, <3>3, <4>2, <4>3, ThenOK
    <3>4. CASE program[at].wide /\ at + 2 < end
      <4>1. InsnAt(program, at, pastEnd) = Insn(at, <<at, at + 2>>, pastEnd)
        BY <3>1, <3>4, InsnIs
      <4>2. c[at] = Then(InsnAt(program, at, pastEnd), pastEnd, c[at + 4])
        BY <2>4, <2>5, <2>7, <3>2, <3>4, <4>1 DEF CutAt
      <4>3. at + 4 <= end /\ CutOK(c[at + 4], at + 4, end)
        BY <2>2, <2>3, <2>4, <3>1, <3>4
      <4> QED
        BY <3>1, <3>4, <4>2, <4>3, ThenOK
    <3>5. CASE program[at].wide /\ at + 2 = end
      <4>1. c[at] = [package |-> <<>>, half |-> <<at>>, target |-> <<>>]
        BY <2>5, <2>7, <3>5 DEF CutAt
      <4>2. at = end - 2
        BY <2>4, <3>5
      <4>3. Follows(<<>>, at) /\ Tip(<<>>, at) = at /\ <<at>> \in Port(Nat)
            /\ <<>> \in Port(Nat) /\ <<>> \in Seq(Insns(program)) /\ Len(<<>>) = 0
            /\ <<at>> # <<>>
        BY <2>4 DEF Follows, Tip, Port
      <4> QED
        BY <2>4, <3>1, <3>5, <4>1, <4>2, <4>3 DEF CutOK
    <3> QED
      BY <3>1, <3>3, <3>4, <3>5
  <2> QED
    BY <2>4, <2>6, <2>7
<1>5. Good = Nat
  <2>1. Good \subseteq Nat
    OBVIOUS
  <2> HIDE DEF Good
  <2> QED
    BY <1>3, <1>4, <2>1, UpFromZero
<1>6. ASSUME NEW at \in start .. end, at % 2 = 0 PROVE CutOK(c[at], at, end)
  <2>1. end - at \in Nat
    OBVIOUS
  <2>2. end - at \in Good
    <3> HIDE DEF Good
    <3> QED
      BY <1>5, <2>1
  <2> QED
    BY <1>6, <2>1, <2>2
<1> QED
  BY <1>6 DEF c

LEMMA ThenLength ==
  ASSUME NEW S, NEW x, x \in S, NEW pastEnd \in BOOLEAN, NEW rest,
         rest \in [package : Seq(S), half : Port(Nat), target : Port(Nat)]
  PROVE  Len(Then(x, pastEnd, rest).package) <= 1 + Len(rest.package)
<1> DEFINE s == rest.package
<1>1. s \in Seq(S) /\ Len(<<x>>) = 1 /\ Len(<<x>> \o s) = 1 + Len(s) /\ Len(s) \in Nat
  OBVIOUS
<1>2. \/ Then(x, pastEnd, rest).package = <<x>>
      \/ Then(x, pastEnd, rest).package = <<x>> \o s
  BY DEF Then
<1> HIDE DEF s
<1>3. Len(Then(x, pastEnd, rest).package) \in {1, 1 + Len(s)}
  BY <1>1, <1>2
<1>4. 1 <= 1 + Len(s) /\ 1 + Len(s) <= 1 + Len(s)
  BY <1>1
<1> QED
  BY <1>3, <1>4 DEF s

\* Half an instruction that waits for the line at aim.
HalfOK(half, aim) ==
  half # <<>> =>
    /\ half[1] \in DOMAIN program /\ program[half[1]].wide
    /\ aim = half[1] + 2 /\ aim % FetchByteWidth = 0

LEMMA PredecodeOK ==
  ASSUME program \in Programs, NEW entry, entry.address \in Nat,
         entry.address % 2 = 0, entry.address < End,
         NEW half \in Port(Nat), HalfOK(half, entry.address), NEW garbage \in BOOLEAN
  PROVE  LET a == entry.address
             c == Predecode(entry, half, garbage)
         IN  /\ CutOK(c, IF half = <<>> THEN a ELSE half[1], NextLine(a))
             /\ Len(c.package) <= FetchByteWidth \div 2
<1>1. PICK a \in Nat : a = entry.address
  OBVIOUS
<1>2. PICK end \in Nat : end = Line(a) + FetchByteWidth
  BY LineFacts, WidthFacts
<1>3. /\ a % 2 = 0 /\ a < end /\ end % 2 = 0 /\ end = NextLine(a) /\ end <= End
      /\ Line(a) \in Nat /\ Line(a) <= a
      /\ a % FetchByteWidth = 0 => Line(a) = a
  BY <1>1, <1>2, LineFacts, LineEven, NextLineFacts
<1>4. PICK skew \in Nat : skew = 2 * Len(half)
  BY DEF Port
<1>5. PICK from : from = Cuts(a, end, skew, garbage)
  OBVIOUS
<1>6. \A at \in a .. end : at % 2 = 0 => CutOK(from[at], at, end)
  BY <1>3, <1>5, CutsOK
<1>7. PICK w \in Nat \ {0} : w = FetchByteWidth \div 2 /\ FetchByteWidth = 2 * w
  BY WidthFacts
<1>8. CASE half = <<>>
  <2>1. Predecode(entry, half, garbage) = from[a]
    BY <1>1, <1>2, <1>4, <1>5, <1>8 DEF Predecode
  <2>2. CutOK(from[a], a, end)
    BY <1>3, <1>6
  <2>3. 2 * Len(from[a].package) <= end - a /\ Len(from[a].package) \in Nat
    BY <2>2 DEF CutOK
  <2>4. end - a <= 2 * w
    BY <1>2, <1>3, <1>7
  <2>5. Len(from[a].package) <= w
    BY <2>3, <2>4
  <2> QED
    BY <1>1, <1>3, <1>7, <1>8, <2>1, <2>2, <2>5
<1>9. CASE half # <<>>
  <2>1. PICK h \in DOMAIN program : half[1] = h /\ program[h].wide /\ a = h + 2
                                    /\ a % FetchByteWidth = 0
    BY <1>1, <1>9 DEF HalfOK
  <2>2. h \in Nat /\ h % 2 = 0
    BY EndFacts
  <2>3. Line(a) = a /\ end = a + 2 * w
    BY <1>2, <1>3, <1>7, <2>1
  <2>4. PICK b \in Nat : b = a + 2 /\ b = h + 4 /\ b \in a .. end /\ b % 2 = 0
    BY <1>3, <2>1, <2>2, <2>3
  <2>5. CutOK(from[b], b, end)
    BY <1>6, <2>4
  <2>6. a - 2 = h /\ InsnAt(program, h, FALSE) = Insn(h, <<h, a>>, FALSE)
    <3>1. InsnAt(program, h, FALSE) = Insn(h, <<h, h + 2>>, FALSE)
      BY <2>1, InsnIs
    <3>2. a - 2 = h /\ <<h, h + 2>> = <<h, a>>
      BY <2>1, <2>2
    <3> QED
      BY <3>1, <3>2, Zenon
  <2>7. PICK c : c = Then(InsnAt(program, h, FALSE), FALSE, from[b])
    OBVIOUS
  <2>8. Predecode(entry, half, garbage) = c
    <3>1. Predecode(entry, half, garbage) =
            Then(Insn(a - 2, <<half[1], a>>, FALSE), FALSE, from[a + 2])
      BY <1>1, <1>2, <1>4, <1>5, <1>9 DEF Predecode
    <3>2. Insn(a - 2, <<half[1], a>>, FALSE) = InsnAt(program, h, FALSE) /\ a + 2 = b
      BY <2>1, <2>4, <2>6
    <3> QED
      BY <2>7, <3>1, <3>2
  <2>9. CutOK(c, h, end)
    <3>1. h + (IF program[h].wide THEN 4 ELSE 2) = b /\ b <= end
      BY <2>1, <2>4
    <3> QED
      BY <2>5, <2>7, <3>1, ThenOK
  <2>10. Len(c.package) <= 1 + Len(from[b].package)
    <3>1. from[b] \in [package : Seq(Insns(program)), half : Port(Nat), target : Port(Nat)]
      BY <2>5 DEF CutOK
    <3>2. InsnAt(program, h, FALSE) \in Insns(program)
      BY InsnIs
    <3> QED
      BY <2>7, <3>1, <3>2, ThenLength
  <2>11. 2 * Len(from[b].package) <= end - b /\ from[b].package \in Seq(Insns(program))
    BY <2>5 DEF CutOK
  <2>12. Len(from[b].package) \in Nat /\ Len(c.package) \in Nat
    BY <2>9, <2>11 DEF CutOK
  <2>13. Len(c.package) <= w
    BY <2>3, <2>4, <2>10, <2>11, <2>12, SMTT(40)
  <2> QED
    BY <1>1, <1>3, <1>7, <1>9, <2>1, <2>8, <2>9, <2>13
<1> QED
  BY <1>8, <1>9

-----------------------------------------------------------------------------
(* Ports, latches, redirects and the tick.                                 *)

LEMMA PhaseIs ==
  /\ PhaseOf(1) <=> phase = "IEW" /\ phase' = "Dispatch"
  /\ PhaseOf(2) <=> phase = "Dispatch" /\ phase' = "Decode"
  /\ PhaseOf(3) <=> phase = "Decode" /\ phase' = "Fetch2"
  /\ PhaseOf(4) <=> phase = "Fetch2" /\ phase' = "Fetch1"
  /\ PhaseOf(5) <=> phase = "Fetch1" /\ phase' = "Commit"
  /\ PhaseOf(6) <=> phase = "Commit" /\ phase' = "Advance"
  /\ PhaseOf(7) <=> phase = "Advance" /\ phase' = "IEW"
BY DEF PhaseOf, Phases

LEMMA PortIs ==
  ASSUME NEW S
  PROVE  /\ <<>> \in Port(S)
         /\ \A x \in S : <<x>> \in Port(S)
         /\ \A p \in Port(S) : p = <<>> \/ (p[1] \in S /\ p = <<p[1]>>)
<1>1. ASSUME NEW p \in Port(S), p # <<>> PROVE p[1] \in S /\ p = <<p[1]>>
  <2>1. p \in Seq(S) /\ Len(p) = 1
    <3>1. p \in Seq(S) /\ Len(p) <= 1
      BY DEF Port
    <3>2. PICK n \in Nat \ {0} : n = Len(p)
      BY <1>1, <3>1, EmptySeq
    <3>3. n <= 1 => n = 1
      OBVIOUS
    <3> QED
      BY <3>1, <3>2, <3>3
  <2>2. p[1] \in S /\ <<p[1]>> \in Seq(S) /\ Len(<<p[1]>>) = 1
    BY <2>1
  <2>3. \A i \in 1 .. Len(p) : p[i] = <<p[1]>>[i]
    BY <2>1
  <2> HIDE <1>1
  <2>4. p = <<p[1]>>
    BY <2>1, <2>2, <2>3, SeqEqual
  <2> QED
    BY <2>2, <2>4
<1> QED
  BY <1>1 DEF Port

LEMMA EmptyIs ==
  ASSUME NEW S
  PROVE  /\ Empty \in Latch(S)
         /\ Empty.in = <<>> /\ Empty.out = <<>> /\ ~Empty.stall /\ ~Empty.flush
BY PortIs DEF Empty, Latch

LEMMA SetIs ==
  ASSUME NEW S, NEW b \in Latch(S), NEW x \in S
  PROVE  /\ Set(b, x) \in Latch(S)
         /\ Set(b, x).in = <<x>> /\ Set(b, x).out = b.out
         /\ Set(b, x).stall = b.stall /\ Set(b, x).flush = b.flush
<1>1. <<x>> \in Port(S)
  BY PortIs
<1> QED
  BY <1>1 DEF Set, Latch

LEMMA StallIs ==
  ASSUME NEW S, NEW b \in Latch(S)
  PROVE  /\ Stall(b) \in Latch(S)
         /\ Stall(b).in = b.in /\ Stall(b).out = b.out
         /\ Stall(b).stall /\ Stall(b).flush = b.flush
BY DEF Stall, Latch

LEMMA FlushIs ==
  ASSUME NEW S, NEW b \in Latch(S)
  PROVE  /\ Flush(b) \in Latch(S)
         /\ Flush(b).in = b.in /\ Flush(b).out = b.out
         /\ Flush(b).stall = b.stall /\ Flush(b).flush
BY DEF Flush, Latch

LEMMA AdvanceIs ==
  ASSUME NEW S, NEW b \in Latch(S)
  PROVE  /\ Advance(b, 1) \in Latch(S)
         /\ ~Advance(b, 1).stall /\ ~Advance(b, 1).flush
         /\ b.flush => Advance(b, 1) = Empty
         /\ ~b.flush /\ b.stall => Advance(b, 1).in = b.in /\ Advance(b, 1).out = b.out
         /\ ~b.flush /\ ~b.stall => Advance(b, 1).in = <<>> /\ Advance(b, 1).out = b.in
<1>1. /\ b \in [in : Port(S), out : Port(S), queue : {<<>>}, stall : BOOLEAN,
                flush : BOOLEAN]
      /\ b.queue = <<>>
  BY DEF Latch
<1>2. CASE b.flush
  BY <1>2, EmptyIs DEF Advance
<1>3. CASE ~b.flush /\ b.stall
  <2>1. Advance(b, 1) = [b EXCEPT !.stall = FALSE, !.queue = Aged(@)]
    BY <1>3 DEF Advance
  <2>2. Aged(<<>>) = <<>>
    BY DEF Aged
  <2>3. /\ Advance(b, 1) \in [in : Port(S), out : Port(S), queue : {<<>>},
                              stall : BOOLEAN, flush : BOOLEAN]
        /\ Advance(b, 1).in = b.in /\ Advance(b, 1).out = b.out
        /\ ~Advance(b, 1).stall /\ Advance(b, 1).flush = b.flush
    BY <1>1, <2>1, <2>2
  <2> QED
    BY <1>3, <2>3 DEF Latch
<1>4. CASE ~b.flush /\ ~b.stall
  <2>1. Advance(b, 1) = Shifted(b, 1)
    BY <1>4 DEF Advance
  <2>2. /\ Shifted(b, 1).in = <<>> /\ Shifted(b, 1).out = b.in
        /\ Shifted(b, 1).queue = <<>> /\ Shifted(b, 1).stall = b.stall
        /\ Shifted(b, 1).flush = b.flush
        /\ Shifted(b, 1) = [in |-> Shifted(b, 1).in, out |-> Shifted(b, 1).out,
              queue |-> Shifted(b, 1).queue, stall |-> Shifted(b, 1).stall,
              flush |-> Shifted(b, 1).flush]
    <3>1. CASE b.in = <<>>
      <4>1. Aged(<<>>) = <<>>
        BY DEF Aged
      <4>2. Shifted(b, 1) = [b EXCEPT !.in = <<>>, !.out = <<>>, !.queue = <<>>]
        BY <1>1, <3>1, <4>1 DEF Shifted
      <4> QED
        BY <1>1, <3>1, <4>2
    <3>2. CASE b.in # <<>>
      <4>1. b.in = <<b.in[1]>>
        BY <1>1, <3>2, PortIs
      <4>2. PICK e : e = [data |-> b.in[1], wait |-> 0]
        OBVIOUS
      <4>3. Append(b.queue, [data |-> b.in[1], wait |-> 1 - 1]) = <<e>>
        BY <1>1, <4>2
      <4>4. Head(<<e>>).wait = 0 /\ Head(<<e>>).data = b.in[1] /\ Tail(<<e>>) = <<>>
            /\ <<e>> # <<>> /\ Aged(<<>>) = <<>>
        BY <4>2 DEF Aged
      <4>5. Shifted(b, 1) = [b EXCEPT !.in = <<>>, !.out = <<b.in[1]>>, !.queue = <<>>]
        BY <3>2, <4>3, <4>4, ZenonT(40) DEF Shifted
      <4> QED
        BY <1>1, <4>1, <4>5
    <3> QED
      BY <3>1, <3>2
  <2> QED
    BY <1>1, <1>4, <2>1, <2>2, PortIs DEF Latch
<1> QED
  BY <1>1, <1>2, <1>3, <1>4

LEMMA AcknowledgeIs ==
  ASSUME NEW b \in Latch(Nat), ~b.stall, ~b.flush
  PROVE  /\ Advance(b, 0) \in Latch(Nat) /\ Advance(b, 0).in = <<>>
         /\ ~Advance(b, 0).stall /\ ~Advance(b, 0).flush
         /\ Acked(b) \in Nat
         /\ b.in = <<>> => Acked(b) = 0
         /\ b.in # <<>> => Acked(b) = b.in[1]
BY PortIs DEF Advance, Latch, Acked, OutPort

LEMMA WinnerIs ==
  ASSUME NEW stages, stages \subseteq Redirectors, NEW s \in stages,
         \A t \in stages : Rank[s] >= Rank[t]
  PROVE  Winner(stages) = s
<1>1. \A t \in stages : t \in {"Fetch1", "Fetch2", "Issue", "Commit"}
  BY DEF Redirectors, Rank
<1>2. \A t \in stages : (\A u \in stages : Rank[t] >= Rank[u]) => t = s
  BY <1>1 DEF Rank
<1> QED
  BY <1>2 DEF Winner

LEMMA WinnerExists ==
  ASSUME NEW stages, stages \subseteq Redirectors, stages # {}
  PROVE  /\ Winner(stages) \in stages
         /\ \A t \in stages : Rank[Winner(stages)] >= Rank[t]
<1>1. \A t \in stages : t \in {"Fetch1", "Fetch2", "Issue", "Commit"}
  BY DEF Redirectors, Rank
<1>2. \E s \in stages : \A t \in stages : Rank[s] >= Rank[t]
  <2>1. CASE "Commit" \in stages
    BY <1>1, <2>1 DEF Rank
  <2>2. CASE "Commit" \notin stages /\ "Issue" \in stages
    BY <1>1, <2>2 DEF Rank
  <2>3. CASE "Commit" \notin stages /\ "Issue" \notin stages /\ "Fetch2" \in stages
    BY <1>1, <2>3 DEF Rank
  <2>4. CASE stages = {"Fetch1"}
    BY <2>4 DEF Rank
  <2> QED
    BY <1>1, <2>1, <2>2, <2>3, <2>4
<1> QED
  BY <1>2 DEF Winner

-----------------------------------------------------------------------------
(* What a step that leaves the fetches alone keeps.                        *)

LEMMA MemoryKept ==
  ASSUME program' = program
  PROVE  /\ End' = End
         /\ \A a : NextLine(a)' = NextLine(a)
         /\ Insns(program)' = Insns(program)
<1>1. End' = End
  BY DEF End
<1> QED
  BY <1>1 DEF NextLine, Line

LEMMA FetchKept ==
  ASSUME Timing, Fetching, UNCHANGED <<program, conf, fetch>>, Early' <=> Early,
         \A s \in Redirectors : redirect'[s].out = redirect[s].out,
         "Fetch1" \in flushSync => "Fetch1" \in flushSync'
  PROVE  Timing' /\ Fetching'
<1>1. End' = End /\ \A a : NextLine(a)' = NextLine(a)
  BY MemoryKept
<1>2. pcRegister' = pcRegister /\ iCache' = iCache /\ fetch1' = fetch1
  BY DEF fetch
<1>3. Sooner' = Sooner /\ Later' = Later /\ (Redirected' <=> Redirected)
  BY <1>2 DEF Sooner, Later, Ready, Redirected
<1>4. \A a, i : Answers(a, fetch1, i)' <=> Answers(a, fetch1, i)
  BY <1>1, <1>2 DEF Answers, Tag
<1>5. Pending(fetch1, Sooner, Later)' <=> Pending(fetch1, Sooner, Later)
  BY <1>2, <1>3, <1>4 DEF Pending
<1>6. Timing'
  BY <1>2, <1>5 DEF Timing
<1>7. \A pc : Run(fetch1, pc)' <=> Run(fetch1, pc)
  BY <1>1, <1>2 DEF Run, Live, Idle, Aim
<1>8. \A pc : Path(fetch1, pc, Later)' <=> Path(fetch1, pc, Later)
  BY <1>2, <1>3, <1>7 DEF Path, Live
<1>9. Idle(fetch1)' <=> Idle(fetch1)
  BY <1>2 DEF Idle, Live
<1>10. Fetching'
  BY <1>2, <1>3, <1>8, <1>9 DEF Fetching
<1> QED
  BY <1>6, <1>10

LEMMA MeetsKept ==
  ASSUME UNCHANGED <<program, conf, fetch, redirect, flushSync>>, Early' <=> Early,
         NEW tip, Meets(tip)
  PROVE  Meets(tip)'
<1>1. End' = End
  BY MemoryKept
<1>2. pcRegister' = pcRegister /\ fetch1' = fetch1
  BY DEF fetch
<1>3. \A pc : Reaches(fetch1, pc, tip)' <=> Reaches(fetch1, pc, tip)
  BY <1>1, <1>2 DEF Reaches, Aim, Live
<1>4. InStages' = InStages /\ OutStages' = OutStages /\ (Redirected' <=> Redirected)
  BY DEF InStages, OutStages, Redirected
<1>5. Winner(InStages)' = Winner(InStages) /\ Winner(OutStages)' = Winner(OutStages)
  BY <1>4 DEF Winner
<1> QED
  BY <1>2, <1>3, <1>4, <1>5 DEF Meets

-----------------------------------------------------------------------------
(* The stages behind Decode.                                               *)

LEMMA IewKeeps == ASSUME Inv, Iew PROVE Inv'
<1>1. /\ phase = "IEW" /\ phase' = "Dispatch"
      /\ robIdle' \in BOOLEAN
      /\ UNCHANGED <<program, conf, fetch, insnBuffer, decodeQueue, toFetch2, toDecode,
                     toDispatch, acks, redirect, flushSync, redirects, inFlight, due, taken>>
  BY PhaseIs DEF Iew
<1>2. /\ pcRegister' = pcRegister /\ iCache' = iCache /\ fetch1' = fetch1
      /\ ackFetch2' = ackFetch2 /\ ackDecode' = ackDecode
  BY <1>1 DEF fetch, acks
<1>3. Insns(program)' = Insns(program)
  BY <1>1, MemoryKept
<1>4. Shape'
  BY <1>1, <1>2, <1>3 DEF Inv, Shape, Package
<1>5. Early /\ Early'
  BY <1>1 DEF Early
<1>6. Protocol'
  BY <1>1, <1>2, <1>5 DEF Inv, Protocol, Flushing
<1>7. Offers'
  BY <1>1, <1>2 DEF Inv, Offers, OffersOf, Begins
<1>8. Stream' = Stream
  BY <1>1 DEF Stream, OfDecode, OfFetch2, OfFetch1, Flat
<1>9. Linked'
  BY <1>1, <1>8 DEF Inv, Linked, Flushing, Follows
<1>10. Timing' /\ Fetching'
  BY <1>1, <1>5, FetchKept DEF Inv
<1>11. Aimed'
  <2>1. PICK tip : tip = Goal
    OBVIOUS
  <2>2. Goal' = tip
    BY <1>1, <1>8, <2>1 DEF Goal, Flushing, Tip
  <2>3. Meets(tip)'
    BY <1>1, <1>5, <2>1, MeetsKept DEF Inv, Aimed
  <2> QED
    BY <2>2, <2>3 DEF Aimed
<1> QED
  BY <1>4, <1>6, <1>7, <1>9, <1>10, <1>11 DEF Inv

LEMMA CommitKeeps == ASSUME Inv, Commit PROVE Inv'
<1>1. /\ phase = "Commit" /\ phase' = "Advance"
      /\ UNCHANGED <<program, conf, fetch, insnBuffer, decodeQueue, toFetch2, toDecode,
                     toDispatch, acks, redirect, flushSync, back>>
  BY PhaseIs DEF Commit
<1>2. /\ pcRegister' = pcRegister /\ iCache' = iCache /\ fetch1' = fetch1
      /\ ackFetch2' = ackFetch2 /\ ackDecode' = ackDecode
      /\ robIdle' = robIdle /\ redirects' = redirects /\ inFlight' = inFlight /\ due' = due
  BY <1>1 DEF fetch, acks, back
<1>3. Insns(program)' = Insns(program)
  BY <1>1, MemoryKept
<1>4. Shape'
  BY <1>1, <1>2, <1>3 DEF Inv, Shape, Package
<1>5. ~Early /\ ~Early'
  BY <1>1 DEF Early
<1>6. Protocol'
  BY <1>1, <1>2, <1>5 DEF Inv, Protocol, Flushing
<1>7. Offers'
  BY <1>1, <1>2 DEF Inv, Offers, OffersOf, Begins
<1>8. Stream' = Stream
  BY <1>1 DEF Stream, OfDecode, OfFetch2, OfFetch1, Flat
<1>9. Linked'
  BY <1>1, <1>2, <1>8 DEF Inv, Linked, Flushing, Follows
<1>10. Timing' /\ Fetching'
  BY <1>1, <1>5, FetchKept DEF Inv
<1>11. Aimed'
  <2>1. PICK tip : tip = Goal
    OBVIOUS
  <2>2. Goal' = tip
    BY <1>1, <1>2, <1>8, <2>1 DEF Goal, Flushing, Tip
  <2>3. Meets(tip)'
    BY <1>1, <1>5, <2>1, MeetsKept DEF Inv, Aimed
  <2> QED
    BY <2>2, <2>3 DEF Aimed
<1> QED
  BY <1>4, <1>6, <1>7, <1>9, <1>10, <1>11 DEF Inv

\* What a redirect from behind does to the latches and to the goal.
LEMMA RedirectIs ==
  ASSUME Inv, NEW stage \in {"Issue", "Commit"}, NEW target \in Targets,
         RedirectFrom(stage, target),
         \A s \in InStages : Rank[stage] >= Rank[s]
  PROVE  /\ target \in Nat /\ due' = target /\ redirects' \in Nat
         /\ flushSync' = {"Fetch1", "Fetch2", "Decode"} /\ Flushing'
         /\ redirect' \in [Redirectors -> Latch(Nat)]
         /\ \A s \in Redirectors :
              /\ redirect'[s].out = redirect[s].out
              /\ redirect'[s].stall = redirect[s].stall
              /\ redirect'[s].flush = redirect[s].flush
              /\ s # stage => redirect'[s].in = redirect[s].in
         /\ redirect'[stage].in # <<>>
         /\ stage \in Redirectors
         /\ Meets(Goal)'
         /\ toFetch2' = Flush(toFetch2) /\ toDecode' = Flush(toDecode)
         /\ toDispatch' = Flush(toDispatch)
<1>1. target \in Nat
  BY AddressAssumption
<1>2. /\ redirects' = redirects + 1
      /\ redirect' = [redirect EXCEPT ![stage] = Set(@, target)]
      /\ due' = target
      /\ flushSync' = {"Fetch1", "Fetch2", "Decode"}
      /\ toFetch2' = Flush(toFetch2) /\ toDecode' = Flush(toDecode)
      /\ toDispatch' = Flush(toDispatch)
  BY DEF RedirectFrom, FlushFrontEnd
<1>3. Flushing'
  BY <1>2 DEF Flushing
<1>4. stage \in Redirectors
  BY DEF Redirectors, Rank
<1>5. redirect \in [Redirectors -> Latch(Nat)] /\ redirects \in Nat
  BY DEF Inv, Shape
<1>6. PICK l \in Latch(Nat) :
        /\ l = Set(redirect[stage], target) /\ l.in = <<target>>
        /\ l.out = redirect[stage].out
        /\ l.stall = redirect[stage].stall /\ l.flush = redirect[stage].flush
  BY <1>1, <1>4, <1>5, SetIs
<1>7. redirect' = [redirect EXCEPT ![stage] = l]
  BY <1>2, <1>6
<1>8. /\ redirect' \in [Redirectors -> Latch(Nat)]
      /\ redirect'[stage] = l
      /\ \A s \in Redirectors : s # stage => redirect'[s] = redirect[s]
  BY <1>4, <1>5, <1>7
<1>9. Winner(InStages)' = stage
  <2>0. /\ InStages' = {s \in Redirectors : redirect'[s].in # <<>>}
        /\ InStages = {s \in Redirectors : redirect[s].in # <<>>}
    BY DEF InStages, Redirectors
  <2>1. /\ InStages' \subseteq Redirectors /\ stage \in InStages'
        /\ \A s \in InStages' : s = stage \/ s \in InStages
    <3>1. redirect'[stage].in # <<>>
      BY <1>6, <1>8
    <3>2. stage \in InStages' /\ InStages' \subseteq Redirectors
      BY <1>4, <2>0, <3>1
    <3>3. ASSUME NEW s \in InStages', s # stage PROVE s \in InStages
      BY <1>8, <2>0, <3>3
    <3> QED
      BY <3>2, <3>3
  <2>2. \A s \in InStages' : Rank[stage] >= Rank[s]
    BY <2>1 DEF Rank
  <2>3. PICK i : i = InStages'
    OBVIOUS
  <2>4. Winner(i) = stage
    BY <2>1, <2>2, <2>3, WinnerIs
  <2> QED
    BY <2>3, <2>4 DEF Winner
<1>10. redirect'[Winner(InStages)'].in[1] = target
  BY <1>6, <1>8, <1>9
<1>11. PICK goal : goal = Goal' /\ goal = target
  BY <1>2, <1>3 DEF Goal
<1>12. Goal' = redirect'[Winner(InStages)'].in[1] /\ "Fetch1" \in flushSync'
  BY <1>2, <1>10, <1>11
<1>13. Meets(Goal)'
  BY <1>12 DEF Meets
<1>14. /\ \A s \in Redirectors :
            /\ redirect'[s].out = redirect[s].out
            /\ redirect'[s].stall = redirect[s].stall
            /\ redirect'[s].flush = redirect[s].flush
            /\ s # stage => redirect'[s].in = redirect[s].in
       /\ redirect'[stage].in # <<>>
  <2>1. redirect'[stage].in # <<>>
    BY <1>6, <1>8
  <2>2. ASSUME NEW s \in Redirectors, s # stage PROVE redirect'[s] = redirect[s]
    BY <1>8, <2>2
  <2>3. /\ redirect'[stage].out = redirect[stage].out
        /\ redirect'[stage].stall = redirect[stage].stall
        /\ redirect'[stage].flush = redirect[stage].flush
    BY <1>6, <1>8
  <2>4. ASSUME NEW s \in Redirectors
        PROVE  /\ redirect'[s].out = redirect[s].out
               /\ redirect'[s].stall = redirect[s].stall
               /\ redirect'[s].flush = redirect[s].flush
               /\ s # stage => redirect'[s].in = redirect[s].in
    <3>1. CASE s = stage
      BY <2>3, <3>1
    <3>2. CASE s # stage
      BY <2>2, <3>2
    <3> QED
      BY <3>1, <3>2
  <2> QED
    BY <2>1, <2>4
<1>15. redirects' \in Nat
  BY <1>2, <1>5
<1> QED
  BY <1>1, <1>2, <1>3, <1>4, <1>8, <1>13, <1>14, <1>15

LEMMA FlushKeeps ==
  ASSUME Inv, NEW stage \in {"Issue", "Commit"}, NEW target \in Targets,
         RedirectFrom(stage, target),
         \A s \in InStages : Rank[stage] >= Rank[s],
         UNCHANGED <<program, conf, fetch, insnBuffer, decodeQueue, acks>>,
         \/ phase = "IEW" /\ phase' = "Dispatch" /\ robIdle' = FALSE /\ stage = "Issue"
         \/ phase = "Commit" /\ phase' = "Advance" /\ robIdle' = robIdle,
         inFlight' \in BOOLEAN
  PROVE  Inv'
<1>1. /\ target \in Nat /\ due' = target /\ redirects' \in Nat
      /\ flushSync' = {"Fetch1", "Fetch2", "Decode"} /\ Flushing'
      /\ redirect' \in [Redirectors -> Latch(Nat)]
      /\ \A s \in Redirectors :
           /\ redirect'[s].out = redirect[s].out
           /\ redirect'[s].stall = redirect[s].stall
           /\ redirect'[s].flush = redirect[s].flush
           /\ s # stage => redirect'[s].in = redirect[s].in
      /\ redirect'[stage].in # <<>>
      /\ stage \in Redirectors
      /\ Meets(Goal)'
      /\ toFetch2' = Flush(toFetch2) /\ toDecode' = Flush(toDecode)
      /\ toDispatch' = Flush(toDispatch)
  BY RedirectIs
<1>2. /\ pcRegister' = pcRegister /\ iCache' = iCache /\ fetch1' = fetch1
      /\ ackFetch2' = ackFetch2 /\ ackDecode' = ackDecode
  BY DEF fetch, acks
<1>3. Insns(program)' = Insns(program)
  BY MemoryKept
<1>4. PICK d2, de, di : d2 = Package(program, FetchByteWidth \div 2)
                        /\ de = Package(program, conf.decodeWidth)
                        /\ di = Package(program, conf.dispatchWidth)
  OBVIOUS
<1>5. /\ Package(program, FetchByteWidth \div 2)' = d2
      /\ Package(program, conf.decodeWidth)' = de
      /\ Package(program, conf.dispatchWidth)' = di
  BY <1>3, <1>4 DEF Package
<1>6. /\ toFetch2' \in Latch(d2) /\ toDecode' \in Latch(de) /\ toDispatch' \in Latch(di)
      /\ toFetch2'.in = toFetch2.in /\ toFetch2'.out = toFetch2.out
      /\ toFetch2'.stall = toFetch2.stall /\ toFetch2'.flush
      /\ toDecode'.in = toDecode.in /\ toDecode'.out = toDecode.out
      /\ toDecode'.stall = toDecode.stall /\ toDecode'.flush
      /\ toDispatch'.in = toDispatch.in /\ toDispatch'.out = toDispatch.out
      /\ toDispatch'.stall = toDispatch.stall /\ toDispatch'.flush
  BY <1>1, <1>4, FlushIs DEF Inv, Shape
<1>7. Shape'
  BY <1>1, <1>2, <1>3, <1>5, <1>6 DEF Inv, Shape
<1>8. Early' <=> Early
  BY DEF Early
<1>9. Protocol'
  <2>1. "Fetch2" \in Redirectors /\ "Fetch1" \in Redirectors
        /\ stage # "Fetch1" /\ stage # "Fetch2"
    BY DEF Redirectors, Rank
  <2> QED
    BY <1>1, <1>2, <1>6, <1>8, <2>1 DEF Inv, Protocol, Flushing, Early
<1>10. Offers'
  BY <1>2, <1>6 DEF Inv, Offers, OffersOf, Begins
<1>11. Linked'
  BY <1>1 DEF Linked
<1>12. Timing' /\ Fetching'
  BY <1>1, <1>8, FetchKept DEF Inv
<1> QED
  BY <1>1, <1>7, <1>9, <1>10, <1>11, <1>12 DEF Inv, Aimed

LEMMA MispredictKeeps ==
  ASSUME Inv, NEW target \in Targets, Mispredict(target) PROVE Inv'
<1>1. phase = "IEW" /\ phase' = "Dispatch" /\ robIdle' = FALSE
      /\ RedirectFrom("Issue", target)
      /\ UNCHANGED <<program, conf, fetch, insnBuffer, decodeQueue, acks, inFlight>>
  BY PhaseIs DEF Mispredict
<1>2. InStages = {}
  BY <1>1 DEF Inv, Protocol, InStages
<1>3. inFlight' \in BOOLEAN
  BY <1>1 DEF Inv, Shape
<1> QED
  BY <1>1, <1>2, <1>3, FlushKeeps

LEMMA TrapKeeps ==
  ASSUME Inv, NEW target \in Targets, Trap(target) PROVE Inv'
<1>1. phase = "Commit" /\ phase' = "Advance" /\ robIdle' = robIdle /\ inFlight' = FALSE
      /\ RedirectFrom("Commit", target)
      /\ UNCHANGED <<program, conf, fetch, insnBuffer, decodeQueue, acks>>
  BY PhaseIs DEF Trap
<1>2. \A s \in InStages : Rank["Commit"] >= Rank[s]
  BY DEF InStages, Redirectors, Rank
<1> QED
  BY <1>1, <1>2, FlushKeeps

-----------------------------------------------------------------------------
(* Dispatch.                                                               *)

LEMMA DropNone ==
  ASSUME NEW S, NEW s \in Seq(S)
  PROVE  Drop(s, 0) = s
<1>1. PICK d \in Seq(S) : d = Drop(s, 0) /\ Len(d) = Len(s) /\ \A i \in 1 .. Len(d) : d[i] = s[0 + i]
  BY DropIs
<1>2. \A i \in 1 .. Len(d) : d[i] = s[i]
  BY <1>1
<1>3. d = s
  BY <1>1, <1>2, SeqEqual
<1> QED
  BY <1>1, <1>3

LEMMA DispatchKept ==
  ASSUME Inv, phase = "Dispatch", phase' = "Decode", DispatchKeeps,
         toDispatch' = toDispatch \/ (toDispatch' = Stall(toDispatch) /\ ackDecode' = ackDecode),
         ackDecode' \in Latch(Nat), ~ackDecode'.stall, ~ackDecode'.flush,
         due' \in Nat \union {Nowhere}, inFlight' \in BOOLEAN,
         Flushing => due' = due,
         ~Flushing => Follows(Stream', due') /\ Tip(Stream', due') = Tip(Stream, due)
  PROVE  Inv'
<1>1. /\ UNCHANGED <<program, conf, fetch, insnBuffer, decodeQueue, toFetch2, toDecode,
                     ackFetch2, redirect, flushSync, robIdle, redirects>>
      /\ pcRegister' = pcRegister /\ iCache' = iCache /\ fetch1' = fetch1
  BY DEF DispatchKeeps, fetch
<1>2. Insns(program)' = Insns(program)
  BY <1>1, MemoryKept
<1>3. PICK di : di = Package(program, conf.dispatchWidth) /\ toDispatch \in Latch(di)
  BY DEF Inv, Shape
<1>4. di = Package(program, conf.dispatchWidth)'
  BY <1>1, <1>2, <1>3 DEF Package
<1>5. /\ toDispatch' \in Latch(di)
      /\ toDispatch'.in = toDispatch.in /\ toDispatch'.out = toDispatch.out
      /\ toDispatch'.flush <=> toDispatch.flush
      /\ toDispatch'.stall => ackDecode' = ackDecode
  <2>1. CASE toDispatch' = toDispatch
    BY <1>3, <2>1 DEF Inv, Protocol
  <2>2. CASE toDispatch' = Stall(toDispatch) /\ ackDecode' = ackDecode
    BY <1>3, <2>2, StallIs
  <2> QED
    BY <2>1, <2>2
<1>6. Shape'
  BY <1>1, <1>2, <1>4, <1>5 DEF Inv, Shape, Package
<1>7. Early /\ Early'
  BY DEF Early
<1>8. Protocol'
  BY <1>1, <1>5, <1>7 DEF Inv, Protocol, Flushing
<1>9. Offers'
  BY <1>1, <1>5 DEF Inv, Offers, OffersOf, Begins, Protocol
<1>10. Flushing' <=> Flushing
  BY <1>1 DEF Flushing
<1>11. PICK s, d, g : s = Stream' /\ d = due' /\ g = Goal
  OBVIOUS
<1>12. ~Flushing => Follows(s, d) /\ Tip(s, d) = g
  BY <1>11 DEF Goal
<1>13. Linked'
  BY <1>10, <1>11, <1>12 DEF Linked, Follows
<1>14. Timing' /\ Fetching'
  BY <1>1, <1>7, FetchKept DEF Inv
<1>15. Goal' = g
  BY <1>10, <1>11, <1>12 DEF Goal, Tip
<1>16. Meets(g)'
  BY <1>1, <1>7, <1>11, MeetsKept DEF Inv, Aimed
<1>17. Aimed'
  BY <1>15, <1>16 DEF Aimed
<1> QED
  BY <1>6, <1>8, <1>9, <1>13, <1>14, <1>17 DEF Inv

LEMMA StreamParts ==
  ASSUME Shape
  PROVE  /\ OfDecode \in Seq(Insns(program)) /\ OfFetch2 \in Seq(Insns(program))
         /\ OfFetch1 \in Seq(Insns(program)) /\ Stream \in Seq(Insns(program))
<1>1. /\ decodeQueue \in Seq(Insns(program)) /\ insnBuffer \in Seq(Insns(program))
      /\ toFetch2 \in Latch(Package(program, FetchByteWidth \div 2))
      /\ ackFetch2 \in Latch(Nat) /\ ~ackFetch2.stall /\ ~ackFetch2.flush
      /\ ackDecode \in Latch(Nat) /\ ~ackDecode.stall /\ ~ackDecode.flush
  BY DEF Shape
<1>2. Released(decodeQueue, ackDecode) \in Seq(Insns(program))
  BY <1>1, AcknowledgeIs, DropIs DEF Released
<1>3. Released(insnBuffer, ackFetch2) \in Seq(Insns(program))
  BY <1>1, AcknowledgeIs, DropIs DEF Released
<1>4. \A p \in Port(Package(program, FetchByteWidth \div 2)) :
        Flat(p) \in Seq(Insns(program))
  BY PortIs DEF Flat, Package
<1>5. /\ toFetch2.out \in Port(Package(program, FetchByteWidth \div 2))
      /\ toFetch2.in \in Port(Package(program, FetchByteWidth \div 2))
  BY <1>1 DEF Latch
<1>6. OfDecode \in Seq(Insns(program)) /\ OfFetch2 \in Seq(Insns(program))
  BY <1>1, <1>2, <1>3 DEF OfDecode, OfFetch2
<1>7. OfFetch1 \in Seq(Insns(program))
  BY <1>4, <1>5 DEF OfFetch1
<1> QED
  BY <1>6, <1>7 DEF Stream

LEMMA DispatchStallsKeeps == ASSUME Inv, DispatchStalls PROVE Inv'
<1>1. /\ phase = "Dispatch" /\ phase' = "Decode" /\ DispatchKeeps
      /\ toDispatch' = toDispatch \/ toDispatch' = Stall(toDispatch)
      /\ ackDecode' = ackDecode /\ inFlight' = inFlight /\ due' = due
  BY PhaseIs DEF DispatchStalls
<1>2. /\ decodeQueue' = decodeQueue /\ insnBuffer' = insnBuffer /\ toFetch2' = toFetch2
  BY <1>1 DEF DispatchKeeps
<1>3. Released(decodeQueue, ackDecode) = decodeQueue
  <2>1. Acked(ackDecode) = 0
    BY <1>1, AcknowledgeIs DEF Inv, Shape, Protocol
  <2> QED
    BY <2>1, DropNone DEF Released, Inv, Shape
<1>4. OfDecode' = OfDecode
  <2>1. OfDecode' = Released(decodeQueue, ackDecode)'
    BY <1>1 DEF OfDecode
  <2>2. Released(decodeQueue, ackDecode)' = Released(decodeQueue, ackDecode)
    BY <1>1, <1>2
  <2> QED
    BY <1>1, <1>3, <2>1, <2>2 DEF OfDecode
<1>5. OfFetch2' = OfFetch2 /\ OfFetch1' = OfFetch1
  BY <1>1, <1>2 DEF OfFetch2, OfFetch1
<1>6. Stream' = Stream
  BY <1>4, <1>5 DEF Stream
<1>7. ~Flushing => Follows(Stream', due') /\ Tip(Stream', due') = Tip(Stream, due)
  BY <1>1, <1>6 DEF Inv, Linked
<1> QED
  BY <1>1, <1>7, DispatchKept DEF Inv, Shape

LEMMA DispatchTakesNoneKeeps == ASSUME Inv, DispatchTakesNone PROVE Inv'
<1>1. /\ phase = "Dispatch" /\ phase' = "Decode" /\ DispatchKeeps
      /\ ackDecode' = Set(ackDecode, 0)
      /\ toDispatch' = toDispatch /\ inFlight' = inFlight /\ due' = due
  BY PhaseIs DEF DispatchTakesNone
<1>2. /\ decodeQueue' = decodeQueue /\ insnBuffer' = insnBuffer /\ toFetch2' = toFetch2
  BY <1>1 DEF DispatchKeeps
<1>3. /\ ackDecode' \in Latch(Nat) /\ ~ackDecode'.stall /\ ~ackDecode'.flush
      /\ ackDecode'.in = <<0>>
  BY <1>1, SetIs DEF Inv, Shape
<1>4. Released(decodeQueue, ackDecode') = decodeQueue
  <2>1. PICK a : a = ackDecode'
    OBVIOUS
  <2>2. Acked(a) = 0
    BY <1>3, <2>1, AcknowledgeIs
  <2> QED
    BY <2>1, <2>2, DropNone DEF Released, Inv, Shape
<1>5. OfDecode' = OfDecode
  BY <1>1, <1>2, <1>4 DEF OfDecode
<1>6. OfFetch2' = OfFetch2 /\ OfFetch1' = OfFetch1
  BY <1>1, <1>2 DEF OfFetch2, OfFetch1
<1>7. Stream' = Stream
  BY <1>5, <1>6 DEF Stream
<1>8. ~Flushing => Follows(Stream', due') /\ Tip(Stream', due') = Tip(Stream, due)
  BY <1>1, <1>7 DEF Inv, Linked
<1> QED
  BY <1>1, <1>3, <1>8, DispatchKept DEF Inv, Shape

\* A part of a package that was offered is the front of the queue behind it.
LEMMA OfferedFront ==
  ASSUME NEW S, NEW package \in Seq(S), NEW queue \in Seq(S), Begins(package, queue),
         NEW n \in 1 .. Len(package)
  PROVE  First(package, n) = First(queue, n) /\ Len(First(package, n)) = n
<1>1. PICK a \in Seq(S) : a = First(package, n)
  BY FirstIs
<1>2. PICK b \in Seq(S) : b = First(queue, n)
  BY FirstIs
<1>3. Len(a) = n /\ \A i \in 1 .. n : a[i] = package[i]
  BY <1>1, FirstIs
<1>4. Len(b) = n /\ \A i \in 1 .. n : b[i] = queue[i]
  BY <1>2, FirstIs DEF Begins
<1>5. \A i \in 1 .. n : package[i] = queue[i]
  BY DEF Begins
<1>6. \A i \in 1 .. Len(a) : a[i] = b[i]
  BY <1>3, <1>4, <1>5
<1>7. a = b
  BY <1>3, <1>4, <1>6, SeqEqual
<1> QED
  BY <1>1, <1>2, <1>3, <1>7

\* What Dispatch takes is the front of the stream.
LEMMA TakesFront ==
  ASSUME Inv, DispatchTakes
  PROVE  /\ ~Flushing
         /\ taken' \in Seq(Insns(program)) /\ taken' # <<>>
         /\ due' = Tip(taken', due) /\ Follows(taken', due)
         /\ Follows(Stream', due') /\ Tip(Stream', due') = Tip(Stream, due)
         /\ due' \in Nat \union {Nowhere}
         /\ ackDecode' \in Latch(Nat) /\ ~ackDecode'.stall /\ ~ackDecode'.flush
<1>1. /\ phase = "Dispatch" /\ phase' = "Decode" /\ DispatchKeeps
      /\ toDispatch.out # <<>> /\ robIdle
  BY PhaseIs DEF DispatchTakes
<1>2. PICK n \in Takeable(toDispatch.out[1]) :
        /\ taken' = First(toDispatch.out[1], n)
        /\ due' = taken'[n].next
        /\ ackDecode' = Set(ackDecode, n)
  BY DEF DispatchTakes
<1>3. /\ decodeQueue' = decodeQueue /\ insnBuffer' = insnBuffer /\ toFetch2' = toFetch2
  BY <1>1 DEF DispatchKeeps
<1>4. ~Flushing
  BY <1>1 DEF Inv, Protocol, Early
<1>5. PICK S : S = Insns(program)
  OBVIOUS
<1>6. PICK p : p = toDispatch.out[1] /\ p \in Seq(S)
  BY <1>1, <1>5, PortIs DEF Inv, Shape, Latch, Package
<1>7. n \in 1 .. Len(p) /\ n \in Nat
  BY <1>2, <1>6 DEF Takeable
<1>8. PICK q \in Seq(S) : q = decodeQueue
  BY <1>5 DEF Inv, Shape
<1>9. Begins(p, q)
  BY <1>1, <1>6, <1>8 DEF Inv, Offers, OffersOf
<1>10. PICK a \in Seq(S) : a = First(q, n)
  BY <1>7, FirstIs
<1>11. taken' = a /\ Len(a) = n /\ a # <<>>
  <2>1. taken' = a /\ Len(a) = n
    BY <1>2, <1>6, <1>7, <1>9, <1>10, OfferedFront, SMTT(40)
  <2> QED
    BY <1>7, <2>1
<1>12. PICK b \in Seq(S) : b = Drop(q, n)
  BY <1>7, DropIs
<1>13. q = a \o b
  BY <1>7, <1>10, <1>12, SplitAt
<1>14. ackDecode' \in Latch(Nat) /\ ~ackDecode'.stall /\ ~ackDecode'.flush /\ ackDecode'.in = <<n>>
  <2>1. ackDecode' = Set(ackDecode, n)
    BY <1>2
  <2>2. ackDecode \in Latch(Nat) /\ ~ackDecode.stall /\ ~ackDecode.flush
    BY DEF Inv, Shape
  <2> QED
    BY <1>7, <2>1, <2>2, SetIs
<1>15. Released(decodeQueue, ackDecode') = b
  <2>1. PICK k : k = ackDecode'
    OBVIOUS
  <2>2. Acked(k) = k.in[1] /\ k.in = <<n>>
    <3>1. <<n>> # <<>>
      OBVIOUS
    <3> QED
      BY <1>14, <2>1, <3>1, AcknowledgeIs
  <2>3. Acked(k) = n
    BY <2>2
  <2> QED
    BY <1>8, <1>12, <2>1, <2>3 DEF Released
<1>0. PICK o2 \in Seq(S), o1 \in Seq(S) : o2 = OfFetch2 /\ o1 = OfFetch1
  BY <1>5, StreamParts DEF Inv
<1>16. PICK rest \in Seq(S) : rest = o2 \o o1
  BY ConcatProperties
<1>17. OfFetch2' = OfFetch2 /\ OfFetch1' = OfFetch1
  BY <1>1, <1>3 DEF OfFetch2, OfFetch1
<1>18. Stream = q \o rest
  <2>1. Stream = q \o o2 \o o1
    BY <1>0, <1>1, <1>8 DEF Stream, OfDecode
  <2>2. Associative(q, o2, o1)
    BY Associates
  <2> QED
    BY <1>16, <2>1, <2>2 DEF Associative
<1>19. Stream' = b \o rest
  <2>1. OfDecode' = b
    BY <1>1, <1>3, <1>15 DEF OfDecode
  <2>2. Stream' = b \o o2 \o o1
    BY <1>0, <1>17, <2>1 DEF Stream
  <2> QED
    <3>1. Associative(b, o2, o1)
      BY Associates
    <3> QED
      BY <1>16, <2>2, <3>1 DEF Associative
<1>20. q \o rest = a \o (b \o rest) /\ b \o rest \in Seq(S)
  <2>1. b \o rest \in Seq(S)
    BY ConcatProperties
  <2>2. Associative(a, b, rest)
    BY Associates
  <2> QED
    BY <1>13, <2>1, <2>2 DEF Associative
<1>21. PICK d : d = due
  OBVIOUS
<1>22. PICK e : e = Tip(a, d)
  OBVIOUS
<1>23. due' = e
  BY <1>2, <1>11, <1>22 DEF Tip
<1>24. Follows(a \o (b \o rest), d)
  <2>1. q \o rest = a \o (b \o rest)
    BY <1>20
  <2>2. Follows(Stream, due)
    BY <1>4 DEF Inv, Linked
  <2> QED
    BY <1>18, <1>21, <2>1, <2>2
<1>25. /\ Follows(a, d) /\ Follows(b \o rest, e)
       /\ Tip(a \o (b \o rest), d) = Tip(b \o rest, e)
  <2>1. PICK t \in Seq(S) : t = b \o rest
    BY <1>20
  <2>2. Follows(a \o t, d)
    BY <1>24, <2>1
  <2>3. Follows(a, d) /\ Follows(t, Tip(a, d)) /\ Tip(a \o t, d) = Tip(t, Tip(a, d))
    BY <2>2, FollowsConcat
  <2> QED
    BY <1>22, <2>1, <2>3
<1>26. due' \in Nat \union {Nowhere}
  <2>1. a[n] \in S
    BY <1>7, <1>11
  <2> QED
    BY <1>2, <1>5, <1>11, <2>1 DEF Insns
<1>27. Tip(Stream, due) = Tip(b \o rest, e)
  BY <1>18, <1>20, <1>21, <1>25
<1> QED
  BY <1>4, <1>5, <1>11, <1>14, <1>19, <1>21, <1>22, <1>23, <1>25, <1>26, <1>27

LEMMA DispatchTakesKeeps == ASSUME Inv, DispatchTakes PROVE Inv'
<1>1. /\ phase = "Dispatch" /\ phase' = "Decode" /\ DispatchKeeps
      /\ toDispatch' = toDispatch /\ inFlight' = TRUE
  BY PhaseIs DEF DispatchTakes
<1> QED
  BY <1>1, TakesFront, DispatchKept

-----------------------------------------------------------------------------
(* Decode and Fetch2: what they move stays in the stream.                  *)

LEMMA ReleasedIs ==
  ASSUME NEW S, NEW q \in Seq(S), NEW b \in Latch(Nat), ~b.stall, ~b.flush
  PROVE  /\ Released(q, b) \in Seq(S)
         /\ Len(Released(q, b)) <= Len(q)
         /\ b.in = <<>> => Released(q, b) = q
         /\ b.in # <<>> => Released(q, b) = Drop(q, b.in[1])
<1>1. PICK n \in Nat : n = Acked(b)
  BY AcknowledgeIs
<1>2. /\ b.in = <<>> => n = 0
      /\ b.in # <<>> => n = b.in[1]
  BY <1>1, AcknowledgeIs
<1>3. Released(q, b) = Drop(q, n)
  BY <1>1 DEF Released
<1>4. /\ Drop(q, n) \in Seq(S)
      /\ Len(q) < n => Drop(q, n) = <<>>
      /\ Len(q) >= n => Len(Drop(q, n)) = Len(q) - n
  BY DropIs
<1>5. Len(Drop(q, n)) <= Len(q)
  <2>1. Len(<<>>) = 0
    OBVIOUS
  <2> QED
    BY <1>4, <2>1
<1>6. n = 0 => Drop(q, n) = q
  BY DropNone
<1> QED
  BY <1>2, <1>3, <1>4, <1>5, <1>6

LEMMA OfferIs ==
  ASSUME NEW p, NEW w \in Nat \ {0}, NEW q \in Seq(Insns(p)),
         NEW b \in Latch(Package(p, w)), b.in = <<>>,
         b.stall => OffersOf(b.out, q)
  PROVE  /\ Offer(q, w, b) \in Latch(Package(p, w))
         /\ Offer(q, w, b).out = b.out
         /\ Offer(q, w, b).stall <=> b.stall
         /\ Offer(q, w, b).flush <=> b.flush
         /\ IF Offer(q, w, b).stall
            THEN Offer(q, w, b).in = <<>> /\ OffersOf(Offer(q, w, b).out, q)
            ELSE OffersOf(Offer(q, w, b).in, q)
<1>1. CASE q = <<>> \/ b.stall
  <2>1. Offer(q, w, b) = b
    BY <1>1 DEF Offer
  <2> QED
    BY <2>1 DEF OffersOf
<1>2. CASE ~(q = <<>> \/ b.stall)
  <2>1. PICK f \in Seq(Insns(p)) : f = First(q, w)
    BY FirstIs
  <2>2. /\ Len(q) < w => Len(f) = Len(q)
        /\ Len(q) >= w => Len(f) = w
        /\ \A i \in 1 .. Len(f) : f[i] = q[i]
    BY <2>1, FirstIs
  <2>3. Len(q) \in Nat \ {0}
    BY <1>2, EmptySeq
  <2>4. Len(f) \in 1 .. w /\ Len(f) <= Len(q)
    BY <2>2, <2>3
  <2>5. f \in Package(p, w)
    BY <2>4 DEF Package
  <2>6. Begins(f, q)
    BY <2>2, <2>4 DEF Begins
  <2>7. Offer(q, w, b) = Set(b, f)
    BY <1>2, <2>1 DEF Offer
  <2>8. /\ Set(b, f) \in Latch(Package(p, w))
        /\ Set(b, f).in = <<f>> /\ Set(b, f).out = b.out
        /\ Set(b, f).stall = b.stall /\ Set(b, f).flush = b.flush
    BY <2>5, SetIs
  <2>9. <<f>>[1] = f
    OBVIOUS
  <2> QED
    BY <1>2, <2>6, <2>7, <2>8, <2>9 DEF OffersOf
<1> QED
  BY <1>1, <1>2

LEMMA BeginsConcat ==
  ASSUME NEW S, NEW s \in Seq(S), NEW q \in Seq(S), NEW t \in Seq(S), Begins(s, q)
  PROVE  Begins(s, q \o t)
<1>1. Len(q \o t) = Len(q) + Len(t) /\ \A i \in 1 .. Len(q) : (q \o t)[i] = q[i]
  BY ConcatProperties
<1>2. Len(s) <= Len(q) /\ \A i \in 1 .. Len(s) : s[i] = q[i]
  BY DEF Begins
<1>3. Len(s) <= Len(q \o t)
  BY <1>1, <1>2
<1>4. \A i \in 1 .. Len(s) : i \in 1 .. Len(q)
  BY <1>2
<1> QED
  BY <1>1, <1>2, <1>3, <1>4 DEF Begins

\* A part of a package that was offered, and what it leaves of the queue.
LEMMA OfferedPart ==
  ASSUME NEW S, NEW package \in Seq(S), NEW queue \in Seq(S), Begins(package, queue),
         NEW n \in Nat
  PROVE  queue = First(package, n) \o Drop(queue, Len(First(package, n)))
<1>1. PICK f \in Seq(S) : f = First(package, n)
  BY FirstIs
<1>2. PICK k \in Nat : k = Len(f)
  OBVIOUS
<1>3. /\ Len(package) < n => k = Len(package)
      /\ Len(package) >= n => k = n
      /\ \A i \in 1 .. k : f[i] = package[i]
  BY <1>1, <1>2, FirstIs
<1>4. k <= Len(package) /\ Len(package) <= Len(queue)
  BY <1>3 DEF Begins
<1>5. PICK g \in Seq(S) : g = First(queue, k)
  BY FirstIs
<1>6. Len(g) = k /\ \A i \in 1 .. k : g[i] = queue[i]
  BY <1>4, <1>5, FirstIs
<1>7. \A i \in 1 .. k : i \in 1 .. Len(package) /\ package[i] = queue[i]
  BY <1>4 DEF Begins
<1>8. f = g
  BY <1>2, <1>3, <1>6, <1>7, SeqEqual
<1>9. queue = g \o Drop(queue, k)
  BY <1>5, SplitAt
<1> QED
  BY <1>1, <1>2, <1>8, <1>9

LEMMA DecodeKeeps == ASSUME Inv, Decode PROVE Inv'
<1> DEFINE held == Released(decodeQueue, ackDecode)
           room == conf.decodeQueueSize - Len(held)
           come == toDecode.out # <<>>
           takes == come /\ (conf.mustTakenAllInsn => room >= conf.decodeWidth)
           new == IF takes THEN First(toDecode.out[1], room) ELSE <<>>
<1>1. /\ phase = "Decode" /\ phase' = "Fetch2"
      /\ decodeQueue' = held \o new
      /\ ackFetch2' = IF takes THEN Set(ackFetch2, Len(new)) ELSE ackFetch2
      /\ toDecode' = IF come /\ ~takes THEN Stall(toDecode) ELSE toDecode
      /\ toDispatch' = Offer(decodeQueue', conf.dispatchWidth, toDispatch)
      /\ UNCHANGED <<program, conf, fetch, insnBuffer, toFetch2, ackDecode, redirect,
                     flushSync, back>>
  BY PhaseIs DEF Decode
<1>2. /\ pcRegister' = pcRegister /\ iCache' = iCache /\ fetch1' = fetch1
      /\ robIdle' = robIdle /\ redirects' = redirects /\ inFlight' = inFlight /\ due' = due
  BY <1>1 DEF fetch, back
<1>3. PICK S, de, di : /\ S = Insns(program)
                       /\ de = Package(program, conf.decodeWidth)
                       /\ di = Package(program, conf.dispatchWidth)
  OBVIOUS
<1>4. /\ S = Insns(program)' /\ de = Package(program, conf.decodeWidth)'
      /\ di = Package(program, conf.dispatchWidth)'
  <2>1. S = Insns(program)'
    BY <1>1, <1>3, MemoryKept
  <2> QED
    BY <1>1, <1>3, <2>1 DEF Package
<1>5. /\ conf.decodeQueueSize \in Nat /\ conf.decodeWidth \in Nat \ {0}
      /\ conf.dispatchWidth \in Nat \ {0}
  BY ConfsAssumption DEF Inv, Shape
<1>6. /\ decodeQueue \in Seq(S) /\ Len(decodeQueue) <= conf.decodeQueueSize
      /\ insnBuffer \in Seq(S)
      /\ toDecode \in Latch(de) /\ toDispatch \in Latch(di)
      /\ ackFetch2 \in Latch(Nat) /\ ~ackFetch2.stall /\ ~ackFetch2.flush
      /\ ackDecode \in Latch(Nat) /\ ~ackDecode.stall /\ ~ackDecode.flush
  BY <1>3 DEF Inv, Shape
<1>7. /\ held \in Seq(S) /\ Len(held) <= Len(decodeQueue)
      /\ ackDecode.in = <<>> => held = decodeQueue
  BY <1>6, ReleasedIs
<1>8. room \in Nat
  BY <1>5, <1>6, <1>7
<1>9. /\ toDispatch.in = <<>> /\ ackFetch2.in = <<>> /\ ~toDecode.stall /\ toDecode.in = <<>>
  BY <1>1 DEF Inv, Protocol
<1>10. come => toDecode.out[1] \in Seq(S) /\ Begins(toDecode.out[1], insnBuffer)
  <2>1. come => toDecode.out[1] \in de
    BY <1>6, PortIs DEF Latch
  <2> QED
    BY <1>1, <1>3, <2>1 DEF Inv, Offers, OffersOf, Package
<1>11. PICK n \in Seq(S) : n = new
  <2>1. CASE takes
    <3>1. First(toDecode.out[1], room) \in Seq(S)
      BY <1>8, <1>10, <2>1, FirstIs
    <3> QED
      BY <2>1, <3>1
  <2>2. CASE ~takes
    <3>1. new = <<>> /\ <<>> \in Seq(S)
      BY <2>2
    <3> QED
      BY <3>1
  <2> QED
    BY <2>1, <2>2
<1>12. Len(n) <= room
  <2>1. CASE takes
    <3>1. /\ Len(toDecode.out[1]) < room => Len(n) = Len(toDecode.out[1])
          /\ Len(toDecode.out[1]) >= room => Len(n) = room
      BY <1>8, <1>10, <1>11, <2>1, FirstIs
    <3> QED
      BY <1>8, <1>10, <3>1
  <2>2. CASE ~takes
    BY <1>8, <1>11, <2>2
  <2> QED
    BY <2>1, <2>2
<1>13. PICK h \in Seq(S) : h = held
  BY <1>7
<1>14. PICK d \in Seq(S) : d = h \o n /\ d = decodeQueue'
  BY <1>1, <1>11, <1>13, ConcatProperties
<1>15. Len(d) <= conf.decodeQueueSize
  <2>1. Len(d) = Len(h) + Len(n) /\ Len(h) \in Nat /\ Len(n) \in Nat
    <3> HIDE DEF held, new
    <3>1. d = h \o n
      BY <1>14
    <3> QED
      BY <3>1, ConcatProperties
  <2>2. Len(n) <= conf.decodeQueueSize - Len(h)
    BY <1>12, <1>13
  <2> QED
    BY <1>5, <2>1, <2>2
<1>16. /\ toDecode' \in Latch(de)
       /\ toDecode'.in = toDecode.in /\ toDecode'.out = toDecode.out
       /\ toDecode'.flush <=> toDecode.flush
       /\ toDecode'.stall => ~takes
  <2>1. CASE come /\ ~takes
    <3>1. toDecode' = Stall(toDecode)
      BY <1>1, <2>1
    <3> QED
      BY <1>6, <2>1, <3>1, StallIs
  <2>2. CASE ~(come /\ ~takes)
    BY <1>1, <1>6, <1>9, <2>2
  <2> QED
    BY <2>1, <2>2
<1>17. /\ ackFetch2' \in Latch(Nat) /\ ~ackFetch2'.stall /\ ~ackFetch2'.flush
       /\ takes => ackFetch2'.in = <<Len(n)>>
       /\ ~takes => ackFetch2'.in = <<>>
  <2>1. CASE takes
    <3>1. ackFetch2' = Set(ackFetch2, Len(n)) /\ Len(n) \in Nat
      BY <1>1, <1>11, <2>1
    <3> QED
      BY <1>6, <2>1, <3>1, SetIs
  <2>2. CASE ~takes
    BY <1>1, <1>6, <1>9, <2>2
  <2> QED
    BY <2>1, <2>2
<1>18. PICK b \in Seq(S) : b = Released(insnBuffer, ackFetch2') /\ insnBuffer = n \o b
  <2>1. PICK a \in Latch(Nat) : a = ackFetch2' /\ ~a.stall /\ ~a.flush
    BY <1>17
  <2>2. /\ Released(insnBuffer, a) \in Seq(S)
        /\ a.in = <<>> => Released(insnBuffer, a) = insnBuffer
        /\ a.in # <<>> => Released(insnBuffer, a) = Drop(insnBuffer, a.in[1])
    BY <1>6, <2>1, ReleasedIs, ZenonT(40)
  <2>3. CASE takes
    <3>0. a.in = <<Len(n)>> /\ <<Len(n)>> # <<>>
      BY <1>17, <2>1, <2>3
    <3>1. a.in # <<>> /\ a.in[1] = Len(n)
      BY <3>0
    <3>2. insnBuffer = n \o Drop(insnBuffer, Len(n))
      BY <1>6, <1>8, <1>10, <1>11, <2>3, OfferedPart
    <3> QED
      BY <2>1, <2>2, <3>1, <3>2
  <2>4. CASE ~takes
    <3>1. a.in = <<>> /\ n = <<>>
      BY <1>11, <1>17, <2>1, <2>4
    <3>2. insnBuffer = n \o insnBuffer
      BY <1>6, <3>1, ConcatEmptySeq
    <3> QED
      BY <2>1, <2>2, <3>1, <3>2
  <2> QED
    BY <2>3, <2>4
<1> HIDE DEF held, room, come, takes, new
<1>19. PICK l : l = toDispatch' /\ l = Offer(d, conf.dispatchWidth, toDispatch)
  BY <1>1, <1>14
<1>20. toDispatch.stall => OffersOf(toDispatch.out, d)
  <2>1. SUFFICES ASSUME toDispatch.stall, toDispatch.out # <<>>
                 PROVE  Begins(toDispatch.out[1], d)
    BY DEF OffersOf
  <2>2. ackDecode.in = <<>> /\ Begins(toDispatch.out[1], decodeQueue)
    BY <1>1, <2>1 DEF Inv, Offers, OffersOf
  <2>3. d = decodeQueue \o n
    BY <1>7, <1>13, <1>14, <2>2 DEF held
  <2>4. toDispatch.out[1] \in Seq(S)
    BY <1>3, <1>6, <2>1, PortIs DEF Latch, Package
  <2> QED
    BY <1>6, <2>2, <2>3, <2>4, BeginsConcat
<1>21. /\ l \in Latch(di) /\ l.out = toDispatch.out
       /\ l.stall <=> toDispatch.stall
       /\ l.flush <=> toDispatch.flush
       /\ IF l.stall THEN l.in = <<>> /\ OffersOf(l.out, d) ELSE OffersOf(l.in, d)
  BY <1>3, <1>5, <1>6, <1>9, <1>14, <1>19, <1>20, OfferIs
<1>22. Shape'
  BY <1>1, <1>2, <1>4, <1>14, <1>15, <1>16, <1>17, <1>19, <1>21 DEF Inv, Shape
<1>23. Early /\ Early'
  BY <1>1 DEF Early
<1>24. Protocol'
  BY <1>1, <1>2, <1>9, <1>16, <1>19, <1>21, <1>23 DEF Inv, Protocol, Flushing
<1>25. Offers'
  <2>1. OffersOf(toDecode.out, insnBuffer)
    BY <1>1 DEF Inv, Offers
  <2>2. IF toDispatch'.stall
        THEN toDispatch'.in = <<>> /\ OffersOf(toDispatch'.out, decodeQueue')
        ELSE OffersOf(toDispatch'.in, decodeQueue')
    BY <1>14, <1>19, <1>21
  <2>3. toDecode'.stall => OffersOf(toDecode'.out, insnBuffer') /\ ackFetch2'.in = <<>>
    <3>1. insnBuffer' = insnBuffer
      BY <1>1
    <3> QED
      BY <1>16, <1>17, <2>1, <3>1
  <2> QED
    BY <1>1, <2>2, <2>3 DEF Offers, OffersOf, Begins
<1>26. Stream' = Stream
  <2>1. PICK o1 \in Seq(S) : o1 = OfFetch1
    BY <1>3, StreamParts DEF Inv
  <2>2. OfFetch1' = o1
    BY <1>1, <2>1 DEF OfFetch1
  <2>3. OfDecode' = d /\ OfFetch2' = b
    BY <1>1, <1>14, <1>18 DEF OfDecode, OfFetch2
  <2>4. OfDecode = h /\ OfFetch2 = n \o b
    BY <1>1, <1>13, <1>18 DEF OfDecode, OfFetch2, held
  <2>5. Stream' = h \o n \o b \o o1
    BY <1>14, <2>2, <2>3 DEF Stream
  <2>6. Stream = h \o (n \o b) \o o1
    BY <2>1, <2>4 DEF Stream
  <2>7. (h \o n) \o b = h \o (n \o b)
    <3>1. h \in Seq(S) /\ n \in Seq(S) /\ b \in Seq(S)
      BY <1>13, <1>14, <1>18
    <3>2. Associative(h, n, b)
      BY <3>1, Associates
    <3> QED
      BY <3>2 DEF Associative
  <2> QED
    BY <2>5, <2>6, <2>7
<1>27. Linked'
  BY <1>1, <1>2, <1>26 DEF Inv, Linked, Flushing, Follows
<1>28. Timing' /\ Fetching'
  BY <1>1, <1>23, FetchKept DEF Inv
<1>29. Aimed'
  <2>1. PICK tip : tip = Goal
    OBVIOUS
  <2>2. Goal' = tip
    BY <1>1, <1>2, <1>26, <2>1 DEF Goal, Flushing, Tip
  <2>3. Meets(tip)'
    BY <1>1, <1>23, <2>1, MeetsKept DEF Inv, Aimed
  <2> QED
    BY <2>2, <2>3 DEF Aimed
<1> QED
  BY <1>22, <1>24, <1>25, <1>27, <1>28, <1>29 DEF Inv

\* What Fetch2 does to its buffer and to what it offers.
LEMMA Fetch2Buffers ==
  ASSUME Inv, Fetch2
  PROVE  /\ phase = "Fetch2" /\ phase' = "Fetch1"
         /\ UNCHANGED <<program, conf, fetch, decodeQueue, toDispatch, acks, back>>
         /\ insnBuffer' \in Seq(Insns(program)) /\ Len(insnBuffer') <= conf.instrBufferSize
         /\ OfFetch2 \in Seq(Insns(program))
         /\ \/ /\ toFetch2.out # <<>> /\ insnBuffer' = OfFetch2 /\ Replay(toFetch2.out[1])
            \/ /\ insnBuffer' = OfFetch2 \o Flat(toFetch2.out)
               /\ UNCHANGED <<redirect, flushSync, toFetch2>>
         /\ toDecode' \in Latch(Package(program, conf.decodeWidth))
         /\ toDecode'.flush <=> toDecode.flush
         /\ IF toDecode'.stall
            THEN toDecode'.in = <<>> /\ OffersOf(toDecode'.out, insnBuffer')
            ELSE OffersOf(toDecode'.in, insnBuffer')
<1> DEFINE held == Released(insnBuffer, ackFetch2)
           come == toFetch2.out
<1>1. /\ phase = "Fetch2" /\ phase' = "Fetch1"
      /\ IF come # <<>> /\ ~HasRoom(held)
         THEN Replay(come[1]) /\ insnBuffer' = held
         ELSE /\ insnBuffer' = IF come = <<>> THEN held ELSE held \o come[1]
              /\ UNCHANGED <<redirect, flushSync, toFetch2>>
      /\ toDecode' = Offer(insnBuffer', conf.decodeWidth, toDecode)
      /\ UNCHANGED <<program, conf, fetch, decodeQueue, toDispatch, acks, back>>
  BY PhaseIs DEF Fetch2
<1>2. PICK S, de : S = Insns(program) /\ de = Package(program, conf.decodeWidth)
  OBVIOUS
<1>3. /\ conf.instrBufferSize \in Nat /\ conf.decodeWidth \in Nat \ {0}
      /\ FetchByteWidth \div 2 \in Nat
  BY ConfsAssumption, WidthFacts DEF Inv, Shape
<1>4. /\ insnBuffer \in Seq(S) /\ Len(insnBuffer) <= conf.instrBufferSize
      /\ toDecode \in Latch(de)
      /\ ackFetch2 \in Latch(Nat) /\ ~ackFetch2.stall /\ ~ackFetch2.flush
  BY <1>2 DEF Inv, Shape
<1>5. PICK h \in Seq(S) : /\ h = held /\ Len(h) <= Len(insnBuffer)
                          /\ ackFetch2.in = <<>> => h = insnBuffer
  BY <1>4, ReleasedIs
<1>6. OfFetch2 = h
  BY <1>1, <1>5 DEF OfFetch2
<1>7. PICK n \in Seq(S) : /\ n = Flat(come)
                          /\ Len(n) <= FetchByteWidth \div 2
  <2>1. toFetch2.out \in Port(Package(program, FetchByteWidth \div 2))
    BY DEF Inv, Shape, Latch
  <2>2. CASE come = <<>>
    <3>1. Flat(come) = <<>> /\ <<>> \in Seq(S) /\ Len(<<>>) = 0
      BY <2>2 DEF Flat
    <3>2. Len(<<>>) <= FetchByteWidth \div 2
      BY <1>3, <3>1
    <3> HIDE DEF come
    <3> QED
      BY <3>1, <3>2
  <2>3. CASE come # <<>>
    <3>1. come[1] \in Package(program, FetchByteWidth \div 2)
      BY <2>1, <2>3, PortIs
    <3> QED
      BY <1>2, <1>3, <2>3, <3>1 DEF Flat, Package
  <2> QED
    BY <2>2, <2>3
<1>8. PICK i \in Seq(S) : i = insnBuffer' /\ Len(i) <= conf.instrBufferSize
                          /\ (i = h \/ i = h \o n)
  <2>1. CASE come # <<>> /\ ~HasRoom(held)
    <3>1. insnBuffer' = h
      BY <1>1, <1>5, <2>1
    <3> QED
      BY <1>3, <1>4, <1>5, <3>1
  <2>2. CASE come # <<>> /\ HasRoom(held)
    <3>1. insnBuffer' = h \o n
      BY <1>1, <1>5, <1>7, <2>2 DEF Flat
    <3>2. conf.instrBufferSize - Len(h) >= FetchByteWidth \div 2
      BY <1>5, <2>2 DEF HasRoom
    <3>3. h \o n \in Seq(S) /\ Len(h \o n) = Len(h) + Len(n)
      BY ConcatProperties
    <3>4. Len(h \o n) <= conf.instrBufferSize
      BY <1>3, <1>7, <3>2, <3>3
    <3> QED
      BY <3>1, <3>3, <3>4
  <2>3. CASE come = <<>>
    <3>1. insnBuffer' = h
      BY <1>1, <1>5, <2>3
    <3> QED
      BY <1>3, <1>4, <1>5, <3>1
  <2> QED
    BY <2>1, <2>2, <2>3
<1>9. \/ toFetch2.out # <<>> /\ i = h /\ Replay(toFetch2.out[1])
      \/ i = h \o n /\ UNCHANGED <<redirect, flushSync, toFetch2>>
  <2>1. CASE come # <<>> /\ ~HasRoom(held)
    BY <1>1, <1>5, <1>8, <2>1
  <2>2. CASE come # <<>> /\ HasRoom(held)
    BY <1>1, <1>5, <1>7, <1>8, <2>2 DEF Flat
  <2>3. CASE come = <<>>
    <3>1. i = h /\ n = <<>>
      BY <1>1, <1>5, <1>7, <1>8, <2>3 DEF Flat
    <3>2. h = h \o n
      BY <3>1, ConcatEmptySeq
    <3> QED
      BY <1>1, <2>3, <3>1, <3>2
  <2> QED
    BY <2>1, <2>2, <2>3
<1> HIDE DEF held
<1>10. PICK l : l = toDecode' /\ l = Offer(i, conf.decodeWidth, toDecode)
  BY <1>1, <1>8
<1>11. toDecode.stall => OffersOf(toDecode.out, i)
  <2>1. SUFFICES ASSUME toDecode.stall, toDecode.out # <<>>
                 PROVE  Begins(toDecode.out[1], i)
    BY DEF OffersOf
  <2>2. ackFetch2.in = <<>> /\ Begins(toDecode.out[1], insnBuffer)
    BY <1>1, <2>1 DEF Inv, Offers, OffersOf
  <2>3. h = insnBuffer
    BY <1>5, <2>2
  <2>4. toDecode.out[1] \in Seq(S)
    BY <1>2, <1>4, <2>1, PortIs DEF Latch, Package
  <2>5. Begins(toDecode.out[1], h) /\ Begins(toDecode.out[1], h \o n)
    BY <2>2, <2>3, <2>4, BeginsConcat
  <2> QED
    BY <1>8, <2>5
<1>12. toDecode.in = <<>>
  BY <1>1 DEF Inv, Protocol
<1>13. /\ l \in Latch(de)
       /\ l.flush <=> toDecode.flush
       /\ IF l.stall THEN l.in = <<>> /\ OffersOf(l.out, i) ELSE OffersOf(l.in, i)
  BY <1>2, <1>3, <1>4, <1>10, <1>11, <1>12, OfferIs
<1> QED
  BY <1>1, <1>2, <1>6, <1>7, <1>8, <1>9, <1>10, <1>13

\* The fetch that is dropped for want of room is fetched again.
LEMMA ReplayIs ==
  ASSUME Inv, phase = "Fetch2", toFetch2.out # <<>>, Replay(toFetch2.out[1])
  PROVE  /\ redirect' \in [Redirectors -> Latch(Nat)]
         /\ \A s \in Redirectors :
              /\ redirect'[s].out = redirect[s].out
              /\ redirect'[s].stall = redirect[s].stall
              /\ redirect'[s].flush = redirect[s].flush
              /\ s # "Fetch2" => redirect'[s].in = redirect[s].in
         /\ redirect'["Fetch2"].in # <<>>
         /\ flushSync' = flushSync \union {"Fetch1"}
         /\ toFetch2' = Flush(toFetch2)
         /\ Flushing => redirect'[Winner(InStages)'].in = redirect[Winner(InStages)].in
         /\ ~Flushing => redirect'[Winner(InStages)'].in = <<toFetch2.out[1][1].pc>>
         /\ toFetch2.out[1][1].pc \in Nat
         /\ ~Flushing => toFetch2.out[1][1].pc = Tip(OfDecode \o OfFetch2, due)
<1>1. PICK p : p = toFetch2.out[1] /\ p \in Seq(Insns(program)) /\ Len(p) >= 1
  <2>1. toFetch2.out[1] \in Package(program, FetchByteWidth \div 2)
    BY PortIs DEF Inv, Shape, Latch
  <2> QED
    BY <2>1, WidthFacts DEF Package
<1>2. PICK pc \in Nat : pc = p[1].pc
  <2>1. p[1] \in Insns(program)
    BY <1>1
  <2> QED
    BY <2>1 DEF Insns
<1>3. /\ redirect' = [redirect EXCEPT !["Fetch2"] = Set(redirect["Fetch2"], pc)]
      /\ flushSync' = flushSync \union {"Fetch1"}
      /\ toFetch2' = Flush(toFetch2)
  BY <1>1, <1>2 DEF Replay
<1>4. /\ "Fetch2" \in Redirectors /\ "Fetch1" \in Redirectors
      /\ "Issue" \in Redirectors /\ "Commit" \in Redirectors
  BY DEF Redirectors, Rank
<1>5. redirect \in [Redirectors -> Latch(Nat)]
  BY DEF Inv, Shape
<1>6. PICK l \in Latch(Nat) :
        /\ l = Set(redirect["Fetch2"], pc) /\ l.in = <<pc>>
        /\ l.out = redirect["Fetch2"].out
        /\ l.stall = redirect["Fetch2"].stall /\ l.flush = redirect["Fetch2"].flush
  BY <1>4, <1>5, SetIs
<1>7. /\ redirect' \in [Redirectors -> Latch(Nat)]
      /\ redirect'["Fetch2"] = l
      /\ \A s \in Redirectors : s # "Fetch2" => redirect'[s] = redirect[s]
  BY <1>3, <1>4, <1>5, <1>6
<1>8. <<pc>> # <<>>
  OBVIOUS
<1>9. /\ InStages' = {s \in Redirectors : redirect'[s].in # <<>>}
      /\ InStages = {s \in Redirectors : redirect[s].in # <<>>}
  BY DEF InStages, Redirectors
<1>10. redirect["Fetch1"].in = <<>> /\ redirect["Fetch2"].in = <<>>
  BY DEF Inv, Protocol, Early
<1>11. /\ "Fetch2" \in InStages'
       /\ \A s \in Redirectors : s # "Fetch2" => (s \in InStages' <=> s \in InStages)
       /\ "Fetch2" \notin InStages /\ "Fetch1" \notin InStages
  BY <1>4, <1>6, <1>7, <1>8, <1>9, <1>10
<1>12. Flushing => redirect'[Winner(InStages)'].in = redirect[Winner(InStages)].in
  <2>1. SUFFICES ASSUME Flushing PROVE redirect'[Winner(InStages)'].in = redirect[Winner(InStages)].in
    OBVIOUS
  <2>2. InStages # {}
    BY <1>9, <2>1 DEF Inv, Protocol
  <2>3. PICK i : i = InStages
    OBVIOUS
  <2>4. PICK j : j = InStages'
    OBVIOUS
  <2>5. i \subseteq {"Issue", "Commit"} /\ i \subseteq Redirectors
    BY <1>9, <1>11, <2>3 DEF Redirectors, Rank
  <2>6. j = i \union {"Fetch2"} /\ j \subseteq Redirectors
    BY <1>9, <1>11, <2>3, <2>4 DEF Redirectors, Rank
  <2>7. PICK w \in i : \A s \in i : Rank[w] >= Rank[s]
    <3>1. CASE "Commit" \in i
      BY <2>5, <3>1 DEF Rank
    <3>2. CASE "Commit" \notin i
      <4>1. i = {"Issue"}
        BY <2>2, <2>3, <2>5, <3>2
      <4> QED
        BY <4>1 DEF Rank
    <3> QED
      BY <3>1, <3>2
  <2>8. \A s \in j : Rank[w] >= Rank[s]
    BY <2>5, <2>6, <2>7 DEF Rank
  <2>9. Winner(i) = w /\ Winner(j) = w
    BY <2>5, <2>6, <2>7, <2>8, WinnerIs
  <2>10. Winner(InStages)' = w /\ Winner(InStages) = w
    BY <2>3, <2>4, <2>9 DEF Winner
  <2>11. w \in Redirectors /\ w # "Fetch2"
    BY <2>5
  <2> QED
    BY <1>7, <2>10, <2>11
<1>13. ~Flushing => redirect'[Winner(InStages)'].in = <<pc>>
  <2>1. SUFFICES ASSUME ~Flushing PROVE redirect'[Winner(InStages)'].in = <<pc>>
    OBVIOUS
  <2>2. "Issue" \notin InStages /\ "Commit" \notin InStages
    BY <1>9, <2>1 DEF Inv, Protocol
  <2>3. PICK j : j = InStages'
    OBVIOUS
  <2>4. j = {"Fetch2"}
    BY <1>9, <1>11, <2>2, <2>3 DEF Redirectors, Rank
  <2>5. Winner(j) = "Fetch2"
    BY <1>4, <2>4, WinnerIs DEF Rank
  <2>6. Winner(InStages)' = "Fetch2"
    BY <2>3, <2>5 DEF Winner
  <2> QED
    BY <1>6, <1>7, <2>6
<1>14. ~Flushing => pc = Tip(OfDecode \o OfFetch2, due)
  <2>1. SUFFICES ASSUME ~Flushing PROVE pc = Tip(OfDecode \o OfFetch2, due)
    OBVIOUS
  <2>2. OfFetch1 = p
    BY <1>1 DEF OfFetch1, Flat
  <2>3. PICK S : S = Insns(program)
    OBVIOUS
  <2>4. PICK o \in Seq(S) : o = OfDecode \o OfFetch2
    BY <2>3, StreamParts, ConcatProperties DEF Inv
  <2>5. Stream = o \o p
    BY <2>2, <2>4 DEF Stream
  <2>6. PICK d : d = due
    OBVIOUS
  <2>7. Follows(o \o p, d)
    BY <2>1, <2>5, <2>6 DEF Inv, Linked
  <2>8. Follows(p, Tip(o, d))
    BY <1>1, <2>3, <2>7, FollowsConcat
  <2>9. p # <<>>
    BY <1>1
  <2> QED
    BY <1>2, <2>4, <2>6, <2>8, <2>9 DEF Follows
<1>15. /\ redirect'["Fetch2"].out = redirect["Fetch2"].out
       /\ redirect'["Fetch2"].stall = redirect["Fetch2"].stall
       /\ redirect'["Fetch2"].flush = redirect["Fetch2"].flush
  BY <1>6, <1>7
<1>16. ASSUME NEW s \in Redirectors
       PROVE  /\ redirect'[s].out = redirect[s].out
              /\ redirect'[s].stall = redirect[s].stall
              /\ redirect'[s].flush = redirect[s].flush
              /\ s # "Fetch2" => redirect'[s].in = redirect[s].in
  <2>1. CASE s = "Fetch2"
    BY <1>15, <2>1
  <2>2. CASE s # "Fetch2"
    BY <1>7, <2>2
  <2> QED
    BY <2>1, <2>2
<1>17. redirect'["Fetch2"].in # <<>>
  BY <1>6, <1>7, <1>8
<1> QED
  BY <1>1, <1>2, <1>3, <1>7, <1>12, <1>13, <1>14, <1>16, <1>17

LEMMA Fetch2Keeps == ASSUME Inv, Fetch2 PROVE Inv'
<1>1. /\ phase = "Fetch2" /\ phase' = "Fetch1"
      /\ UNCHANGED <<program, conf, fetch, decodeQueue, toDispatch, acks, back>>
  BY Fetch2Buffers
<1>2. /\ pcRegister' = pcRegister /\ iCache' = iCache /\ fetch1' = fetch1
      /\ ackFetch2' = ackFetch2 /\ ackDecode' = ackDecode
      /\ robIdle' = robIdle /\ redirects' = redirects /\ inFlight' = inFlight /\ due' = due
  BY <1>1 DEF fetch, acks, back
<1>3. PICK S, p2, de, di : /\ S = Insns(program)
                           /\ p2 = Package(program, FetchByteWidth \div 2)
                           /\ de = Package(program, conf.decodeWidth)
                           /\ di = Package(program, conf.dispatchWidth)
  OBVIOUS
<1>4. /\ S = Insns(program)' /\ de = Package(program, conf.decodeWidth)'
      /\ di = Package(program, conf.dispatchWidth)'
      /\ p2 = Package(program, FetchByteWidth \div 2)'
  <2>1. S = Insns(program)'
    BY <1>1, <1>3, MemoryKept
  <2> QED
    BY <1>1, <1>3, <2>1 DEF Package
<1>5. PICK d \in Seq(S), h \in Seq(S), n \in Seq(S) :
        d = OfDecode /\ h = OfFetch2 /\ n = OfFetch1
  BY <1>3, StreamParts DEF Inv
<1>6. n = Flat(toFetch2.out) /\ d = decodeQueue
  BY <1>1, <1>5 DEF OfFetch1, OfDecode
<1>7. /\ toDecode' \in Latch(de)
      /\ toDecode'.flush <=> toDecode.flush
      /\ IF toDecode'.stall
         THEN toDecode'.in = <<>> /\ OffersOf(toDecode'.out, insnBuffer')
         ELSE OffersOf(toDecode'.in, insnBuffer')
      /\ insnBuffer' \in Seq(S) /\ Len(insnBuffer') <= conf.instrBufferSize
  BY <1>3, Fetch2Buffers
<1>8. Early /\ Early'
  BY <1>1 DEF Early
<1>9. OfDecode' = d /\ OfFetch2' = insnBuffer'
  BY <1>1, <1>6 DEF OfDecode, OfFetch2
<1>10. toFetch2.in = <<>> /\ toFetch2 \in Latch(p2) /\ ~toFetch2.stall
  BY <1>1, <1>3 DEF Inv, Protocol, Shape, Early
<1>11. Offers'
  BY <1>1, <1>2, <1>7 DEF Inv, Offers, OffersOf, Begins
<1>12. CASE toFetch2.out # <<>> /\ insnBuffer' = OfFetch2 /\ Replay(toFetch2.out[1])
  <2>1. /\ redirect' \in [Redirectors -> Latch(Nat)]
        /\ \A s \in Redirectors :
             /\ redirect'[s].out = redirect[s].out
             /\ redirect'[s].stall = redirect[s].stall
             /\ redirect'[s].flush = redirect[s].flush
             /\ s # "Fetch2" => redirect'[s].in = redirect[s].in
        /\ redirect'["Fetch2"].in # <<>>
        /\ flushSync' = flushSync \union {"Fetch1"}
        /\ toFetch2' = Flush(toFetch2)
        /\ Flushing => redirect'[Winner(InStages)'].in = redirect[Winner(InStages)].in
        /\ ~Flushing => redirect'[Winner(InStages)'].in = <<toFetch2.out[1][1].pc>>
        /\ toFetch2.out[1][1].pc \in Nat
        /\ ~Flushing => toFetch2.out[1][1].pc = Tip(OfDecode \o OfFetch2, due)
    BY <1>1, <1>12, ReplayIs
  <2>2. /\ toFetch2' \in Latch(p2) /\ toFetch2'.in = <<>> /\ toFetch2'.flush
        /\ ~toFetch2'.stall
    BY <1>10, <2>1, FlushIs
  <2>3. Shape'
    BY <1>1, <1>2, <1>4, <1>7, <2>1, <2>2 DEF Inv, Shape
  <2>4. /\ "Fetch2" \in Redirectors /\ "Fetch1" \in Redirectors
        /\ "Issue" \in Redirectors /\ "Commit" \in Redirectors
    BY DEF Redirectors, Rank
  <2>5. Protocol'
    BY <1>1, <1>2, <1>7, <1>8, <2>1, <2>2, <2>4 DEF Inv, Protocol, Flushing
  <2>6. Flushing' <=> Flushing
    BY <2>1 DEF Flushing
  <2>7. Stream' = d \o h
    <3>1. OfFetch1' = <<>>
      BY <1>1, <2>2 DEF OfFetch1
    <3>2. d \o h \in Seq(S)
      BY ConcatProperties
    <3>3. Stream' = (d \o h) \o <<>>
      BY <1>5, <1>9, <1>12, <3>1 DEF Stream
    <3> QED
      BY <3>2, <3>3, ConcatEmptySeq
  <2>8. PICK g : g = Tip(d \o h, due)
    OBVIOUS
  <2>9. ~Flushing => Follows(d \o h, due)
    <3>1. d \o h \in Seq(S) /\ Stream = (d \o h) \o n
      BY <1>5, ConcatProperties DEF Stream
    <3> QED
      BY <3>1, FollowsConcat DEF Inv, Linked
  <2>10. Linked'
    BY <1>2, <2>6, <2>7, <2>9 DEF Linked, Follows
  <2>11. Timing' /\ Fetching'
    BY <1>1, <1>8, <2>1, FetchKept DEF Inv
  <2>12. Goal' = redirect'[Winner(InStages)'].in[1] /\ "Fetch1" \in flushSync'
    <3>1. CASE Flushing
      <4>1. Goal' = due /\ Goal = due
        BY <1>2, <2>6, <3>1 DEF Goal
      <4>2. "Fetch1" \in flushSync
        BY <3>1 DEF Inv, Protocol
      <4>3. due = redirect[Winner(InStages)].in[1]
        BY <4>1, <4>2 DEF Inv, Aimed, Meets
      <4> QED
        BY <2>1, <3>1, <4>1, <4>3
    <3>2. CASE ~Flushing
      <4>1. Goal' = Tip(d \o h, due)
        BY <1>2, <2>6, <2>7, <3>2 DEF Goal, Tip
      <4>2. toFetch2.out[1][1].pc = Tip(d \o h, due)
        BY <1>5, <2>1, <3>2
      <4>3. redirect'[Winner(InStages)'].in[1] = toFetch2.out[1][1].pc
        BY <2>1, <3>2
      <4> QED
        BY <2>1, <4>1, <4>2, <4>3
    <3> QED
      BY <3>1, <3>2
  <2>13. Aimed'
    BY <2>12 DEF Aimed, Meets
  <2> QED
    BY <1>11, <2>3, <2>5, <2>10, <2>11, <2>13 DEF Inv
<1>13. CASE insnBuffer' = OfFetch2 \o Flat(toFetch2.out) /\ UNCHANGED <<redirect, flushSync, toFetch2>>
  <2>1. Shape'
    BY <1>1, <1>2, <1>3, <1>4, <1>7, <1>13 DEF Inv, Shape
  <2>2. Protocol'
    BY <1>1, <1>2, <1>7, <1>8, <1>13 DEF Inv, Protocol, Flushing
  <2>3. Flushing' <=> Flushing
    BY <1>13 DEF Flushing
  <2>4. Stream' = Stream
    <3>1. OfFetch1' = <<>>
      BY <1>1, <1>10, <1>13 DEF OfFetch1, Flat
    <3>2. d \o (h \o n) \in Seq(S)
      BY ConcatProperties
    <3>3. Stream' = (d \o (h \o n)) \o <<>>
      BY <1>5, <1>6, <1>9, <1>13, <3>1 DEF Stream
    <3>4. Stream = (d \o h) \o n
      BY <1>5 DEF Stream
    <3>5. Associative(d, h, n)
      BY Associates
    <3> QED
      BY <3>2, <3>3, <3>4, <3>5, ConcatEmptySeq DEF Associative
  <2>5. Linked'
    BY <1>2, <2>3, <2>4 DEF Inv, Linked, Follows
  <2>6. Timing' /\ Fetching'
    BY <1>1, <1>8, <1>13, FetchKept DEF Inv
  <2>7. Aimed'
    <3>1. PICK tip : tip = Goal
      OBVIOUS
    <3>2. Goal' = tip
      BY <1>2, <2>3, <2>4, <3>1 DEF Goal, Tip
    <3>3. Meets(tip)'
      BY <1>1, <1>8, <1>13, <3>1, MeetsKept DEF Inv, Aimed
    <3> QED
      BY <3>2, <3>3 DEF Aimed
  <2> QED
    BY <1>11, <2>1, <2>2, <2>5, <2>6, <2>7 DEF Inv
<1> QED
  BY <1>12, <1>13, Fetch2Buffers

-----------------------------------------------------------------------------
(* The end of the tick.                                                    *)

Cache ==
  [in : Port(Answer), out : Port(Answer), queue : Port([data : Answer, wait : {0}]),
   stall : {FALSE}, flush : {FALSE}]
FetcherOf(S) ==
  [queue : Seq(S), header : Nat, excpTag : Nat, half : Port(Nat),
   state : {"Idle", "HandleExcp", "WaitForResume"}]
Fetcher == FetcherOf(Entry)

Waiting(a, n) == [data |-> a, wait |-> n]

LEMMA WaitingIs ==
  ASSUME NEW a \in Answer
  PROVE  /\ Waiting(a, 0) \in [data : Answer, wait : {0}]
         /\ Waiting(a, 0).data = a /\ Waiting(a, 0).wait = 0 /\ Waiting(a, 1).wait = 1
         /\ Aged(<<Waiting(a, 0)>>) = <<Waiting(a, 0)>>
         /\ Aged(<<Waiting(a, 1)>>) = <<Waiting(a, 0)>>
<1>1. /\ Waiting(a, 0) \in [data : Answer, wait : {0}]
      /\ Waiting(a, 0).data = a /\ Waiting(a, 0).wait = 0 /\ Waiting(a, 1).wait = 1
  BY DEF Waiting
<1>2. ASSUME NEW n \in {0, 1}
      PROVE  Aged(<<Waiting(a, n)>>) = <<Waiting(a, 0)>>
  <2> DEFINE x == Waiting(a, n)
  <2>1. [x EXCEPT !.wait = IF x.wait = 0 THEN 0 ELSE x.wait - 1] = Waiting(a, 0)
    BY DEF Waiting
  <2>2. Len(<<x>>) = 1 /\ <<x>>[1] = x
    OBVIOUS
  <2>3. Aged(<<x>>) = [i \in 1 .. 1 |-> Waiting(a, 0)]
    BY <2>1, <2>2 DEF Aged
  <2>4. [i \in 1 .. 1 |-> Waiting(a, 0)] = <<Waiting(a, 0)>>
    OBVIOUS
  <2> QED
    BY <2>3, <2>4
<1> QED
  BY <1>1, <1>2

LEMMA OneIs ==
  ASSUME NEW x
  PROVE  /\ <<x>> # <<>> /\ Head(<<x>>) = x /\ Tail(<<x>>) = <<>> /\ <<x>>[1] = x
         /\ Append(<<>>, x) = <<x>> /\ Len(<<x>>) = 1
<1>1. /\ <<x>> # <<>> /\ Head(<<x>>) = x /\ <<x>>[1] = x /\ Len(<<x>>) = 1
  OBVIOUS
<1>2. Append(<<>>, x) = <<x>>
  OBVIOUS
<1>3. Tail(<<x>>) = <<>>
  OBVIOUS
<1> QED
  BY <1>1, <1>2, <1>3

LEMMA PairIs ==
  ASSUME NEW x, NEW y
  PROVE  /\ Append(<<x>>, y) = <<x, y>> /\ <<x, y>> # <<>>
         /\ Head(<<x, y>>) = x /\ Tail(<<x, y>>) = <<y>>
<1>1. /\ <<x, y>> # <<>> /\ Head(<<x, y>>) = x
  OBVIOUS
<1>2. Append(<<x>>, y) = <<x, y>>
  <2>1. <<x>> \in Seq({x, y}) /\ <<x, y>> \in Seq({x, y}) /\ Len(<<x>>) = 1
        /\ <<x>>[1] = x /\ <<x, y>>[1] = x /\ <<x, y>>[2] = y /\ Len(<<x, y>>) = 2
    OBVIOUS
  <2>2. PICK s \in Seq({x, y}) : s = <<x>>
    BY <2>1
  <2>3. PICK t \in Seq({x, y}) : t = Append(s, y)
    BY AppendProperties
  <2>4. Len(t) = 2 /\ t[1] = x /\ t[2] = y
    BY <2>1, <2>2, <2>3, AppendProperties
  <2>5. \A i \in 1 .. Len(t) : t[i] = <<x, y>>[i]
    BY <2>1, <2>4
  <2>6. t = <<x, y>>
    BY <2>1, <2>4, <2>5, SeqEqual
  <2> QED
    BY <2>2, <2>3, <2>6
<1>3. Tail(<<x, y>>) = <<y>>
  OBVIOUS
<1> QED
  BY <1>1, <1>2, <1>3

LEMMA CacheAdvances ==
  ASSUME NEW b \in Cache, NEW latency \in {1, 2}, latency = 1 => b.queue = <<>>
  PROVE  /\ Advance(b, latency) \in Cache
         /\ Advance(b, latency).in = <<>>
         /\ latency = 1 => /\ Advance(b, latency).queue = <<>>
                           /\ Advance(b, latency).out = b.in
         /\ latency = 2 => /\ Advance(b, latency).out = Ready(b.queue)
                           /\ Ready(Advance(b, latency).queue) = b.in
<1> DEFINE W == [data : Answer, wait : {0}]
           pushed == IF b.in = <<>> THEN b.queue
                     ELSE Append(b.queue, Waiting(b.in[1], latency - 1))
           o == IF pushed # <<>> /\ Head(pushed).wait = 0
                THEN <<Head(pushed).data>> ELSE <<>>
           q == Aged(IF pushed # <<>> /\ Head(pushed).wait = 0
                     THEN Tail(pushed) ELSE pushed)
<1>0. Advance(b, latency) = Shifted(b, latency)
  <2>1. b.flush = FALSE /\ b.stall = FALSE
    BY DEF Cache
  <2>2. latency # 0
    OBVIOUS
  <2> QED
    BY <2>1, <2>2 DEF Advance
<1>1. Advance(b, latency) = [b EXCEPT !.in = <<>>, !.out = o, !.queue = q]
  BY <1>0 DEF Shifted, Waiting
<1>2. /\ b.in \in Port(Answer) /\ b.queue \in Port(W)
      /\ b.in = <<>> \/ (b.in[1] \in Answer /\ b.in = <<b.in[1]>>)
      /\ b.queue = <<>> \/ (b.queue[1] \in W /\ b.queue = <<b.queue[1]>>)
  BY PortIs, ZenonT(40) DEF Cache
<1>3. Aged(<<>>) = <<>>
  BY DEF Aged
<1> HIDE DEF pushed, o, q
<1>4. /\ pushed = <<>> => o = <<>> /\ q = <<>>
      /\ pushed # <<>> /\ Head(pushed).wait = 0 =>
           o = <<Head(pushed).data>> /\ q = Aged(Tail(pushed))
      /\ pushed # <<>> /\ Head(pushed).wait # 0 => o = <<>> /\ q = Aged(pushed)
  BY <1>3 DEF o, q
<1>5. /\ b.in = <<>> => pushed = b.queue
      /\ b.in # <<>> => pushed = Append(b.queue, Waiting(b.in[1], latency - 1))
  BY DEF pushed
<1>6. \A x \in W : x.wait = 0 /\ x.data \in Answer /\ x = Waiting(x.data, 0)
  BY DEF Waiting
<1>7. /\ q \in Port(W) /\ o \in Port(Answer)
      /\ latency = 1 => q = <<>> /\ o = b.in
      /\ latency = 2 => o = Ready(b.queue) /\ Ready(q) = b.in
  <2>1. CASE b.in = <<>> /\ b.queue = <<>>
    <3>1. q = <<>> /\ o = <<>>
      BY <1>4, <1>5, <2>1
    <3> QED
      BY <2>1, <3>1, PortIs DEF Ready
  <2>2. CASE b.in = <<>> /\ b.queue # <<>>
    <3>1. PICK x \in W : b.queue = <<x>>
      BY <1>2, <2>2
    <3>2. latency = 2
      BY <2>2
    <3>3. q = <<>> /\ o = <<x.data>>
      <4>1. pushed = <<x>>
        BY <1>5, <2>2, <3>1
      <4>2. /\ <<x>> # <<>> /\ Head(<<x>>) = x /\ Tail(<<x>>) = <<>>
            /\ x.wait = 0
        BY <1>6, OneIs
      <4> QED
        BY <1>3, <1>4, <4>1, <4>2
    <3>4. Ready(b.queue) = <<x.data>> /\ Ready(<<>>) = <<>>
      BY <2>2, <3>1, OneIs DEF Ready
    <3>5. <<x.data>> \in Port(Answer) /\ <<>> \in Port(W)
      BY <1>6, PortIs
    <3> QED
      BY <2>2, <3>2, <3>3, <3>4, <3>5
  <2>3. CASE b.in # <<>> /\ b.queue = <<>>
    <3>1. PICK a \in Answer : b.in = <<a>> /\ b.in[1] = a
      BY <1>2, <2>3
    <3>2. pushed = <<Waiting(a, latency - 1)>>
      BY <1>5, <2>3, <3>1, OneIs
    <3>3. <<a>> \in Port(Answer) /\ <<>> \in Port(W) /\ <<>> \in Port(Answer)
          /\ <<Waiting(a, 0)>> \in Port(W) /\ Waiting(a, 0) \in W
      BY PortIs, WaitingIs
    <3>4. CASE latency = 1
      <4>1. pushed = <<Waiting(a, 0)>>
        BY <3>2, <3>4
      <4>2. q = <<>> /\ o = <<a>>
        <5> DEFINE w == Waiting(a, 0)
        <5>1. /\ <<w>> # <<>> /\ Head(<<w>>) = w /\ Tail(<<w>>) = <<>>
              /\ w.wait = 0 /\ w.data = a
          BY OneIs, WaitingIs
        <5> QED
          BY <1>3, <1>4, <4>1, <5>1
      <4> QED
        BY <3>1, <3>3, <3>4, <4>2
    <3>5. CASE latency = 2
      <4>1. pushed = <<Waiting(a, 1)>>
        BY <3>2, <3>5
      <4>2. o = <<>> /\ q = <<Waiting(a, 0)>>
        <5> DEFINE w == Waiting(a, 1)
        <5>1. /\ <<w>> # <<>> /\ Head(<<w>>) = w /\ w.wait = 1
              /\ Aged(<<w>>) = <<Waiting(a, 0)>>
          BY OneIs, WaitingIs
        <5> QED
          BY <1>4, <4>1, <5>1
      <4>3. Ready(q) = <<a>> /\ Ready(b.queue) = <<>>
        BY <2>3, <4>2, OneIs, WaitingIs DEF Ready
      <4> QED
        BY <3>1, <3>3, <3>5, <4>2, <4>3
    <3> QED
      BY <3>4, <3>5
  <2>4. CASE b.in # <<>> /\ b.queue # <<>>
    <3>1. PICK a \in Answer : b.in = <<a>> /\ b.in[1] = a
      BY <1>2, <2>4
    <3>2. PICK x \in W : b.queue = <<x>>
      BY <1>2, <2>4
    <3>3. latency = 2
      BY <2>4
    <3>4. pushed = <<x, Waiting(a, 1)>>
      <4>1. latency - 1 = 1
        BY <3>3
      <4>2. pushed = Append(<<x>>, Waiting(a, 1))
        BY <1>5, <2>4, <3>1, <3>2, <4>1
      <4> QED
        BY <4>2, PairIs
    <3>5. o = <<x.data>> /\ q = <<Waiting(a, 0)>>
      <4> DEFINE w == Waiting(a, 1)
      <4>1. /\ <<x, w>> # <<>> /\ Head(<<x, w>>) = x /\ Tail(<<x, w>>) = <<w>>
            /\ x.wait = 0 /\ Aged(<<w>>) = <<Waiting(a, 0)>>
        BY <1>6, PairIs, WaitingIs
      <4> QED
        BY <1>4, <3>4, <4>1
    <3>6. Ready(q) = <<a>> /\ Ready(b.queue) = <<x.data>>
      BY <3>2, <3>5, OneIs, WaitingIs DEF Ready
    <3>7. <<x.data>> \in Port(Answer) /\ <<Waiting(a, 0)>> \in Port(W)
      BY <1>6, PortIs, WaitingIs
    <3> QED
      BY <3>1, <3>3, <3>5, <3>6, <3>7
  <2> QED
    BY <2>1, <2>2, <2>3, <2>4
<1>8. PICK c : c = [b EXCEPT !.in = <<>>, !.out = o, !.queue = q]
  OBVIOUS
<1>9. <<>> \in Port(Answer)
  BY PortIs
<1>10. c \in Cache /\ c.in = <<>> /\ c.out = o /\ c.queue = q
  BY <1>7, <1>8, <1>9 DEF Cache
<1> QED
  BY <1>1, <1>7, <1>8, <1>10

\* KillNewer from the oldest entry on: nothing in flight counts any more.
LEMMA AllKilled ==
  ASSUME NEW f \in FetcherOf(Slot), Len(f.queue) < conf.inflightQueueSize,
         NEW k \in Nat, k >= 1
  PROVE  /\ KillNewer(f, k) \in FetcherOf(Slot)
         /\ KillNewer(f, k).half = f.half /\ KillNewer(f, k).state = f.state
         /\ KillNewer(f, k).header = f.header /\ KillNewer(f, k).excpTag = f.excpTag
         /\ Len(KillNewer(f, k).queue) = Len(f.queue)
         /\ \A i \in 1 .. Len(f.queue) :
              /\ KillNewer(f, k).queue[i].address = f.queue[i].address
              /\ KillNewer(f, k).queue[i].busy = f.queue[i].busy
              /\ KillNewer(f, k).queue[i].excp = f.queue[i].excp
              /\ KillNewer(f, k).queue[i].killed <=> f.queue[i].killed \/ i >= k
<1> DEFINE q == [j \in 1 .. Len(f.queue) |->
                   [f.queue[j] EXCEPT !.killed = @ \/ j >= k]]
<1>1. KillNewer(f, k) = [f EXCEPT !.queue = q]
  <2>1. ~QueueFull(f) /\ DOMAIN f.queue = 1 .. Len(f.queue)
    BY DEF QueueFull, FetcherOf
  <2> QED
    BY <2>1 DEF KillNewer
<1>2. ASSUME NEW j \in 1 .. Len(f.queue)
      PROVE  /\ q[j] \in Slot /\ (q[j].killed <=> f.queue[j].killed \/ j >= k)
             /\ q[j].address = f.queue[j].address /\ q[j].busy = f.queue[j].busy
             /\ q[j].excp = f.queue[j].excp
  <2>1. f.queue[j] \in Slot
    BY DEF FetcherOf
  <2>2. PICK d \in BOOLEAN : d <=> f.queue[j].killed \/ j >= k
    OBVIOUS
  <2>3. PICK e : e = [f.queue[j] EXCEPT !.killed = d]
    OBVIOUS
  <2>4. /\ e \in Slot /\ e.killed = d /\ e.address = f.queue[j].address
        /\ e.busy = f.queue[j].busy /\ e.excp = f.queue[j].excp
    BY <2>1, <2>3 DEF Slot
  <2>5. q[j] = e
    BY <2>1, <2>2, <2>3 DEF Slot
  <2> QED
    BY <2>2, <2>4, <2>5
<1>3. Len(f.queue) \in Nat
  BY DEF FetcherOf
<1> HIDE DEF q
<1>4. q \in Seq(Slot) /\ Len(q) = Len(f.queue)
  <2>1. q \in [1 .. Len(f.queue) -> Slot] /\ DOMAIN q = 1 .. Len(f.queue)
    BY <1>2 DEF q
  <2> QED
    BY <1>3, <2>1
<1>5. PICK g : g = [f EXCEPT !.queue = q]
  OBVIOUS
<1>6. /\ g \in FetcherOf(Slot) /\ g.queue = q /\ g.half = f.half
      /\ g.state = f.state /\ g.header = f.header /\ g.excpTag = f.excpTag
  BY <1>4, <1>5 DEF FetcherOf
<1> QED
  BY <1>1, <1>2, <1>4, <1>5, <1>6

LEMMA EntriesAre ==
  ASSUME NEW f \in FetcherOf(Slot),
         \A i \in 1 .. Len(f.queue) :
           /\ f.queue[i].busy <=> f.queue[i].address % 2 = 0
           /\ f.queue[i].excp <=> f.queue[i].address % 2 = 1
  PROVE  f \in Fetcher
<1>1. f.queue \in Seq(Slot)
  BY DEF FetcherOf
<1>2. \A i \in 1 .. Len(f.queue) : f.queue[i] \in Entry
  BY <1>1 DEF Entry
<1>3. f.queue \in Seq(Entry)
  <2>1. PICK q \in Seq(Slot) : q = f.queue
    BY <1>1
  <2>2. q \in [1 .. Len(q) -> Entry] /\ Len(q) \in Nat
    BY <1>2, <2>1
  <2> QED
    BY <2>1, <2>2
<1> QED
  BY <1>3 DEF Fetcher, FetcherOf

LEMMA FetcherIs ==
  ASSUME NEW f \in Fetcher
  PROVE  /\ f \in FetcherOf(Slot) /\ f.queue \in Seq(Entry) /\ f.half \in Port(Nat)
         /\ Len(f.queue) \in Nat
         /\ \A i \in 1 .. Len(f.queue) :
              /\ f.queue[i] \in Slot
              /\ f.queue[i].address \in Nat /\ f.queue[i].killed \in BOOLEAN
              /\ f.queue[i].busy <=> f.queue[i].address % 2 = 0
              /\ f.queue[i].excp <=> f.queue[i].address % 2 = 1
<1>1. f.queue \in Seq(Entry) /\ f.half \in Port(Nat) /\ Len(f.queue) \in Nat
  BY DEF Fetcher, FetcherOf
<1>2. \A i \in 1 .. Len(f.queue) : f.queue[i] \in Entry
  BY <1>1
<1>3. Entry \subseteq Slot
  BY DEF Entry
<1>4. f.queue \in Seq(Slot)
  <2>1. PICK q \in Seq(Entry) : q = f.queue
    BY <1>1
  <2>2. q \in [1 .. Len(q) -> Slot] /\ Len(q) \in Nat
    BY <1>3, <2>1
  <2> QED
    BY <2>1, <2>2
<1>5. f \in FetcherOf(Slot)
  BY <1>4 DEF Fetcher, FetcherOf
<1>6. \A e \in Entry : /\ e \in Slot /\ e.address \in Nat /\ e.killed \in BOOLEAN
                       /\ e.busy <=> e.address % 2 = 0
                       /\ e.excp <=> e.address % 2 = 1
  <2>1. SUFFICES ASSUME NEW e \in Entry
                 PROVE  /\ e \in Slot /\ e.address \in Nat /\ e.killed \in BOOLEAN
                        /\ e.busy <=> e.address % 2 = 0
                        /\ e.excp <=> e.address % 2 = 1
    OBVIOUS
  <2>2. /\ e \in Slot
        /\ e.busy <=> e.address % 2 = 0
        /\ e.excp <=> e.address % 2 = 1
    BY DEF Entry
  <2>3. e.address \in Nat /\ e.killed \in BOOLEAN
    BY <2>2 DEF Slot
  <2> QED
    BY <2>2, <2>3
<1>7. ASSUME NEW i \in 1 .. Len(f.queue)
      PROVE  /\ f.queue[i] \in Slot
             /\ f.queue[i].address \in Nat /\ f.queue[i].killed \in BOOLEAN
             /\ f.queue[i].busy <=> f.queue[i].address % 2 = 0
             /\ f.queue[i].excp <=> f.queue[i].address % 2 = 1
  <2>1. PICK e \in Entry : e = f.queue[i]
    BY <1>2
  <2> QED
    BY <1>6, <2>1
<1> QED
  BY <1>1, <1>5, <1>7

LEMMA FlushedIs ==
  ASSUME NEW f \in Fetcher, Len(f.queue) < conf.inflightQueueSize
  PROVE  /\ Flushed(f) \in Fetcher /\ Idle(Flushed(f))
         /\ Flushed(f).header = f.header
         /\ Len(Flushed(f).queue) = Len(f.queue)
         /\ \A i \in 1 .. Len(f.queue) :
              /\ Flushed(f).queue[i].address = f.queue[i].address
              /\ Flushed(f).queue[i].busy = f.queue[i].busy
<1>1. PICK g \in FetcherOf(Slot) :
        /\ g = KillNewer(f, 1) /\ g.header = f.header
        /\ Len(g.queue) = Len(f.queue)
        /\ \A i \in 1 .. Len(f.queue) :
             /\ g.queue[i].address = f.queue[i].address
             /\ g.queue[i].busy = f.queue[i].busy
             /\ g.queue[i].excp = f.queue[i].excp
             /\ g.queue[i].killed <=> f.queue[i].killed \/ i >= 1
  BY FetcherIs, AllKilled
<1>2. PICK h : h = [g EXCEPT !.half = <<>>, !.excpTag = 0, !.state = "Idle"]
  OBVIOUS
<1>3. Flushed(f) = h
  BY <1>1, <1>2 DEF Flushed
<1>4. <<>> \in Port(Nat)
  BY PortIs
<1>5. /\ h \in FetcherOf(Slot) /\ h.queue = g.queue /\ h.half = <<>> /\ h.state = "Idle"
      /\ h.header = g.header
  BY <1>2, <1>4 DEF FetcherOf
<1>6. \A i \in 1 .. Len(f.queue) : g.queue[i].killed
  BY <1>1
<1>7. Idle(h)
  BY <1>1, <1>5, <1>6 DEF Idle, Live
<1>8. \A i \in 1 .. Len(h.queue) :
        /\ h.queue[i].busy <=> h.queue[i].address % 2 = 0
        /\ h.queue[i].excp <=> h.queue[i].address % 2 = 1
  BY <1>1, <1>5, FetcherIs, SMTT(40)
<1>9. h \in Fetcher
  BY <1>5, <1>8, EntriesAre
<1> QED
  BY <1>1, <1>3, <1>5, <1>7, <1>9

LEMMA EmptyLatch ==
  ASSUME NEW S, NEW b \in Latch(S), b.in = <<>>, b.out = <<>>, ~b.stall, ~b.flush
  PROVE  b = Empty
<1>1. b = [in |-> b.in, out |-> b.out, queue |-> b.queue, stall |-> b.stall, flush |-> b.flush]
  BY DEF Latch
<1>2. b.queue = <<>> /\ b.stall = FALSE /\ b.flush = FALSE
  BY DEF Latch
<1> QED
  BY <1>1, <1>2 DEF Empty

\* The latches when the tick ends.
LEMMA TickLatches ==
  ASSUME Inv, ShortLatency, TickAdvances
  PROVE  /\ pcRegister' \in Latch(Nat) /\ ~pcRegister'.stall /\ ~pcRegister'.flush
         /\ pcRegister'.in = <<>>
         /\ "Fetch1" \notin flushSync => pcRegister'.out = pcRegister.in
         /\ "Fetch1" \in flushSync => pcRegister' = Empty
         /\ iCache' \in Cache /\ iCache'.in = <<>>
         /\ conf.iCacheLatency = 1 => iCache'.queue = <<>>
         /\ Sooner' = Sooner /\ Later' = Later
         /\ redirect' \in [Redirectors -> Latch(Nat)]
         /\ \A s \in Redirectors : /\ redirect'[s].out = redirect[s].in
                                   /\ redirect'[s].in = <<>>
                                   /\ ~redirect'[s].stall /\ ~redirect'[s].flush
<1>1. /\ phase = "Advance" /\ phase' = "IEW"
      /\ pcRegister' = PcAdvanced
      /\ iCache' = Advance(iCache, conf.iCacheLatency)
      /\ redirect' = [s \in Redirectors |-> Advance(redirect[s], 1)]
      /\ conf' = conf
  BY PhaseIs DEF TickAdvances
<1>2. /\ pcRegister \in Latch(Nat) /\ ~pcRegister.stall /\ ~pcRegister.flush
      /\ iCache \in Cache
      /\ redirect \in [Redirectors -> Latch(Nat)]
      /\ \A s \in Redirectors : ~redirect[s].stall /\ ~redirect[s].flush
      /\ conf.iCacheLatency = 1 => iCache.queue = <<>>
  BY DEF Inv, Shape, Timing, Cache
<1>3. conf.iCacheLatency \in {1, 2}
  BY ConfsAssumption, SMTT(40) DEF ShortLatency, Inv, Shape
<1>4. PICK r : r = Advance(pcRegister, 1)
  OBVIOUS
<1>5. r \in Latch(Nat) /\ ~r.stall /\ ~r.flush /\ r.in = <<>> /\ r.out = pcRegister.in
  BY <1>2, <1>4, AdvanceIs
<1>6. PICK k : k = [r EXCEPT !.out = <<>>]
  OBVIOUS
<1>7. k \in Latch(Nat) /\ ~k.stall /\ ~k.flush /\ k.in = <<>> /\ k.out = <<>>
  BY <1>5, <1>6, PortIs DEF Latch
<1>8. pcRegister' = IF "Fetch1" \in flushSync THEN k ELSE r
  BY <1>1, <1>4, <1>6 DEF PcAdvanced, KillOut
<1>9. /\ pcRegister' \in Latch(Nat) /\ ~pcRegister'.stall /\ ~pcRegister'.flush
      /\ pcRegister'.in = <<>>
      /\ "Fetch1" \notin flushSync => pcRegister'.out = pcRegister.in
      /\ "Fetch1" \in flushSync => pcRegister'.out = <<>> /\ pcRegister' = Empty
  <2>1. CASE "Fetch1" \in flushSync
    <3>1. pcRegister' = k
      BY <1>8, <2>1
    <3>2. k = Empty
      BY <1>7, EmptyLatch
    <3> QED
      BY <1>7, <2>1, <3>1, <3>2
  <2>2. CASE "Fetch1" \notin flushSync
    BY <1>5, <1>8, <2>2
  <2> QED
    BY <2>1, <2>2
<1>10. PICK c : c = iCache'
  OBVIOUS
<1>11. /\ c \in Cache /\ c.in = <<>>
       /\ conf.iCacheLatency = 1 => c.queue = <<>> /\ c.out = iCache.in
       /\ conf.iCacheLatency = 2 => c.out = Ready(iCache.queue) /\ Ready(c.queue) = iCache.in
  BY <1>1, <1>2, <1>3, <1>10, CacheAdvances
<1>12. ~Early /\ Early'
  BY <1>1 DEF Early
<1>13. Sooner' = Sooner /\ Later' = Later
  <2>1. Sooner' = c.out /\ Later' = IF conf.iCacheLatency = 1 THEN <<>> ELSE Ready(c.queue)
    BY <1>1, <1>10, <1>12 DEF Sooner, Later
  <2>2. Sooner = IF conf.iCacheLatency = 1 THEN iCache.in ELSE Ready(iCache.queue)
    BY <1>12 DEF Sooner
  <2>3. Later = IF conf.iCacheLatency = 1 THEN <<>> ELSE iCache.in
    BY <1>12 DEF Later
  <2> QED
    BY <1>3, <1>11, <2>1, <2>2, <2>3
<1>14. ASSUME NEW s \in Redirectors
       PROVE  /\ redirect'[s] \in Latch(Nat)
              /\ redirect'[s].out = redirect[s].in
              /\ redirect'[s].in = <<>>
              /\ ~redirect'[s].stall /\ ~redirect'[s].flush
  <2>1. redirect'[s] = Advance(redirect[s], 1)
    BY <1>1
  <2>2. redirect[s] \in Latch(Nat) /\ ~redirect[s].stall /\ ~redirect[s].flush
    BY <1>2
  <2> QED
    BY <2>1, <2>2, AdvanceIs
<1>15. redirect' \in [Redirectors -> Latch(Nat)]
  <2>1. redirect' = [s \in Redirectors |-> redirect'[s]]
    BY <1>1
  <2> QED
    BY <1>14, <2>1
<1> QED
  BY <1>9, <1>10, <1>11, <1>13, <1>14, <1>15

LEMMA TickKeeps == ASSUME Inv, ShortLatency, TickAdvances PROVE Inv'
<1>1. /\ phase = "Advance" /\ phase' = "IEW"
      /\ fetch1' = IF "Fetch1" \in flushSync THEN Flushed(fetch1) ELSE fetch1
      /\ insnBuffer'  = Advanced("Fetch2", insnBuffer)
      /\ decodeQueue' = Advanced("Decode", decodeQueue)
      /\ flushSync'   = {}
      /\ toFetch2'    = Advance(toFetch2, 1)
      /\ toDecode'    = Advance(toDecode, 1)
      /\ toDispatch'  = Advance(toDispatch, 1)
      /\ ackFetch2'   = Advance(ackFetch2, 0)
      /\ ackDecode'   = Advance(ackDecode, 0)
      /\ robIdle' = TRUE
      /\ UNCHANGED <<program, conf, redirects, inFlight, due>>
  BY PhaseIs DEF TickAdvances
<1>2. PICK S, p2, de, di : /\ S = Insns(program)
                           /\ p2 = Package(program, FetchByteWidth \div 2)
                           /\ de = Package(program, conf.decodeWidth)
                           /\ di = Package(program, conf.dispatchWidth)
  OBVIOUS
<1>3. /\ S = Insns(program)' /\ de = Package(program, conf.decodeWidth)'
      /\ di = Package(program, conf.dispatchWidth)'
      /\ p2 = Package(program, FetchByteWidth \div 2)'
  <2>1. S = Insns(program)'
    BY <1>1, <1>2, MemoryKept
  <2> QED
    BY <1>1, <1>2, <2>1 DEF Package
<1>4. /\ toFetch2 \in Latch(p2) /\ ~toFetch2.stall
      /\ toDecode \in Latch(de) /\ toDispatch \in Latch(di)
      /\ ackFetch2 \in Latch(Nat) /\ ~ackFetch2.stall /\ ~ackFetch2.flush
      /\ ackDecode \in Latch(Nat) /\ ~ackDecode.stall /\ ~ackDecode.flush
      /\ fetch1 \in Fetcher /\ Len(fetch1.queue) <= conf.iCacheLatency
  BY <1>2 DEF Inv, Shape, Fetcher, FetcherOf
<1>5. /\ conf.iCacheLatency \in Nat \ {0} /\ conf.inflightQueueSize \in Nat
      /\ conf.instrBufferSize \in Nat /\ conf.decodeQueueSize \in Nat
      /\ conf.inflightQueueSize >= conf.iCacheLatency + 1
      /\ conf.decodeWidth \in Nat \ {0} /\ conf.dispatchWidth \in Nat \ {0}
  BY ConfsAssumption DEF Inv, Shape
<1>6. Len(fetch1.queue) < conf.inflightQueueSize
  BY <1>4, <1>5 DEF Fetcher, FetcherOf
<1>7. /\ fetch1' \in Fetcher /\ fetch1'.header = fetch1.header
      /\ Len(fetch1'.queue) = Len(fetch1.queue)
      /\ \A i \in 1 .. Len(fetch1.queue) :
           /\ fetch1'.queue[i].address = fetch1.queue[i].address
           /\ fetch1'.queue[i].busy <=> fetch1.queue[i].busy
      /\ "Fetch1" \in flushSync => Idle(fetch1')
  <2>1. CASE "Fetch1" \in flushSync
    BY <1>1, <1>4, <1>6, <2>1, FlushedIs
  <2>2. CASE "Fetch1" \notin flushSync
    BY <1>1, <1>4, <2>2
  <2> QED
    BY <2>1, <2>2
<1>8. /\ toFetch2' \in Latch(p2) /\ ~toFetch2'.stall /\ ~toFetch2'.flush
      /\ toFetch2'.in = <<>>
      /\ toFetch2.flush => toFetch2'.out = <<>>
      /\ ~toFetch2.flush => toFetch2'.out = toFetch2.in
  BY <1>1, <1>4, AdvanceIs, EmptyIs
<1>9. /\ toDecode' \in Latch(de) /\ ~toDecode'.stall /\ ~toDecode'.flush
      /\ toDecode'.in = <<>>
      /\ OffersOf(toDecode'.out, insnBuffer')
  <2>1. CASE Flushing
    <3>1. toDecode.flush
      BY <2>1 DEF Inv, Protocol
    <3> QED
      BY <1>1, <1>4, <3>1, AdvanceIs, EmptyIs DEF OffersOf
  <2>2. CASE ~Flushing
    <3>1. ~toDecode.flush /\ insnBuffer' = insnBuffer
      BY <1>1, <2>2 DEF Inv, Protocol, Advanced
    <3>2. IF toDecode.stall THEN toDecode.in = <<>> /\ OffersOf(toDecode.out, insnBuffer)
          ELSE OffersOf(toDecode.in, insnBuffer)
      BY <1>1 DEF Inv, Offers
    <3>3. CASE toDecode.stall
      BY <1>1, <1>4, <3>1, <3>2, <3>3, AdvanceIs
    <3>4. CASE ~toDecode.stall
      BY <1>1, <1>4, <3>1, <3>2, <3>4, AdvanceIs
    <3> QED
      BY <3>3, <3>4
  <2> QED
    BY <2>1, <2>2
<1>10. /\ toDispatch' \in Latch(di) /\ ~toDispatch'.stall /\ ~toDispatch'.flush
       /\ toDispatch'.in = <<>>
       /\ OffersOf(toDispatch'.out, decodeQueue')
  <2>1. CASE Flushing
    <3>1. toDispatch.flush
      BY <2>1 DEF Inv, Protocol
    <3> QED
      BY <1>1, <1>4, <3>1, AdvanceIs, EmptyIs DEF OffersOf
  <2>2. CASE ~Flushing
    <3>1. ~toDispatch.flush /\ decodeQueue' = decodeQueue
      BY <1>1, <2>2 DEF Inv, Protocol, Advanced, Flushing
    <3>2. IF toDispatch.stall THEN toDispatch.in = <<>> /\ OffersOf(toDispatch.out, decodeQueue)
          ELSE OffersOf(toDispatch.in, decodeQueue)
      BY <1>1 DEF Inv, Offers
    <3>3. CASE toDispatch.stall
      BY <1>1, <1>4, <3>1, <3>2, <3>3, AdvanceIs
    <3>4. CASE ~toDispatch.stall
      BY <1>1, <1>4, <3>1, <3>2, <3>4, AdvanceIs
    <3> QED
      BY <3>3, <3>4
  <2> QED
    BY <2>1, <2>2
<1>11. /\ ackFetch2' \in Latch(Nat) /\ ackFetch2'.in = <<>>
       /\ ~ackFetch2'.stall /\ ~ackFetch2'.flush
       /\ ackDecode' \in Latch(Nat) /\ ackDecode'.in = <<>>
       /\ ~ackDecode'.stall /\ ~ackDecode'.flush
  BY <1>1, <1>4, AcknowledgeIs
<1>12. /\ insnBuffer' \in Seq(S) /\ Len(insnBuffer') <= conf.instrBufferSize
       /\ decodeQueue' \in Seq(S) /\ Len(decodeQueue') <= conf.decodeQueueSize
  <2>1. /\ insnBuffer \in Seq(S) /\ Len(insnBuffer) <= conf.instrBufferSize
        /\ decodeQueue \in Seq(S) /\ Len(decodeQueue) <= conf.decodeQueueSize
    BY <1>2 DEF Inv, Shape
  <2>2. <<>> \in Seq(S) /\ Len(<<>>) = 0
    OBVIOUS
  <2>3. \/ insnBuffer' = insnBuffer \/ insnBuffer' = <<>>
    BY <1>1 DEF Advanced
  <2>4. \/ decodeQueue' = decodeQueue \/ decodeQueue' = <<>>
    BY <1>1 DEF Advanced
  <2>5. insnBuffer' \in Seq(S) /\ Len(insnBuffer') <= conf.instrBufferSize
    <3>1. CASE insnBuffer' = insnBuffer
      BY <2>1, <3>1
    <3>2. CASE insnBuffer' = <<>>
      BY <1>5, <2>2, <3>2
    <3> QED
      BY <2>3, <3>1, <3>2
  <2>6. decodeQueue' \in Seq(S) /\ Len(decodeQueue') <= conf.decodeQueueSize
    <3>1. CASE decodeQueue' = decodeQueue
      BY <2>1, <3>1
    <3>2. CASE decodeQueue' = <<>>
      BY <1>5, <2>2, <3>2
    <3> QED
      BY <2>4, <3>1, <3>2
  <2> QED
    BY <2>5, <2>6
<1>14. /\ pcRegister' \in Latch(Nat) /\ ~pcRegister'.stall /\ ~pcRegister'.flush
       /\ pcRegister'.in = <<>>
       /\ "Fetch1" \notin flushSync => pcRegister'.out = pcRegister.in
       /\ "Fetch1" \in flushSync => pcRegister' = Empty
       /\ iCache' \in Cache /\ iCache'.in = <<>>
       /\ conf.iCacheLatency = 1 => iCache'.queue = <<>>
       /\ Sooner' = Sooner /\ Later' = Later
       /\ redirect' \in [Redirectors -> Latch(Nat)]
       /\ \A s \in Redirectors : /\ redirect'[s].out = redirect[s].in
                                 /\ redirect'[s].in = <<>>
                                 /\ ~redirect'[s].stall /\ ~redirect'[s].flush
  BY TickLatches
<1>17. Shape'
  <2>1. due \in Nat \union {Nowhere} /\ redirects \in Nat /\ inFlight \in BOOLEAN
        /\ program \in Programs /\ conf \in Confs /\ fetch1.header < conf.inflightQueueSize
    BY DEF Inv, Shape
  <2> QED
    BY <1>1, <1>3, <1>4, <1>7, <1>8, <1>9, <1>10, <1>11, <1>12, <1>14, <2>1
       DEF Shape, Fetcher, FetcherOf, Cache
<1>18. ~Early /\ Early' /\ ~Flushing'
  BY <1>1 DEF Early, Flushing
<1>19. /\ "Fetch2" \in Redirectors /\ "Fetch1" \in Redirectors
       /\ "Issue" \in Redirectors /\ "Commit" \in Redirectors
  BY DEF Redirectors, Rank
<1>20. Protocol'
  BY <1>1, <1>8, <1>9, <1>10, <1>11, <1>14, <1>18, <1>19 DEF Protocol
<1>21. Offers'
  BY <1>1, <1>9, <1>10 DEF Offers, OffersOf, Begins
<1>22. /\ Flushing => Stream' = <<>>
       /\ ~Flushing => Stream' = Stream
  <2>1. OfDecode' = decodeQueue' /\ OfFetch2' = insnBuffer' /\ OfFetch1' = Flat(toFetch2'.out)
    BY <1>1 DEF OfDecode, OfFetch2, OfFetch1
  <2>2. CASE Flushing
    <3>1. decodeQueue' = <<>> /\ insnBuffer' = <<>> /\ toFetch2.flush
      BY <1>1, <2>2 DEF Inv, Protocol, Advanced, Flushing
    <3>2. Flat(toFetch2'.out) = <<>>
      BY <1>8, <3>1 DEF Flat
    <3>3. Stream' = <<>> \o <<>> \o <<>>
      BY <2>1, <3>1, <3>2 DEF Stream
    <3>4. <<>> \o <<>> = <<>>
      OBVIOUS
    <3> QED
      BY <2>2, <3>3, <3>4
  <2>3. CASE ~Flushing
    <3>1. decodeQueue' = decodeQueue /\ insnBuffer' = insnBuffer
      BY <1>1, <2>3 DEF Inv, Protocol, Advanced, Flushing
    <3>2. OfDecode = decodeQueue /\ OfFetch2 = insnBuffer
          /\ OfFetch1 = IF toFetch2.flush THEN <<>> ELSE Flat(toFetch2.in)
      BY <1>1 DEF OfDecode, OfFetch2, OfFetch1
    <3>3. Flat(toFetch2'.out) = OfFetch1
      BY <1>8, <3>2 DEF Flat
    <3> QED
      BY <2>1, <2>3, <3>1, <3>2, <3>3 DEF Stream
  <2> QED
    BY <2>2, <2>3
<1>23. Linked'
  <2>1. Follows(<<>>, due)
    BY DEF Follows
  <2>2. Follows(Stream', due)
    <3>1. CASE Flushing
      BY <1>22, <2>1, <3>1
    <3>2. CASE ~Flushing
      BY <1>22, <3>2 DEF Inv, Linked
    <3> QED
      BY <3>1, <3>2
  <2> QED
    BY <1>1, <2>2 DEF Linked, Follows
<1>24. Goal' = Goal
  <2>1. Goal' = Tip(Stream', due)
    BY <1>1, <1>18 DEF Goal, Tip
  <2>2. Tip(<<>>, due) = due
    BY DEF Tip
  <2> QED
    BY <1>22, <2>1, <2>2 DEF Goal
<1>25. End' = End /\ \A a : NextLine(a)' = NextLine(a)
  BY <1>1, MemoryKept
<1>26. Timing'
  <2>1. \A i : i \in 1 .. Len(fetch1'.queue) <=> i \in 1 .. Len(fetch1.queue)
    BY <1>7
  <2>2. \A a, i : Answers(a, fetch1, i)' <=> Answers(a, fetch1, i)
    BY <1>1, <1>7, <1>25, <2>1 DEF Answers, Tag
  <2>3. Pending(fetch1, Sooner, Later)
    BY DEF Inv, Timing
  <2>4. Pending(fetch1, Sooner, Later)'
    BY <1>4, <1>7, <1>14, <2>2, <2>3 DEF Pending, Fetcher, FetcherOf
  <2> QED
    BY <1>1, <1>14, <2>4 DEF Timing
<1>27. Redirected' <=> "Fetch1" \in flushSync
  BY <1>14 DEF Redirected, Inv, Protocol
<1>28. CASE "Fetch1" \in flushSync
  <2>1. pcRegister' = Empty
    BY <1>14, <1>28
  <2>2. Idle(fetch1)'
    BY <1>7, <1>28 DEF Idle, Live
  <2>3. Fetching'
    BY <1>14, <1>18, <1>27, <1>28, <2>1, <2>2 DEF Fetching
  <2>4. OutStages' = InStages
    BY <1>14 DEF OutStages, InStages
  <2>5. Winner(OutStages)' = Winner(InStages)
    BY <2>4 DEF Winner
  <2>6. InStages # {} /\ InStages \subseteq Redirectors
    BY <1>28 DEF Inv, Protocol, InStages
  <2>7. Winner(InStages) \in Redirectors
    BY <2>6, WinnerExists
  <2>8. Goal = redirect[Winner(InStages)].in[1]
    BY <1>28 DEF Inv, Aimed, Meets
  <2>9. Goal' = redirect'[Winner(OutStages)'].out[1]
    BY <1>14, <1>24, <2>5, <2>7, <2>8
  <2>10. Aimed'
    BY <1>1, <1>18, <1>27, <1>28, <2>9 DEF Aimed, Meets
  <2> QED
    BY <1>17, <1>20, <1>21, <1>23, <1>26, <2>3, <2>10 DEF Inv
<1>29. CASE "Fetch1" \notin flushSync
  <2>1. fetch1' = fetch1 /\ pcRegister'.out = pcRegister.in /\ pcRegister'.in = <<>>
    BY <1>1, <1>14, <1>29
  <2>2. pcRegister.in # <<>>
    BY <1>18 DEF Inv, Protocol
  <2>3. PICK pc : pc = pcRegister.in[1] /\ pc = pcRegister'.out[1]
    BY <2>1
  <2>4. Path(fetch1, pc, Later)
    BY <1>18, <1>29, <2>3 DEF Inv, Fetching
  <2>5. \A x : Run(fetch1, x)' <=> Run(fetch1, x)
    BY <1>1, <1>25, <2>1, SMTT(40) DEF Run, Live, Idle, Aim
  <2>6. Path(fetch1, pc, Later)'
    BY <1>14, <2>1, <2>4, <2>5 DEF Path, Live
  <2>7. Fetching'
    BY <1>18, <1>27, <1>29, <2>1, <2>2, <2>3, <2>6 DEF Fetching
  <2>8. PICK g : g = Goal
    OBVIOUS
  <2>9. Reaches(fetch1, pc, g)
    BY <1>18, <1>29, <2>2, <2>3, <2>8 DEF Inv, Aimed, Meets
  <2>10. Reaches(fetch1, pc, g)'
    BY <1>25, <2>1, <2>9 DEF Reaches, Aim, Live
  <2>11. Meets(g)'
    BY <1>1, <1>18, <1>27, <1>29, <2>1, <2>3, <2>10 DEF Meets
  <2>12. Goal' = g
    BY <1>24, <2>8
  <2>13. Aimed'
    BY <2>11, <2>12 DEF Aimed
  <2> QED
    BY <1>17, <1>20, <1>21, <1>23, <1>26, <2>7, <2>13 DEF Inv
<1> QED
  BY <1>28, <1>29

-----------------------------------------------------------------------------
(* Processor::Reset.                                                       *)

LEMMA InitKeeps == ASSUME Init PROVE Inv
<1>1. /\ program \in Programs /\ conf \in Confs /\ phase = "IEW"
      /\ pcRegister = Set(Empty, BootPc) /\ iCache = Empty /\ fetch1 = Fetch1Reset
      /\ insnBuffer = <<>> /\ decodeQueue = <<>>
      /\ toFetch2 = Empty /\ toDecode = Empty /\ toDispatch = Empty
      /\ ackFetch2 = Empty /\ ackDecode = Empty
      /\ redirect = [s \in Redirectors |-> Empty]
      /\ flushSync = {} /\ robIdle = TRUE /\ redirects = 0 /\ inFlight = FALSE
      /\ due = BootPc
  BY DEF Init, InitBootPc, ConnectPipeline, Phases
<1>2. BootPc \in Nat
  BY AddressAssumption
<1>3. /\ Set(Empty, BootPc) \in Latch(Nat)
      /\ Set(Empty, BootPc).in = <<BootPc>> /\ Set(Empty, BootPc).out = <<>>
      /\ ~Set(Empty, BootPc).stall /\ ~Set(Empty, BootPc).flush
  BY <1>2, EmptyIs, SetIs, SMTT(40)
<1>4. Empty \in Cache
  BY PortIs DEF Cache, Empty
<1>5. /\ fetch1 \in Fetcher /\ fetch1.queue = <<>> /\ fetch1.header = 0
      /\ fetch1.state = "Idle" /\ fetch1.half = <<>>
  <2>1. <<>> \in Seq(Entry) /\ <<>> \in Port(Nat)
    BY PortIs
  <2> QED
    BY <1>1, <2>1 DEF Fetch1Reset, Fetcher, FetcherOf
<1>6. /\ conf.iCacheLatency \in Nat \ {0} /\ conf.inflightQueueSize \in Nat
      /\ conf.instrBufferSize \in Nat /\ conf.decodeQueueSize \in Nat
      /\ conf.inflightQueueSize >= conf.iCacheLatency + 1
  BY <1>1, ConfsAssumption
<1>7. \A S : <<>> \in Seq(S) /\ Len(<<>>) = 0
  OBVIOUS
<1>8. /\ "Fetch2" \in Redirectors /\ "Fetch1" \in Redirectors
      /\ "Issue" \in Redirectors /\ "Commit" \in Redirectors
  BY DEF Redirectors, Rank
<1>9. \A s \in Redirectors : redirect[s] = Empty
  BY <1>1
<1>10. Early /\ ~Flushing /\ ~Redirected
  BY <1>1, <1>9, EmptyIs DEF Early, Flushing, Redirected
<1>11. Shape
  <2>1. redirect \in [Redirectors -> Latch(Nat)]
    BY <1>1, EmptyIs
  <2>2. Len(fetch1.queue) = 0 /\ Len(insnBuffer) = 0 /\ Len(decodeQueue) = 0
    BY <1>1, <1>5, <1>7
  <2>3. iCache \in Cache
    BY <1>1, <1>4
  <2>4. insnBuffer \in Seq(Insns(program)) /\ decodeQueue \in Seq(Insns(program))
    BY <1>1, <1>7
  <2>5. fetch1.header < conf.inflightQueueSize /\ 0 <= conf.iCacheLatency
        /\ 0 <= conf.instrBufferSize /\ 0 <= conf.decodeQueueSize
    BY <1>5, <1>6
  <2> QED
    BY <1>1, <1>2, <1>3, <1>5, <1>9, <2>1, <2>2, <2>3, <2>4, <2>5, EmptyIs
       DEF Shape, Fetcher, FetcherOf, Cache
<1>12. Protocol
  BY <1>1, <1>3, <1>8, <1>9, <1>10, EmptyIs DEF Protocol
<1>13. Offers
  BY <1>1, EmptyIs DEF Offers, OffersOf
<1>14. Stream = <<>>
  <2>1. OfDecode = <<>> /\ OfFetch2 = <<>> /\ OfFetch1 = <<>>
    BY <1>1, EmptyIs DEF OfDecode, OfFetch2, OfFetch1, Flat
  <2>2. <<>> \o <<>> = <<>>
    OBVIOUS
  <2> QED
    BY <2>1, <2>2 DEF Stream
<1>15. Linked
  BY <1>14 DEF Linked, Follows
<1>16. Timing
  <2>1. Len(fetch1.queue) = 0
    BY <1>5, <1>7
  <2>2. Sooner = <<>> /\ Later = <<>>
    BY <1>1, <1>10, EmptyIs DEF Sooner, Later, Ready, Empty
  <2>3. Pending(fetch1, Sooner, Later)
    BY <2>1, <2>2 DEF Pending
  <2> QED
    BY <1>1, <2>3 DEF Timing, Empty
<1>17. Fetching
  BY <1>1, <1>3, <1>10 DEF Fetching
<1>18. Aimed
  <2>1. Goal = BootPc
    BY <1>1, <1>10, <1>14 DEF Goal, Tip
  <2>2. pcRegister.in # <<>> /\ pcRegister.in[1] = BootPc
    BY <1>1, <1>3
  <2>3. ~Live(fetch1, 1) /\ ~Live(fetch1, 2)
    BY <1>5, <1>7 DEF Live
  <2>4. Reaches(fetch1, BootPc, BootPc)
    BY <1>5, <2>3 DEF Reaches, Aim
  <2> QED
    BY <1>1, <1>10, <2>1, <2>2, <2>4 DEF Aimed, Meets
<1> QED
  BY <1>11, <1>12, <1>13, <1>15, <1>16, <1>17, <1>18 DEF Inv

-----------------------------------------------------------------------------
(* Fetch1: the answer of the instruction cache.                            *)

\* Entry i of f has its answer.
Settle(f, i, fault) == [f EXCEPT !.queue[i].busy = FALSE, !.queue[i].excp = fault]

LEMMA AnswerIs ==
  ASSUME NEW f \in FetcherOf(Slot), NEW i \in 1 .. Len(f.queue), NEW fault \in BOOLEAN,
         NEW g, g = Settle(f, i, fault)
  PROVE  /\ g \in FetcherOf(Slot) /\ g.header = f.header /\ g.state = f.state
         /\ g.half = f.half /\ Len(g.queue) = Len(f.queue)
         /\ ~g.queue[i].busy /\ g.queue[i].excp = fault
         /\ \A j \in 1 .. Len(f.queue) :
              /\ g.queue[j].address = f.queue[j].address
              /\ g.queue[j].killed = f.queue[j].killed
              /\ j # i => g.queue[j] = f.queue[j]
<1>1. f.queue \in Seq(Slot) /\ f.queue[i] \in Slot /\ Len(f.queue) \in Nat
  BY DEF FetcherOf
<1>2. PICK e : e = [f.queue[i] EXCEPT !.busy = FALSE, !.excp = fault]
  OBVIOUS
<1>3. /\ e \in Slot /\ ~e.busy /\ e.excp = fault
      /\ e.address = f.queue[i].address /\ e.killed = f.queue[i].killed
  BY <1>1, <1>2 DEF Slot
<1>4. PICK q : q = [f.queue EXCEPT ![i] = e]
  OBVIOUS
<1>5. /\ q \in Seq(Slot) /\ Len(q) = Len(f.queue) /\ q[i] = e
      /\ \A j \in 1 .. Len(f.queue) : j # i => q[j] = f.queue[j]
  BY <1>1, <1>3, <1>4
<1>6. PICK k : k = [f EXCEPT !.queue = q]
  OBVIOUS
<1>7. /\ k \in FetcherOf(Slot) /\ k.header = f.header /\ k.state = f.state
      /\ k.half = f.half /\ k.queue = q
  BY <1>5, <1>6 DEF FetcherOf
<1>8. [f EXCEPT !.queue[i].busy = FALSE, !.queue[i].excp = fault] = k
  <2>1. PICK h : h = [f EXCEPT !.queue[i].busy = FALSE]
    OBVIOUS
  <2>2. PICK d : d = [f.queue[i] EXCEPT !.busy = FALSE]
    OBVIOUS
  <2>3. PICK p : p = [f.queue EXCEPT ![i] = d]
    OBVIOUS
  <2>4. h = [f EXCEPT !.queue = p] /\ h.queue = p /\ p[i] = d
    <3>1. h = [f EXCEPT !.queue = p]
      BY <2>1, <2>2, <2>3
    <3>2. h.queue = p
      BY <3>1 DEF FetcherOf
    <3>3. p[i] = d
      BY <1>1, <2>3
    <3> QED
      BY <3>1, <3>2, <3>3
  <2>5. e = [d EXCEPT !.excp = fault]
    BY <1>2, <2>2
  <2>6. q = [p EXCEPT ![i] = e]
    BY <1>1, <1>4, <2>3
  <2>7. k = [h EXCEPT !.queue = q]
    BY <1>6, <2>4 DEF FetcherOf
  <2>8. [h EXCEPT !.queue[i].excp = fault] = [h EXCEPT !.queue = [p EXCEPT ![i] = [d EXCEPT !.excp = fault]]]
    BY <2>4
  <2>9. [h EXCEPT !.queue[i].excp = fault] = k
    BY <2>5, <2>6, <2>7, <2>8
  <2> QED
    BY <2>1, <2>9
<1> QED
  BY <1>3, <1>5, <1>7, <1>8 DEF Settle

LEMMA Wraps ==
  ASSUME NEW w \in Nat, w >= 2, NEW h \in Nat, h < w
  PROVE  /\ h % w = h /\ (h + 1) % w \in Nat /\ (h + 1) % w < w /\ (h + 1) % w # h
         /\ ((h + 1) % w) % w = (h + 1) % w
<1>1. PICK r : r = (h + 1) % w
  OBVIOUS
<1>2. r = IF h + 1 = w THEN 0 ELSE h + 1
  <2>1. CASE h + 1 = w
    BY <1>1, <2>1
  <2>2. CASE h + 1 # w
    BY <1>1, <2>2
  <2> QED
    BY <2>1, <2>2
<1>3. r \in Nat /\ r < w /\ r # h
  BY <1>2
<1>4. h % w = h /\ r % w = r
  BY <1>3
<1> QED
  BY <1>1, <1>3, <1>4

LEMMA TagIs ==
  ASSUME NEW f, f.header \in Nat, conf.inflightQueueSize \in Nat,
         f.header < conf.inflightQueueSize, conf.inflightQueueSize >= 2
  PROVE  /\ Tag(f, 1) = f.header
         /\ Tag(f, 2) = (f.header + 1) % conf.inflightQueueSize
         /\ Tag(f, 2) \in Nat /\ Tag(f, 2) < conf.inflightQueueSize
         /\ Tag(f, 1) # Tag(f, 2)
<1>1. PICK h \in Nat, w \in Nat : h = f.header /\ w = conf.inflightQueueSize
  OBVIOUS
<1>2. h + 1 - 1 = h /\ h + 2 - 1 = h + 1 /\ w >= 2 /\ h < w
  BY <1>1
<1>3. Tag(f, 1) = h % w /\ Tag(f, 2) = (h + 1) % w
  BY <1>1, <1>2 DEF Tag
<1> QED
  BY <1>1, <1>2, <1>3, Wraps

\* What is known of the fetches when Fetch1 runs.
LEMMA Fetches1 ==
  ASSUME Inv, ShortLatency, phase = "Fetch1"
  PROVE  /\ fetch1 \in Fetcher /\ fetch1.header < conf.inflightQueueSize
         /\ conf.iCacheLatency \in {1, 2}
         /\ Len(fetch1.queue) <= conf.iCacheLatency
         /\ conf.inflightQueueSize \in Nat
         /\ conf.inflightQueueSize >= conf.iCacheLatency + 1
         /\ iCache \in Cache /\ iCache.in = <<>> /\ Sooner = iCache.out
         /\ Later = IF conf.iCacheLatency = 1 THEN <<>> ELSE Ready(iCache.queue)
         /\ Pending(fetch1, Sooner, Later)
         /\ fetch1.state = "Idle" \/ Sooner = <<>>
         /\ Live(fetch1, 1) => /\ ~Redirected /\ pcRegister.out # <<>> /\ pcRegister.in = <<>>
                               /\ Path(fetch1, pcRegister.out[1], Later)
<1>1. /\ fetch1 \in Fetcher /\ fetch1.header < conf.inflightQueueSize
      /\ Len(fetch1.queue) <= conf.iCacheLatency /\ iCache \in Cache
  BY DEF Inv, Shape, Fetcher, FetcherOf, Cache
<1>2. /\ conf.iCacheLatency \in {1, 2} /\ conf.inflightQueueSize \in Nat
      /\ conf.inflightQueueSize >= conf.iCacheLatency + 1
  BY ConfsAssumption, SMTT(40) DEF ShortLatency, Inv, Shape
<1>3. Early /\ iCache.in = <<>>
  BY DEF Early, Inv, Protocol
<1>4. Sooner = iCache.out /\ Later = IF conf.iCacheLatency = 1 THEN <<>> ELSE Ready(iCache.queue)
  BY <1>3 DEF Sooner, Later
<1>5. Pending(fetch1, Sooner, Later)
  BY DEF Inv, Timing
<1>6. \/ Redirected /\ Idle(fetch1)
      \/ ~Redirected /\ pcRegister.in # <<>> /\ fetch1 = Fetch1Reset
      \/ ~Redirected /\ pcRegister.in = <<>> /\ pcRegister.out # <<>>
         /\ Path(fetch1, pcRegister.out[1], Later)
  BY <1>3 DEF Inv, Fetching
<1>7. ~Live(Fetch1Reset, 1)
  <2>1. Fetch1Reset.queue = <<>> /\ Len(<<>>) = 0
    BY DEF Fetch1Reset
  <2> QED
    BY <2>1 DEF Live
<1>8. Len(fetch1.queue) \in Nat
      /\ \A i \in 1 .. Len(fetch1.queue) :
           fetch1.queue[i].busy <=> fetch1.queue[i].address % 2 = 0
  BY <1>1, FetcherIs
<1>9. Sooner # <<>> => 1 \in 1 .. Len(fetch1.queue) /\ fetch1.queue[1].busy
                       /\ fetch1.queue[1].address % 2 = 0
  BY <1>5, <1>8 DEF Pending, Answers
<1>10. fetch1.state = "Idle" \/ Sooner = <<>>
  <2>1. Fetch1Reset.state = "Idle"
    BY DEF Fetch1Reset
  <2>2. Len(<<>>) = 0
    OBVIOUS
  <2> QED
    BY <1>6, <1>9, <2>1, <2>2 DEF Idle, Path
<1>11. Live(fetch1, 1) => ~Idle(fetch1)
  BY DEF Live, Idle
<1> QED
  BY <1>1, <1>2, <1>3, <1>4, <1>5, <1>6, <1>7, <1>10, <1>11

\* The oldest fetch turns out to be past the end of memory.
Kills == Sooner # <<>> /\ fetch1.queue[1].address >= End

LEMMA AnsweredIs ==
  ASSUME Inv, ShortLatency, phase = "Fetch1"
  PROVE  /\ ICacheAnswers \in FetcherOf(Slot)
         /\ ICacheAnswers.header = fetch1.header /\ ICacheAnswers.state = fetch1.state
         /\ ICacheAnswers.half = fetch1.half
         /\ Len(ICacheAnswers.queue) = Len(fetch1.queue)
         /\ \A j \in 1 .. Len(fetch1.queue) :
              /\ ICacheAnswers.queue[j].address = fetch1.queue[j].address
              /\ ICacheAnswers.queue[j].killed <=> fetch1.queue[j].killed \/ Kills
              /\ j # 1 => /\ ICacheAnswers.queue[j].busy = fetch1.queue[j].busy
                          /\ ICacheAnswers.queue[j].excp = fetch1.queue[j].excp
         /\ Sooner = <<>> => ICacheAnswers = fetch1
         /\ Sooner # <<>> =>
              /\ 1 \in 1 .. Len(fetch1.queue) /\ fetch1.queue[1].busy
              /\ ~ICacheAnswers.queue[1].busy
              /\ ICacheAnswers.queue[1].excp <=> Kills
<1>1. /\ fetch1 \in Fetcher /\ fetch1.header < conf.inflightQueueSize
      /\ conf.iCacheLatency \in {1, 2}
      /\ Len(fetch1.queue) <= conf.iCacheLatency
      /\ conf.inflightQueueSize \in Nat
      /\ conf.inflightQueueSize >= conf.iCacheLatency + 1
      /\ iCache \in Cache /\ Sooner = iCache.out
      /\ Pending(fetch1, Sooner, Later)
      /\ fetch1.state = "Idle" \/ Sooner = <<>>
  BY Fetches1
<1>2. fetch1 \in FetcherOf(Slot) /\ Len(fetch1.queue) \in Nat
  BY <1>1, FetcherIs
<1>3. CASE Sooner = <<>>
  BY <1>1, <1>2, <1>3 DEF ICacheAnswers, Kills
<1>4. CASE Sooner # <<>>
  <2>1. PICK a : a = iCache.out[1]
    OBVIOUS
  <2>2. a \in Answer
    BY <1>1, <1>4, <2>1, PortIs DEF Cache
  <2>3. /\ 1 \in 1 .. Len(fetch1.queue) /\ a.tag = Tag(fetch1, 1)
        /\ fetch1.queue[1].busy /\ (a.fault <=> Kills)
    BY <1>1, <1>4, <2>1 DEF Pending, Answers, Kills
  <2>4. PICK i : i = CHOOSE j \in 1 .. Len(fetch1.queue) : Tag(fetch1, j) = a.tag
    OBVIOUS
  <2>5. i = 1
    <3>1. Tag(fetch1, 1) # Tag(fetch1, 2)
      BY <1>1, <1>2, TagIs DEF FetcherOf
    <3>2. \A j \in 1 .. Len(fetch1.queue) : j = 1 \/ j = 2
      BY <1>1, <1>2
    <3> QED
      BY <2>3, <2>4, <3>1, <3>2
  <2>6. PICK b, g : b = a.fault /\ g = Settle(fetch1, i, b)
    OBVIOUS
  <2>7. /\ g \in FetcherOf(Slot) /\ g.header = fetch1.header /\ g.state = fetch1.state
        /\ g.half = fetch1.half /\ Len(g.queue) = Len(fetch1.queue)
        /\ ~g.queue[1].busy /\ g.queue[1].excp = a.fault
        /\ \A j \in 1 .. Len(fetch1.queue) :
             /\ g.queue[j].address = fetch1.queue[j].address
             /\ g.queue[j].killed = fetch1.queue[j].killed
             /\ j # 1 => g.queue[j] = fetch1.queue[j]
    <3>1. b \in BOOLEAN /\ i \in 1 .. Len(fetch1.queue)
      BY <2>2, <2>3, <2>5, <2>6 DEF Answer
    <3>2. /\ g \in FetcherOf(Slot) /\ g.header = fetch1.header /\ g.state = fetch1.state
          /\ g.half = fetch1.half /\ Len(g.queue) = Len(fetch1.queue)
          /\ ~g.queue[i].busy /\ g.queue[i].excp = b
          /\ \A j \in 1 .. Len(fetch1.queue) :
               /\ g.queue[j].address = fetch1.queue[j].address
               /\ g.queue[j].killed = fetch1.queue[j].killed
               /\ j # i => g.queue[j] = fetch1.queue[j]
      BY <1>2, <2>6, <3>1, AnswerIs
    <3> QED
      BY <2>5, <2>6, <3>2
  <2>8. ReceiveReq(fetch1, a) = IF a.fault THEN [KillNewer(g, 1) EXCEPT !.excpTag = a.tag] ELSE g
    <3>1. fetch1.state = "Idle"
      BY <1>1, <1>4
    <3>2. ReceiveReq(fetch1, a) = IF a.fault THEN [KillNewer(g, i) EXCEPT !.excpTag = a.tag] ELSE g
      BY <2>4, <2>6, <3>1 DEF ReceiveReq, Settle
    <3> QED
      BY <2>5, <3>2
  <2>9. ICacheAnswers = ReceiveReq(fetch1, a)
    BY <1>1, <1>4, <2>1 DEF ICacheAnswers
  <2>10. CASE ~a.fault
    <3>1. ICacheAnswers = g
      BY <2>8, <2>9, <2>10
    <3>2. \A j \in 1 .. Len(fetch1.queue) :
             (fetch1.queue[j].killed <=> fetch1.queue[j].killed \/ Kills)
      BY <2>3, <2>10
    <3> QED
      BY <1>4, <2>3, <2>7, <2>10, <3>1, <3>2
  <2>11. CASE a.fault
    <3>1. Len(g.queue) < conf.inflightQueueSize
      BY <1>1, <1>2, <2>7
    <3>2. PICK k \in FetcherOf(Slot) :
            /\ k = KillNewer(g, 1)
            /\ k.half = g.half /\ k.state = g.state /\ k.header = g.header
            /\ Len(k.queue) = Len(g.queue)
            /\ \A j \in 1 .. Len(g.queue) :
                 /\ k.queue[j].address = g.queue[j].address
                 /\ k.queue[j].busy = g.queue[j].busy
                 /\ k.queue[j].excp = g.queue[j].excp
                 /\ k.queue[j].killed <=> g.queue[j].killed \/ j >= 1
      BY <2>7, <3>1, AllKilled
    <3>3. PICK h : h = [k EXCEPT !.excpTag = a.tag]
      OBVIOUS
    <3>4. /\ h \in FetcherOf(Slot) /\ h.half = k.half /\ h.state = k.state
          /\ h.header = k.header /\ h.queue = k.queue
      <4>1. a.tag \in Nat
        BY <2>2 DEF Answer
      <4> QED
        BY <3>3, <4>1 DEF FetcherOf
    <3>5. ICacheAnswers = h
      BY <2>8, <2>9, <2>11, <3>2, <3>3
    <3>6. \A j \in 1 .. Len(fetch1.queue) : j >= 1
      BY <1>2
    <3>7. ASSUME NEW j \in 1 .. Len(fetch1.queue)
          PROVE  /\ h.queue[j].address = fetch1.queue[j].address
                 /\ h.queue[j].killed
                 /\ h.queue[j].busy = g.queue[j].busy
                 /\ h.queue[j].excp = g.queue[j].excp
                 /\ j # 1 => /\ h.queue[j].busy = fetch1.queue[j].busy
                             /\ h.queue[j].excp = fetch1.queue[j].excp
      BY <2>7, <3>2, <3>4, <3>6
    <3>8. Kills
      BY <2>3, <2>11
    <3>9. ~h.queue[1].busy /\ h.queue[1].excp
      BY <2>3, <2>7, <2>11, <3>7
    <3>10. /\ h \in FetcherOf(Slot) /\ h.half = fetch1.half /\ h.state = fetch1.state
           /\ h.header = fetch1.header /\ Len(h.queue) = Len(fetch1.queue)
      BY <2>7, <3>2, <3>4
    <3> QED
      BY <1>4, <2>3, <3>5, <3>7, <3>8, <3>9, <3>10
  <2> QED
    BY <2>10, <2>11
<1> QED
  BY <1>3, <1>4

-----------------------------------------------------------------------------
(* Fetch1: what leaves the queue.                                          *)

LEMMA PoppedIs ==
  ASSUME NEW f \in FetcherOf(Slot), Len(f.queue) >= 1,
         conf.inflightQueueSize \in Nat, conf.inflightQueueSize >= 2,
         f.header < conf.inflightQueueSize
  PROVE  /\ Popped(f) \in FetcherOf(Slot)
         /\ Popped(f).header = Tag(f, 2) /\ Tag(f, 2) < conf.inflightQueueSize
         /\ Popped(f).half = f.half /\ Popped(f).state = f.state
         /\ Len(Popped(f).queue) = Len(f.queue) - 1
         /\ \A i \in 1 .. (Len(f.queue) - 1) : Popped(f).queue[i] = f.queue[i + 1]
<1>1. f.queue \in Seq(Slot) /\ f.header \in Nat
  BY DEF FetcherOf
<1>2. PICK q : q = Tail(f.queue)
  OBVIOUS
<1>3. /\ q \in Seq(Slot) /\ Len(q) = Len(f.queue) - 1
      /\ \A i \in 1 .. (Len(f.queue) - 1) : q[i] = f.queue[i + 1]
  <2>1. f.queue # <<>>
    BY <1>1
  <2> QED
    BY <1>1, <1>2, <2>1, HeadTailProperties
<1>4. PICK h : h = (f.header + 1) % conf.inflightQueueSize
  OBVIOUS
<1>5. h = Tag(f, 2) /\ h \in Nat /\ h < conf.inflightQueueSize
  BY <1>1, <1>4, TagIs
<1>6. PICK g : g = [f EXCEPT !.queue = q, !.header = h]
  OBVIOUS
<1>7. /\ g \in FetcherOf(Slot) /\ g.queue = q /\ g.header = h
      /\ g.half = f.half /\ g.state = f.state
  BY <1>3, <1>5, <1>6 DEF FetcherOf
<1>8. Popped(f) = g
  BY <1>2, <1>4, <1>6 DEF Popped
<1> QED
  BY <1>3, <1>5, <1>7, <1>8

Stays(out) ==
  /\ out.fetch1 = fetch1 /\ out.package = <<>> /\ out.target = <<>>
  /\ Sooner = <<>>
  /\ Len(fetch1.queue) = 0
     \/ (Len(fetch1.queue) = 1 /\ fetch1.queue[1].busy /\ Later # <<>>)

\* The oldest fetch leaves the queue, f is what remains.
Leaves(f) ==
  /\ Len(fetch1.queue) >= 1 /\ Len(f.queue) = Len(fetch1.queue) - 1
  /\ f.header = Tag(fetch1, 2)
  /\ \A i \in 1 .. Len(f.queue) :
       /\ f.queue[i].address = fetch1.queue[i + 1].address
       /\ f.queue[i].busy = fetch1.queue[i + 1].busy
       /\ f.queue[i].excp = fetch1.queue[i + 1].excp
       /\ f.queue[i].killed <=> fetch1.queue[i + 1].killed \/ Kills
  /\ Later # <<>> => Len(fetch1.queue) = 2

Drops(out) ==
  /\ Leaves(out.fetch1)
  /\ fetch1.queue[1].killed \/ Kills
  /\ out.package = <<>> /\ out.target = <<>>
  /\ out.fetch1.half = fetch1.half /\ out.fetch1.state = fetch1.state

Faults(out) ==
  /\ Leaves(out.fetch1) /\ ~Kills /\ Live(fetch1, 1)
  /\ fetch1.queue[1].address % 2 = 1
  /\ out.package = <<FaultInsn(fetch1.queue[1].address)>> /\ out.target = <<>>
  /\ out.fetch1.half = fetch1.half /\ out.fetch1.state = "WaitForResume"

Hands(out) ==
  LET a == fetch1.queue[1].address
      c == [package |-> out.package, half |-> out.fetch1.half, target |-> out.target]
  IN  /\ Leaves(out.fetch1) /\ ~Kills /\ Live(fetch1, 1)
      /\ a % 2 = 0 /\ a < End
      /\ HalfOK(fetch1.half, a)
      /\ CutOK(c, IF fetch1.half = <<>> THEN a ELSE fetch1.half[1], NextLine(a))
      /\ Len(out.package) <= FetchByteWidth \div 2
      /\ out.fetch1.state = fetch1.state

LEMMA HalfFits ==
  ASSUME Inv, ShortLatency, phase = "Fetch1", Live(fetch1, 1),
         fetch1.queue[1].address % 2 = 0
  PROVE  HalfOK(fetch1.half, fetch1.queue[1].address) /\ fetch1.state = "Idle"
<1>1. Path(fetch1, pcRegister.out[1], Later)
  BY Fetches1
<1>2. fetch1 \in Fetcher
  BY Fetches1
<1>3. fetch1.queue[1].address \in Nat
  BY <1>2, FetcherIs DEF Live
<1>4. fetch1.state = "Idle" /\ Run(fetch1, pcRegister.out[1])
  <2>1. ~(fetch1.queue[1].address % 2 = 1)
    OBVIOUS
  <2>2. Live(fetch1, 1) => fetch1.queue # <<>>
    <3>1. Len(<<>>) = 0
      OBVIOUS
    <3> QED
      BY <3>1 DEF Live
  <2> QED
    BY <1>1, <2>1, <2>2 DEF Path
<1>5. Aim(fetch1, pcRegister.out[1]) = fetch1.queue[1].address
  BY DEF Aim
<1> QED
  BY <1>4, <1>5 DEF Run, HalfOK

LEMMA OutcomeIs ==
  ASSUME Inv, ShortLatency, phase = "Fetch1", NEW garbage \in BOOLEAN,
         NEW out, out = SendReq(ICacheAnswers, garbage)
  PROVE  /\ out.fetch1 \in FetcherOf(Slot)
         /\ out.fetch1.header < conf.inflightQueueSize
         /\ Len(out.fetch1.queue) <= conf.iCacheLatency - 1
         /\ Stays(out) \/ Drops(out) \/ Faults(out) \/ Hands(out)
<1>1. /\ fetch1 \in Fetcher /\ fetch1.header < conf.inflightQueueSize
      /\ conf.iCacheLatency \in {1, 2}
      /\ Len(fetch1.queue) <= conf.iCacheLatency
      /\ conf.inflightQueueSize \in Nat
      /\ conf.inflightQueueSize >= conf.iCacheLatency + 1
      /\ Later = IF conf.iCacheLatency = 1 THEN <<>> ELSE Ready(iCache.queue)
      /\ Pending(fetch1, Sooner, Later)
  BY Fetches1
<1>2. /\ fetch1 \in FetcherOf(Slot) /\ Len(fetch1.queue) \in Nat
      /\ \A i \in 1 .. Len(fetch1.queue) :
           /\ fetch1.queue[i].address \in Nat /\ fetch1.queue[i].killed \in BOOLEAN
           /\ fetch1.queue[i].busy <=> fetch1.queue[i].address % 2 = 0
           /\ fetch1.queue[i].excp <=> fetch1.queue[i].address % 2 = 1
  BY <1>1, FetcherIs
<1>3. PICK g \in FetcherOf(Slot) : g = ICacheAnswers
  BY AnsweredIs
<1>4. /\ g.header = fetch1.header /\ g.state = fetch1.state
      /\ g.half = fetch1.half /\ Len(g.queue) = Len(fetch1.queue)
      /\ \A j \in 1 .. Len(fetch1.queue) :
           /\ g.queue[j].address = fetch1.queue[j].address
           /\ g.queue[j].killed <=> fetch1.queue[j].killed \/ Kills
           /\ j # 1 => /\ g.queue[j].busy = fetch1.queue[j].busy
                       /\ g.queue[j].excp = fetch1.queue[j].excp
      /\ Sooner = <<>> => g = fetch1
      /\ Sooner # <<>> => /\ 1 \in 1 .. Len(fetch1.queue) /\ fetch1.queue[1].busy
                          /\ ~g.queue[1].busy
                          /\ g.queue[1].excp <=> Kills
  BY <1>3, AnsweredIs
<1>5. g.queue = <<>> <=> Len(fetch1.queue) = 0
  BY <1>2, <1>4 DEF FetcherOf
<1>6. CASE g.queue = <<>> \/ g.queue[1].busy
  <2>1. out.fetch1 = g /\ out.package = <<>> /\ out.target = <<>>
    BY <1>3, <1>6 DEF SendReq
  <2>2. Sooner = <<>> /\ g = fetch1
    BY <1>2, <1>4, <1>5, <1>6
  <2>3. Len(fetch1.queue) = 0
        \/ (Len(fetch1.queue) = 1 /\ fetch1.queue[1].busy /\ Later # <<>>)
    BY <1>1, <1>2, <1>5, <1>6, <2>2 DEF Pending
  <2>4. Len(fetch1.queue) <= conf.iCacheLatency - 1
    BY <1>1, <1>2, <2>3
  <2> QED
    BY <1>1, <1>2, <2>1, <2>2, <2>3, <2>4 DEF Stays
<1>7. CASE g.queue # <<>> /\ ~g.queue[1].busy
  <2>1. Len(fetch1.queue) >= 1 /\ 1 \in 1 .. Len(fetch1.queue)
    BY <1>2, <1>5, <1>7
  <2>2. PICK p \in FetcherOf(Slot) : p = Popped(g)
    BY <1>1, <1>4, <2>1, PoppedIs
  <2>3. /\ p.header = Tag(g, 2) /\ Tag(g, 2) < conf.inflightQueueSize
        /\ p.half = g.half /\ p.state = g.state
        /\ Len(p.queue) = Len(g.queue) - 1
        /\ \A i \in 1 .. (Len(g.queue) - 1) : p.queue[i] = g.queue[i + 1]
    BY <1>1, <1>4, <2>1, <2>2, PoppedIs
  <2>4. Later # <<>> => Len(fetch1.queue) = 2
    <3>1. CASE Sooner # <<>>
      BY <1>1, <3>1 DEF Pending
    <3>2. CASE Sooner = <<>>
      <4>1. ~fetch1.queue[1].busy
        BY <1>4, <1>7, <3>2
      <4>2. Later # <<>> => Len(fetch1.queue) # 1
        BY <1>1, <4>1 DEF Pending, Answers
      <4>3. Len(fetch1.queue) \in {1, 2}
        <5>1. PICK n \in Nat : n = Len(fetch1.queue)
          BY <1>2
        <5>2. n >= 1 /\ n <= 2
          BY <1>1, <2>1, <5>1
        <5>3. n = 1 \/ n = 2
          BY <5>2
        <5> QED
          BY <5>1, <5>3
      <4> QED
        BY <4>2, <4>3
    <3> QED
      BY <3>1, <3>2
  <2>5. ASSUME NEW h, h.queue = p.queue, h.header = p.header PROVE Leaves(h)
    <3>1. Tag(g, 2) = Tag(fetch1, 2)
      BY <1>4 DEF Tag
    <3>2. ASSUME NEW i \in 1 .. Len(p.queue)
          PROVE  /\ p.queue[i].address = fetch1.queue[i + 1].address
                 /\ p.queue[i].busy = fetch1.queue[i + 1].busy
                 /\ p.queue[i].excp = fetch1.queue[i + 1].excp
                 /\ p.queue[i].killed <=> fetch1.queue[i + 1].killed \/ Kills
      <4>1. i + 1 \in 1 .. Len(fetch1.queue) /\ i + 1 # 1
            /\ i \in 1 .. (Len(g.queue) - 1)
        BY <1>2, <1>4, <2>3
      <4> QED
        BY <1>4, <2>3, <4>1
    <3> QED
      BY <1>4, <2>1, <2>3, <2>4, <2>5, <3>1, <3>2 DEF Leaves
  <2>6. Len(p.queue) <= conf.iCacheLatency - 1
    BY <1>1, <1>2, <1>4, <2>3
  <2>7. CASE g.queue[1].killed
    <3>1. out = [fetch1 |-> p, package |-> <<>>, target |-> <<>>]
      BY <1>3, <1>7, <2>2, <2>7 DEF SendReq
    <3>2. Leaves(p)
      BY <2>5
    <3> QED
      BY <1>4, <2>1, <2>3, <2>6, <2>7, <3>1, <3>2 DEF Drops
  <2>8. CASE ~g.queue[1].killed /\ g.queue[1].excp
    <3>1. PICK h : h = [p EXCEPT !.state = "WaitForResume"]
      OBVIOUS
    <3>2. /\ h \in FetcherOf(Slot) /\ h.queue = p.queue /\ h.header = p.header
          /\ h.half = p.half /\ h.state = "WaitForResume"
      BY <3>1 DEF FetcherOf
    <3>3. out = [fetch1 |-> h, package |-> <<FaultInsn(g.queue[1].address)>>,
                 target |-> <<>>]
      BY <1>3, <1>7, <2>2, <2>8, <3>1 DEF SendReq
    <3>4. Leaves(h)
      BY <2>5, <3>2
    <3>5. ~Kills /\ Live(fetch1, 1) /\ Sooner = <<>>
      BY <1>4, <2>1, <2>8 DEF Live
    <3>6. fetch1.queue[1].address % 2 = 1
      BY <1>2, <1>4, <2>1, <2>8, <3>5
    <3> QED
      BY <1>4, <2>1, <2>3, <2>6, <3>2, <3>3, <3>4, <3>5, <3>6 DEF Faults
  <2>9. CASE ~g.queue[1].killed /\ ~g.queue[1].excp
    <3>1. ~Kills /\ Live(fetch1, 1)
      BY <1>4, <2>1, <2>9 DEF Live
    <3>2. Sooner # <<>> /\ fetch1.queue[1].address % 2 = 0
      BY <1>2, <1>4, <1>7, <2>1, <2>9
    <3>3. PICK a \in Nat : a = fetch1.queue[1].address /\ a = g.queue[1].address
      BY <1>2, <1>4, <2>1
    <3>4. a < End
      <4>1. End \in Nat
        BY EndFacts DEF Inv, Shape
      <4> QED
        BY <3>1, <3>2, <3>3, <4>1 DEF Kills
    <3>5. HalfOK(fetch1.half, a)
      BY <3>1, <3>2, <3>3, HalfFits
    <3>6. PICK e, c : e = g.queue[1] /\ c = Predecode(e, g.half, garbage)
      OBVIOUS
    <3>7. /\ CutOK(c, IF fetch1.half = <<>> THEN a ELSE fetch1.half[1], NextLine(a))
          /\ Len(c.package) <= FetchByteWidth \div 2
      <4>1. program \in Programs /\ g.half \in Port(Nat)
        BY DEF Inv, Shape, FetcherOf
      <4>2. HalfOK(g.half, e.address) /\ e.address \in Nat /\ e.address % 2 = 0 /\ e.address < End
        BY <1>4, <3>2, <3>3, <3>4, <3>5, <3>6
      <4>3. /\ CutOK(c, IF g.half = <<>> THEN e.address ELSE g.half[1], NextLine(e.address))
            /\ Len(c.package) <= FetchByteWidth \div 2
        BY <3>6, <4>1, <4>2, PredecodeOK
      <4> QED
        BY <1>4, <3>3, <3>6, <4>3
    <3>8. PICK h : h = [p EXCEPT !.half = c.half]
      OBVIOUS
    <3>9. c \in [package : Seq(Insns(program)), half : Port(Nat), target : Port(Nat)]
      BY <3>7 DEF CutOK
    <3>10. /\ h \in FetcherOf(Slot) /\ h.queue = p.queue /\ h.header = p.header
           /\ h.half = c.half /\ h.state = p.state
      BY <3>8, <3>9 DEF FetcherOf
    <3>11. out = [fetch1 |-> h, package |-> c.package, target |-> c.target]
      BY <1>3, <1>7, <2>2, <2>9, <3>6, <3>8 DEF SendReq
    <3>12. Leaves(h)
      BY <2>5, <3>10
    <3>13. c = [package |-> out.package, half |-> out.fetch1.half, target |-> out.target]
      BY <3>9, <3>10, <3>11
    <3>14. /\ out.fetch1 = h /\ out.package = c.package
      BY <3>11
    <3> QED
      BY <1>4, <2>3, <2>6, <3>1, <3>2, <3>3, <3>4, <3>5, <3>7, <3>10, <3>12, <3>13, <3>14 DEF Hands
  <2> QED
    BY <2>7, <2>8, <2>9
<1> QED
  BY <1>6, <1>7

\* f waits for the answer that is on its way.
Waits(f) ==
  /\ Later # <<>> => Answers(Later[1], f, 1)
  /\ Len(f.queue) = 1 /\ f.queue[1].busy => Later # <<>>

LEMMA FaultInsnIs ==
  ASSUME NEW pc \in Nat, pc % 2 = 1
  PROVE  FaultInsn(pc) \in Insns(program) /\ FaultInsn(pc).pc = pc
<1>1. <<>> \in Seq(Nat)
  OBVIOUS
<1>2. PICK x : x = FaultInsn(pc)
  OBVIOUS
<1>3. x = InsnAt(program, pc, FALSE) /\ x.pc = pc
  BY <1>2 DEF InsnAt, FaultInsn
<1>4. x \in [pc : Nat, parcels : Seq(Nat), excp : BOOLEAN, next : Nat \union {Nowhere}]
  BY <1>1, <1>2 DEF FaultInsn
<1>5. IsInsn(program, x)
  <2>1. ~(pc % 2 = 0)
    OBVIOUS
  <2> QED
    BY <1>3, <2>1 DEF IsInsn
<1> QED
  BY <1>2, <1>3, <1>4, <1>5 DEF Insns

LEMMA OutcomeTyped ==
  ASSUME Inv, ShortLatency, phase = "Fetch1",
         NEW out, out.fetch1 \in FetcherOf(Slot),
         Len(out.fetch1.queue) <= conf.iCacheLatency - 1,
         Stays(out) \/ Drops(out) \/ Faults(out) \/ Hands(out)
  PROVE  /\ out.fetch1 \in Fetcher
         /\ out.package \in Seq(Insns(program))
         /\ Len(out.package) <= FetchByteWidth \div 2
         /\ out.target \in Port(Nat)
         /\ Waits(out.fetch1)
<1>1. /\ fetch1 \in Fetcher /\ fetch1.header < conf.inflightQueueSize
      /\ conf.iCacheLatency \in {1, 2}
      /\ Len(fetch1.queue) <= conf.iCacheLatency
      /\ conf.inflightQueueSize \in Nat
      /\ conf.inflightQueueSize >= conf.iCacheLatency + 1
      /\ Pending(fetch1, Sooner, Later)
  BY Fetches1
<1>2. /\ fetch1 \in FetcherOf(Slot) /\ Len(fetch1.queue) \in Nat
      /\ \A i \in 1 .. Len(fetch1.queue) :
           /\ fetch1.queue[i].address \in Nat /\ fetch1.queue[i].killed \in BOOLEAN
           /\ fetch1.queue[i].busy <=> fetch1.queue[i].address % 2 = 0
           /\ fetch1.queue[i].excp <=> fetch1.queue[i].address % 2 = 1
  BY <1>1, FetcherIs
<1>3. /\ <<>> \in Seq(Insns(program)) /\ <<>> \in Port(Nat) /\ Len(<<>>) = 0
      /\ 1 <= FetchByteWidth \div 2 /\ 0 <= FetchByteWidth \div 2
  BY PortIs, WidthFacts
<1>4. CASE Stays(out)
  <2>1. Waits(fetch1)
    <3>1. Len(fetch1.queue) = 1 \/ Later = <<>>
      <4>1. Len(fetch1.queue) = 0 => Later = <<>>
        BY <1>1 DEF Pending, Answers
      <4> QED
        BY <1>4, <4>1 DEF Stays
    <3>2. Later # <<>> => Answers(Later[1], fetch1, 1)
      BY <1>1, <3>1 DEF Pending
    <3> QED
      BY <1>2, <1>4, <3>2 DEF Waits, Stays
  <2>2. out.fetch1 = fetch1 /\ out.package = <<>> /\ out.target = <<>>
    BY <1>4 DEF Stays
  <2> QED
    BY <1>1, <1>3, <2>1, <2>2
<1>5. CASE Leaves(out.fetch1)
  <2>1. PICK f \in FetcherOf(Slot) : f = out.fetch1
    OBVIOUS
  <2>2. /\ Len(fetch1.queue) >= 1 /\ Len(f.queue) = Len(fetch1.queue) - 1
        /\ f.header = Tag(fetch1, 2)
        /\ \A i \in 1 .. Len(f.queue) :
             /\ f.queue[i].address = fetch1.queue[i + 1].address
             /\ f.queue[i].busy = fetch1.queue[i + 1].busy
             /\ f.queue[i].excp = fetch1.queue[i + 1].excp
        /\ Later # <<>> => Len(fetch1.queue) = 2
    BY <1>5, <2>1 DEF Leaves
  <2>3. f \in Fetcher
    <3>1. ASSUME NEW i \in 1 .. Len(f.queue)
          PROVE  /\ f.queue[i].busy <=> f.queue[i].address % 2 = 0
                 /\ f.queue[i].excp <=> f.queue[i].address % 2 = 1
      <4>1. i + 1 \in 1 .. Len(fetch1.queue)
        BY <1>2, <2>2
      <4>2. /\ f.queue[i].address = fetch1.queue[i + 1].address
            /\ f.queue[i].busy = fetch1.queue[i + 1].busy
            /\ f.queue[i].excp = fetch1.queue[i + 1].excp
        BY <2>2
      <4> QED
        BY <1>2, <4>1, <4>2
    <3> QED
      BY <3>1, EntriesAre
  <2>4. Waits(f)
    <3>1. CASE Len(fetch1.queue) = 2
      <4>1. Len(f.queue) = 1 /\ 1 \in 1 .. Len(f.queue) /\ 1 + 1 = 2
        BY <2>2, <3>1
      <4>2. f.queue[1].address = fetch1.queue[2].address
            /\ f.queue[1].busy = fetch1.queue[2].busy
        BY <2>2, <4>1
      <4>3. Tag(f, 1) = Tag(fetch1, 2)
        <5>1. f.header = Tag(fetch1, 2) /\ f.header \in Nat
          BY <2>2 DEF FetcherOf
        <5>2. fetch1.header \in Nat
          BY <1>2 DEF FetcherOf
        <5>3. Tag(fetch1, 2) < conf.inflightQueueSize /\ conf.inflightQueueSize >= 2
          BY <1>1, <5>2, TagIs
        <5> QED
          BY <1>1, <5>1, <5>3, TagIs
      <4>4. Later # <<>> => Answers(Later[1], f, 1)
        BY <1>1, <3>1, <4>1, <4>2, <4>3 DEF Pending, Answers
      <4>5. f.queue[1].busy => Later # <<>>
        BY <1>1, <3>1, <4>2 DEF Pending
      <4> QED
        BY <4>4, <4>5 DEF Waits
    <3>2. CASE Len(fetch1.queue) # 2
      <4>1. Later = <<>> /\ Len(f.queue) # 1
        BY <1>2, <2>2, <3>2
      <4> QED
        BY <4>1 DEF Waits
    <3> QED
      BY <3>1, <3>2
  <2>5. CASE Drops(out)
    <3>1. out.package = <<>> /\ out.target = <<>>
      BY <2>5 DEF Drops
    <3> QED
      BY <1>3, <2>1, <2>3, <2>4, <3>1
  <2>6. CASE Faults(out)
    <3>1. PICK a \in Nat : a = fetch1.queue[1].address /\ a % 2 = 1
      BY <1>2, <2>6 DEF Faults, Live
    <3>2. out.package = <<FaultInsn(a)>> /\ out.target = <<>>
      BY <2>6, <3>1 DEF Faults
    <3>3. FaultInsn(a) \in Insns(program)
      BY <3>1, FaultInsnIs
    <3>4. <<FaultInsn(a)>> \in Seq(Insns(program)) /\ Len(<<FaultInsn(a)>>) = 1
      BY <3>3
    <3> QED
      BY <1>3, <2>1, <2>3, <2>4, <3>2, <3>4
  <2>7. CASE Hands(out)
    <3>1. PICK c : c = [package |-> out.package, half |-> out.fetch1.half, target |-> out.target]
      OBVIOUS
    <3>2. /\ c \in [package : Seq(Insns(program)), half : Port(Nat), target : Port(Nat)]
          /\ Len(out.package) <= FetchByteWidth \div 2
      BY <2>7, <3>1 DEF Hands, CutOK
    <3>3. out.package = c.package /\ out.target = c.target
      BY <3>1
    <3> QED
      BY <2>1, <2>3, <2>4, <3>2, <3>3
  <2> QED
    BY <1>4, <2>5, <2>6, <2>7
<1> QED
  BY <1>4, <1>5 DEF Drops, Faults, Hands

-----------------------------------------------------------------------------
(* Fetch1: the next fetch.                                                 *)

LEMMA RequestedIs ==
  ASSUME NEW f \in Fetcher, NEW pc \in Nat, conf.inflightQueueSize \in Nat \ {0}
  PROVE  /\ Requested(f, pc) \in Fetcher
         /\ Requested(f, pc).header = f.header /\ Requested(f, pc).half = f.half
         /\ Len(Requested(f, pc).queue) = Len(f.queue) + 1
         /\ \A i \in 1 .. Len(f.queue) : Requested(f, pc).queue[i] = f.queue[i]
         /\ Requested(f, pc).queue[Len(f.queue) + 1] = NewEntry(pc)
         /\ pc % 2 = 0 => Requested(f, pc).state = f.state
         /\ pc % 2 = 1 => Requested(f, pc).state = "HandleExcp"
<1>1. /\ f.queue \in Seq(Entry) /\ f.header \in Nat /\ Len(f.queue) \in Nat
  BY FetcherIs DEF Fetcher, FetcherOf
<1>2. PICK e : e = NewEntry(pc)
  OBVIOUS
<1>3. e \in Entry
  BY <1>2 DEF NewEntry, Entry, Slot
<1>4. PICK q : q = Append(f.queue, e)
  OBVIOUS
<1>5. /\ q \in Seq(Entry) /\ Len(q) = Len(f.queue) + 1
      /\ \A i \in 1 .. Len(f.queue) : q[i] = f.queue[i]
      /\ q[Len(f.queue) + 1] = e
  BY <1>1, <1>3, <1>4, AppendProperties
<1>6. PICK tag : tag = Tag(f, Len(f.queue) + 1)
  OBVIOUS
<1>7. tag \in Nat
  <2>1. PICK n \in Nat : n = Len(f.queue) + 1 /\ n >= 1
    BY <1>1
  <2>2. PICK m \in Nat : m = f.header + n - 1
    BY <1>1, <2>1
  <2>3. tag = m % conf.inflightQueueSize
    BY <1>6, <2>1, <2>2 DEF Tag
  <2> QED
    BY <2>3
<1>8. PICK g : g = [f EXCEPT !.queue = q]
  OBVIOUS
<1>9. /\ g \in Fetcher /\ g.queue = q /\ g.header = f.header /\ g.half = f.half
      /\ g.state = f.state
  BY <1>5, <1>8 DEF Fetcher, FetcherOf
<1>10. PICK h : h = [g EXCEPT !.state = "HandleExcp", !.excpTag = tag]
  OBVIOUS
<1>11. /\ h \in Fetcher /\ h.queue = q /\ h.header = f.header /\ h.half = f.half
       /\ h.state = "HandleExcp"
  BY <1>7, <1>9, <1>10 DEF Fetcher, FetcherOf
<1>12. Requested(f, pc) = IF pc % 2 = 0 THEN g ELSE h
  BY <1>2, <1>4, <1>6, <1>8, <1>10 DEF Requested
<1>13. pc % 2 = 0 \/ pc % 2 = 1
  OBVIOUS
<1> QED
  BY <1>2, <1>5, <1>9, <1>11, <1>12, <1>13

\* What Fetch1 does, when out is what leaves its queue.
Fetch1Does(out) ==
  LET f == out.fetch1
      pc == pcRegister.out[1]
      tries == pcRegister.out # <<>> /\ f.state = "Idle"
  IN  /\ fetch1' = IF tries THEN Requested(f, pc) ELSE f
      /\ iCache' = IF tries /\ pc % 2 = 0
                   THEN Set(iCache, [tag |-> Tag(f, Len(f.queue) + 1), fault |-> pc >= End])
                   ELSE iCache
      /\ toFetch2' = IF out.package = <<>> THEN toFetch2 ELSE Set(toFetch2, out.package)
      /\ out.target = <<>> => UNCHANGED <<redirect, flushSync>>
      /\ out.target # <<>> =>
           /\ redirect' = [redirect EXCEPT !["Fetch1"] = Set(@, out.target[1])]
           /\ flushSync' = flushSync \union {"Fetch1"}
      /\ Redirected => pcRegister' = Set(pcRegister, redirect[Winner(OutStages)].out[1])
      /\ ~Redirected /\ pcRegister.out = <<>> => pcRegister' = pcRegister
      /\ ~Redirected /\ pcRegister.out # <<>> =>
           pcRegister' = Set(pcRegister, IF tries /\ pc % 2 = 0 THEN NextLine(pc) ELSE pc)

Outcome(out) ==
  /\ out.fetch1 \in Fetcher
  /\ out.fetch1.header < conf.inflightQueueSize
  /\ Len(out.fetch1.queue) <= conf.iCacheLatency - 1
  /\ Stays(out) \/ Drops(out) \/ Faults(out) \/ Hands(out)
  /\ out.package \in Seq(Insns(program))
  /\ Len(out.package) <= FetchByteWidth \div 2
  /\ out.target \in Port(Nat)
  /\ Waits(out.fetch1)
  /\ Fetch1Does(out)

LEMMA Fetch1Is ==
  ASSUME Inv, ShortLatency, NoStraySend, Fetch1
  PROVE  /\ phase = "Fetch1" /\ phase' = "Commit"
         /\ UNCHANGED <<program, conf, insnBuffer, decodeQueue, toDecode, toDispatch, acks, back>>
         /\ \E out : Outcome(out)
<1>1. /\ phase = "Fetch1" /\ phase' = "Commit"
      /\ UNCHANGED <<program, conf, insnBuffer, decodeQueue, toDecode, toDispatch, acks, back>>
  BY PhaseIs DEF Fetch1
<1>2. PICK garbage \in BOOLEAN, unset \in Uninitialised, stale \in DOMAIN program :
       LET sending  == SendReq(ICacheAnswers, garbage)
           f        == sending.fetch1
           pc       == pcRegister.out[1]
           tries    == pcRegister.out # <<>> /\ MayFetch(f)
           sent     == IF pcRegister.out = <<>> THEN unset
                       ELSE tries /\ pc % 2 = 0
       IN  /\ fetch1' = IF tries THEN Requested(f, pc) ELSE f
           /\ iCache' = IF tries /\ pc % 2 = 0
                        THEN ReceiveFetchReq(Tag(f, Len(f.queue) + 1), pc)
                        ELSE iCache
           /\ toFetch2' = IF sending.package = <<>> THEN toFetch2
                          ELSE Set(toFetch2, sending.package)
           /\ IF sending.target = <<>> THEN UNCHANGED <<redirect, flushSync>>
              ELSE /\ redirect' = [redirect EXCEPT
                                     !.Fetch1 = Set(@, sending.target[1])]
                   /\ flushSync' = flushSync \union {"Fetch1"}
           /\ pcRegister' = GenNextFetchAddress(sent, stale)
  BY DEF Fetch1
<1>3. PICK out : out = SendReq(ICacheAnswers, garbage)
  OBVIOUS
<1>4. /\ out.fetch1 \in FetcherOf(Slot)
      /\ out.fetch1.header < conf.inflightQueueSize
      /\ Len(out.fetch1.queue) <= conf.iCacheLatency - 1
      /\ Stays(out) \/ Drops(out) \/ Faults(out) \/ Hands(out)
  BY <1>1, <1>3, OutcomeIs
<1>5. /\ out.fetch1 \in Fetcher
      /\ out.package \in Seq(Insns(program))
      /\ Len(out.package) <= FetchByteWidth \div 2
      /\ out.target \in Port(Nat)
      /\ Waits(out.fetch1)
  BY <1>1, <1>4, OutcomeTyped
<1>6. PICK f, pc : f = out.fetch1 /\ pc = pcRegister.out[1]
  OBVIOUS
<1>7. MayFetch(f) <=> f.state = "Idle"
  <2>1. conf.inflightQueueSize \in Nat /\ conf.iCacheLatency \in {1, 2}
        /\ conf.inflightQueueSize >= conf.iCacheLatency + 1
    BY <1>1, Fetches1
  <2>2. ~toFetch2.stall
    BY DEF Inv, Shape
  <2>3. ~QueueFull(f)
    BY <1>4, <1>6, <2>1 DEF QueueFull
  <2> QED
    BY <2>2, <2>3 DEF MayFetch
<1>8. PICK tries \in BOOLEAN : tries <=> pcRegister.out # <<>> /\ f.state = "Idle"
  OBVIOUS
<1>9. PICK sent : sent = IF pcRegister.out = <<>> THEN unset ELSE tries /\ pc % 2 = 0
  OBVIOUS
<1>10. /\ fetch1' = IF tries THEN Requested(f, pc) ELSE f
       /\ iCache' = IF tries /\ pc % 2 = 0
                    THEN ReceiveFetchReq(Tag(f, Len(f.queue) + 1), pc)
                    ELSE iCache
       /\ toFetch2' = IF out.package = <<>> THEN toFetch2 ELSE Set(toFetch2, out.package)
       /\ IF out.target = <<>> THEN UNCHANGED <<redirect, flushSync>>
          ELSE /\ redirect' = [redirect EXCEPT !.Fetch1 = Set(@, out.target[1])]
               /\ flushSync' = flushSync \union {"Fetch1"}
       /\ pcRegister' = GenNextFetchAddress(sent, stale)
  BY <1>2, <1>3, <1>6, <1>7, <1>8, <1>9
<1>11. OutStages # {} <=> Redirected
  BY DEF OutStages, Redirected
<1>12. GenNextFetchAddress(sent, stale) =
         IF OutStages # {} THEN Set(pcRegister, redirect[Winner(OutStages)].out[1])
         ELSE IF sent THEN Set(pcRegister, NextLine(IF pcRegister.out = <<>> THEN stale ELSE pc))
         ELSE IF pcRegister.out # <<>> THEN Set(pcRegister, pc)
         ELSE pcRegister
  BY <1>6 DEF GenNextFetchAddress, OutStages
<1>13. ~Redirected /\ pcRegister.out = <<>> => ~sent
  <2>1. Early
    BY <1>1 DEF Early
  <2>2. ~Redirected /\ pcRegister.out = <<>> => pcRegister.in # <<>>
    BY <2>1 DEF Inv, Fetching
  <2>3. pcRegister.in # <<>> => unset = FALSE
    BY DEF Uninitialised, NoStraySend
  <2> QED
    BY <1>9, <2>2, <2>3
<1>14. pcRegister.out # <<>> => (sent <=> tries /\ pc % 2 = 0)
  BY <1>9
<1>15. /\ Redirected => pcRegister' = Set(pcRegister, redirect[Winner(OutStages)].out[1])
       /\ ~Redirected /\ pcRegister.out = <<>> => pcRegister' = pcRegister
       /\ ~Redirected /\ pcRegister.out # <<>> =>
            pcRegister' = Set(pcRegister, IF tries /\ pc % 2 = 0 THEN NextLine(pc) ELSE pc)
  BY <1>10, <1>11, <1>12, <1>13, <1>14
<1>16. Fetch1Does(out)
  BY <1>6, <1>8, <1>10, <1>15 DEF Fetch1Does, ReceiveFetchReq
<1>17. Outcome(out)
  BY <1>4, <1>5, <1>16 DEF Outcome
<1> QED
  BY <1>1, <1>17

LEMMA Fetch1Latches ==
  ASSUME Inv, ShortLatency, phase = "Fetch1", NEW out, Outcome(out)
  PROVE  /\ pcRegister' \in Latch(Nat) /\ ~pcRegister'.stall /\ ~pcRegister'.flush
         /\ Redirected =>
              /\ pcRegister'.in = <<redirect[Winner(OutStages)].out[1]>>
              /\ pcRegister.out = <<>>
         /\ ~Redirected /\ pcRegister.out = <<>> =>
              pcRegister'.in = pcRegister.in /\ pcRegister.in # <<>>
         /\ ~Redirected /\ pcRegister.out # <<>> =>
              pcRegister'.in = <<IF out.fetch1.state = "Idle" /\ pcRegister.out[1] % 2 = 0
                                 THEN NextLine(pcRegister.out[1]) ELSE pcRegister.out[1]>>
         /\ pcRegister.out # <<>> => pcRegister.out[1] \in Nat
<1>1. /\ pcRegister \in Latch(Nat) /\ ~pcRegister.stall /\ ~pcRegister.flush
      /\ program \in Programs
      /\ redirect \in [Redirectors -> Latch(Nat)]
  BY DEF Inv, Shape
<1>2. Early
  BY DEF Early
<1>3. Redirected => pcRegister.out = <<>>
  BY <1>2, EmptyIs DEF Inv, Fetching
<1>4. ~Redirected /\ pcRegister.out = <<>> => pcRegister.in # <<>>
  BY <1>2 DEF Inv, Fetching
<1>5. pcRegister.out # <<>> => pcRegister.out[1] \in Nat
  BY <1>1, PortIs DEF Latch
<1>6. CASE Redirected
  <2>1. PICK w \in Redirectors : w = Winner(OutStages) /\ redirect[w].out # <<>>
    <3>1. OutStages # {} /\ OutStages \subseteq Redirectors
      BY <1>6 DEF OutStages, Redirected
    <3>2. Winner(OutStages) \in OutStages
      BY <3>1, WinnerExists
    <3> QED
      BY <3>2 DEF OutStages
  <2>2. PICK x \in Nat : x = redirect[w].out[1]
    <3>1. redirect[w] \in Latch(Nat)
      BY <1>1
    <3> QED
      BY <2>1, <3>1, PortIs DEF Latch
  <2>3. pcRegister' = Set(pcRegister, x)
    BY <1>6, <2>1, <2>2 DEF Outcome, Fetch1Does
  <2>4. PICK b : b = Set(pcRegister, x)
    OBVIOUS
  <2>5. b \in Latch(Nat) /\ b.in = <<x>> /\ ~b.stall /\ ~b.flush
    BY <1>1, <2>2, <2>4, SetIs
  <2> QED
    BY <1>3, <1>5, <1>6, <2>1, <2>2, <2>3, <2>4, <2>5
<1>7. CASE ~Redirected /\ pcRegister.out = <<>>
  <2>1. pcRegister' = pcRegister
    BY <1>7 DEF Outcome, Fetch1Does
  <2> QED
    BY <1>1, <1>4, <1>7, <2>1
<1>8. CASE ~Redirected /\ pcRegister.out # <<>>
  <2>1. PICK pc \in Nat : pc = pcRegister.out[1]
    BY <1>5, <1>8
  <2>2. PICK x \in Nat : x = IF out.fetch1.state = "Idle" /\ pc % 2 = 0 THEN NextLine(pc) ELSE pc
    BY <1>1, NextLineFacts
  <2>3. pcRegister' = Set(pcRegister, x)
    BY <1>8, <2>1, <2>2 DEF Outcome, Fetch1Does
  <2>4. PICK b : b = Set(pcRegister, x)
    OBVIOUS
  <2>5. b \in Latch(Nat) /\ b.in = <<x>> /\ ~b.stall /\ ~b.flush
    BY <1>1, <2>2, <2>4, SetIs
  <2> QED
    BY <1>5, <1>8, <2>1, <2>2, <2>3, <2>4, <2>5
<1> QED
  BY <1>6, <1>7, <1>8

LEMMA Fetch1Sends ==
  ASSUME Inv, ShortLatency, phase = "Fetch1", NEW out, Outcome(out),
         NEW S, S = Package(program, FetchByteWidth \div 2)
  PROVE  /\ toFetch2' \in Latch(S) /\ ~toFetch2'.stall
         /\ toFetch2'.flush = toFetch2.flush
         /\ Flat(toFetch2'.in) = out.package
         /\ redirect' \in [Redirectors -> Latch(Nat)]
         /\ \A s \in Redirectors : /\ redirect'[s].out = redirect[s].out
                                   /\ ~redirect'[s].stall /\ ~redirect'[s].flush
                                   /\ s # "Fetch1" => redirect'[s].in = redirect[s].in
         /\ redirect'["Fetch1"].in = out.target
         /\ flushSync' = IF out.target = <<>> THEN flushSync
                         ELSE flushSync \union {"Fetch1"}
<1>1. /\ toFetch2 \in Latch(S) /\ ~toFetch2.stall
      /\ redirect \in [Redirectors -> Latch(Nat)]
      /\ \A s \in Redirectors : ~redirect[s].stall /\ ~redirect[s].flush
  BY DEF Inv, Shape
<1>2. Early /\ toFetch2.in = <<>> /\ redirect["Fetch1"].in = <<>>
  BY DEF Early, Inv, Protocol
<1>3. /\ out.package \in Seq(Insns(program)) /\ out.target \in Port(Nat)
      /\ Len(out.package) <= FetchByteWidth \div 2
      /\ Fetch1Does(out)
  BY DEF Outcome
<1>4. /\ toFetch2' \in Latch(S) /\ ~toFetch2'.stall /\ toFetch2'.flush = toFetch2.flush
      /\ Flat(toFetch2'.in) = out.package
  <2>1. CASE out.package = <<>>
    <3>1. toFetch2' = toFetch2
      BY <1>3, <2>1 DEF Fetch1Does
    <3> QED
      BY <1>1, <1>2, <2>1, <3>1 DEF Flat
  <2>2. CASE out.package # <<>>
    <3>1. PICK x : x = out.package
      OBVIOUS
    <3>2. x \in S
      <4>1. PICK n \in Nat : n = Len(x)
        BY <1>3, <3>1
      <4>2. n # 0
        BY <1>3, <2>2, <3>1, <4>1
      <4> QED
        BY <1>3, <3>1, <4>1, <4>2, WidthFacts DEF Package
    <3>3. toFetch2' = Set(toFetch2, x)
      BY <1>3, <2>2, <3>1 DEF Fetch1Does
    <3>4. PICK b : b = Set(toFetch2, x)
      OBVIOUS
    <3>5. b \in Latch(S) /\ b.in = <<x>> /\ b.stall = toFetch2.stall /\ b.flush = toFetch2.flush
      BY <1>1, <3>2, <3>4, SetIs
    <3>6. Flat(b.in) = x
      BY <3>5, OneIs DEF Flat
    <3> QED
      BY <1>1, <3>1, <3>3, <3>4, <3>5, <3>6
  <2> QED
    BY <2>1, <2>2
<1>5. /\ redirect' \in [Redirectors -> Latch(Nat)]
      /\ \A s \in Redirectors : /\ redirect'[s].out = redirect[s].out
                                /\ ~redirect'[s].stall /\ ~redirect'[s].flush
                                /\ s # "Fetch1" => redirect'[s].in = redirect[s].in
      /\ redirect'["Fetch1"].in = out.target
      /\ flushSync' = IF out.target = <<>> THEN flushSync ELSE flushSync \union {"Fetch1"}
  <2>1. CASE out.target = <<>>
    <3>1. redirect' = redirect /\ flushSync' = flushSync
      BY <1>3, <2>1 DEF Fetch1Does
    <3> QED
      BY <1>1, <1>2, <2>1, <3>1
  <2>2. CASE out.target # <<>>
    <3>1. PICK x \in Nat : x = out.target[1] /\ out.target = <<x>>
      BY <1>3, <2>2, PortIs
    <3>2. "Fetch1" \in Redirectors
      BY DEF Redirectors, Rank
    <3>3. PICK b : b = Set(redirect["Fetch1"], x)
      OBVIOUS
    <3>4. /\ b \in Latch(Nat) /\ b.in = <<x>> /\ b.out = redirect["Fetch1"].out
          /\ ~b.stall /\ ~b.flush
      <4>1. redirect["Fetch1"] \in Latch(Nat)
        BY <1>1, <3>2
      <4> QED
        BY <1>1, <3>2, <3>3, <4>1, SetIs
    <3>5. /\ redirect' = [redirect EXCEPT !["Fetch1"] = b]
          /\ flushSync' = flushSync \union {"Fetch1"}
      BY <1>3, <2>2, <3>1, <3>3 DEF Fetch1Does
    <3>6. redirect'["Fetch1"] = b /\ \A s \in Redirectors : s # "Fetch1" => redirect'[s] = redirect[s]
      BY <1>1, <3>2, <3>5
    <3>7. redirect' \in [Redirectors -> Latch(Nat)]
      BY <1>1, <3>4, <3>5
    <3>8. ASSUME NEW s \in Redirectors
          PROVE  /\ redirect'[s].out = redirect[s].out
                 /\ ~redirect'[s].stall /\ ~redirect'[s].flush
                 /\ s # "Fetch1" => redirect'[s].in = redirect[s].in
      <4>1. CASE s = "Fetch1"
        BY <3>4, <3>6, <4>1
      <4>2. CASE s # "Fetch1"
        BY <1>1, <3>6, <4>2
      <4> QED
        BY <4>1, <4>2
    <3> QED
      BY <2>2, <3>1, <3>4, <3>5, <3>6, <3>7, <3>8
  <2> QED
    BY <2>1, <2>2
<1> QED
  BY <1>4, <1>5

LEMMA PendingKept ==
  ASSUME program' = program, conf' = conf, NEW CONSTANT f, NEW CONSTANT sooner, NEW CONSTANT later,
         fetch1' = f, Sooner' = sooner, Later' = later, Pending(f, sooner, later)
  PROVE  Pending(fetch1, Sooner, Later)'
<1>1. End' = End
  BY MemoryKept
<1>2. \A a, i : Answers(a, fetch1, i)' <=> Answers(a, f, i)
  BY <1>1 DEF Answers, Tag
<1> QED
  BY <1>2 DEF Pending

LEMMA Fetch1Queue ==
  ASSUME Inv, ShortLatency, phase = "Fetch1", phase' = "Commit",
         program' = program, conf' = conf, NEW out, Outcome(out)
  PROVE  /\ fetch1' \in Fetcher /\ fetch1'.header < conf.inflightQueueSize
         /\ Len(fetch1'.queue) <= conf.iCacheLatency
         /\ iCache' \in Cache
         /\ Timing'
         /\ ~(pcRegister.out # <<>> /\ out.fetch1.state = "Idle") => Later' = <<>>
         /\ pcRegister.out # <<>> /\ pcRegister.out[1] % 2 = 1 => Later' = <<>>
<1>1. /\ conf.iCacheLatency \in {1, 2}
      /\ conf.inflightQueueSize \in Nat
      /\ conf.inflightQueueSize >= conf.iCacheLatency + 1
      /\ iCache \in Cache /\ iCache.in = <<>>
      /\ Later = IF conf.iCacheLatency = 1 THEN <<>> ELSE Ready(iCache.queue)
  BY Fetches1
<1>2. PICK f : f = out.fetch1
  OBVIOUS
<1>3. /\ f \in Fetcher /\ f.header < conf.inflightQueueSize
      /\ Len(f.queue) <= conf.iCacheLatency - 1
      /\ Waits(f)
  BY <1>2 DEF Outcome
<1>4. /\ Len(f.queue) \in Nat /\ f.header \in Nat
      /\ Len(f.queue) = 0 \/ (Len(f.queue) = 1 /\ conf.iCacheLatency = 2)
  <2>1. Len(f.queue) \in Nat /\ f.header \in Nat
    BY <1>3, FetcherIs DEF Fetcher, FetcherOf
  <2>2. PICK n \in Nat, w \in {1, 2} : n = Len(f.queue) /\ w = conf.iCacheLatency
    BY <1>1, <2>1
  <2>3. (w = 1 \/ w = 2) /\ n <= w - 1
    BY <1>1, <1>3, <2>2
  <2>4. n = 0 \/ (n = 1 /\ w = 2)
    BY <2>3
  <2> QED
    BY <2>1, <2>2, <2>4
<1>5. conf.iCacheLatency = 1 => iCache.queue = <<>>
  BY DEF Inv, Timing
<1>6. pcRegister.out # <<>> => pcRegister.out[1] \in Nat
  BY Fetch1Latches
<1>7. PICK tries \in BOOLEAN : tries <=> pcRegister.out # <<>> /\ f.state = "Idle"
  OBVIOUS
<1>8. PICK pc : pc = pcRegister.out[1]
  OBVIOUS
<1>9. /\ fetch1' = IF tries THEN Requested(f, pc) ELSE f
      /\ iCache' = IF tries /\ pc % 2 = 0
                   THEN Set(iCache, [tag |-> Tag(f, Len(f.queue) + 1), fault |-> pc >= End])
                   ELSE iCache
  BY <1>2, <1>7, <1>8 DEF Outcome, Fetch1Does
<1>10. ~Early'
  BY DEF Early
<1>11. PICK g, c : g = fetch1' /\ c = iCache'
  OBVIOUS
<1>12. PICK s, l : s = Sooner' /\ l = Later'
  OBVIOUS
<1>13. /\ s = IF conf.iCacheLatency = 1 THEN c.in ELSE Ready(c.queue)
       /\ l = IF conf.iCacheLatency = 1 THEN <<>> ELSE c.in
  BY <1>10, <1>11, <1>12 DEF Sooner, Later
<1>14. /\ NewEntry(pc).address = pc
       /\ NewEntry(pc).busy <=> pc % 2 = 0
  BY DEF NewEntry
<1>15. tries => /\ pc \in Nat
                /\ g \in Fetcher /\ g.header = f.header
                /\ Len(g.queue) = Len(f.queue) + 1
                /\ \A i \in 1 .. Len(f.queue) : g.queue[i] = f.queue[i]
                /\ g.queue[Len(f.queue) + 1] = NewEntry(pc)
  <2>1. conf.inflightQueueSize \in Nat \ {0}
    BY <1>1
  <2> QED
    BY <1>3, <1>6, <1>7, <1>8, <1>9, <1>11, <2>1, RequestedIs
<1>16. ~tries => g = f
  BY <1>9, <1>11
<1>17. CASE tries /\ pc % 2 = 0
  <2>1. PICK a : a = [tag |-> Tag(f, Len(f.queue) + 1), fault |-> pc >= End]
    OBVIOUS
  <2>2. a \in Answer
    <3>1. Len(f.queue) + 1 = 1 \/ Len(f.queue) + 1 = 2
      <4>1. PICK n \in Nat : n = Len(f.queue) /\ (n = 0 \/ n = 1)
        BY <1>4
      <4>2. (n + 1 = 1) \/ (n + 1 = 2)
        <5>1. CASE n = 0
          BY <5>1
        <5>2. CASE n = 1
          BY <5>2
        <5> QED
          BY <4>1, <5>1, <5>2
      <4> QED
        BY <4>1, <4>2
    <3>2. Tag(f, 1) \in Nat /\ Tag(f, 2) \in Nat
      BY <1>1, <1>3, <1>4, TagIs
    <3> QED
      BY <2>1, <3>1, <3>2 DEF Answer
  <2>3. c = [iCache EXCEPT !.in = <<a>>]
    BY <1>9, <1>11, <1>17, <2>1 DEF Set
  <2>4. c \in Cache /\ c.in = <<a>> /\ c.queue = iCache.queue
    BY <1>1, <2>2, <2>3, PortIs DEF Cache
  <2>5. /\ NewEntry(pc).address = pc /\ NewEntry(pc).busy
    BY <1>14, <1>17
  <2>6. CASE Len(f.queue) = 0
    <3>1. /\ Len(g.queue) = 1 /\ g.queue[1] = NewEntry(pc)
      BY <1>15, <1>17, <2>6
    <3>2. Answers(a, g, 1)
      <4>1. Tag(g, 1) = Tag(f, 1)
        BY <1>15, <1>17 DEF Tag
      <4>2. Len(f.queue) + 1 = 1
        BY <2>6
      <4>3. a.tag = Tag(f, 1) /\ (a.fault <=> pc >= End)
        BY <2>1, <4>2
      <4> QED
        BY <2>5, <3>1, <4>1, <4>3 DEF Answers
    <3>3. Later = <<>>
      BY <1>3, <2>6 DEF Waits, Answers
    <3>4. \/ s = <<a>> /\ l = <<>>
          \/ s = <<>> /\ l = <<a>>
      BY <1>1, <1>13, <2>4, <3>3
    <3>5. <<a>>[1] = a /\ <<a>> # <<>>
      BY OneIs
    <3>6. Pending(g, s, l)
      BY <3>1, <3>2, <3>4, <3>5 DEF Pending
    <3>7. Timing'
      BY <1>5, <1>11, <1>12, <2>4, <3>6, PendingKept DEF Timing
    <3> QED
      BY <1>1, <1>2, <1>3, <1>7, <1>8, <1>11, <1>15, <1>17, <2>4, <3>1, <3>7
  <2>7. CASE Len(f.queue) = 1
    <3>1. conf.iCacheLatency = 2
      BY <1>4, <2>7
    <3>2. Len(g.queue) = 2 /\ g.queue[1] = f.queue[1] /\ g.queue[2] = NewEntry(pc)
      BY <1>15, <1>17, <2>7
    <3>3. s = Later /\ l = <<a>>
      BY <1>1, <1>13, <2>4, <3>1
    <3>4. Answers(a, g, 2)
      <4>1. Tag(g, 2) = Tag(f, 2)
        BY <1>15, <1>17 DEF Tag
      <4>2. Len(f.queue) + 1 = 2
        BY <2>7
      <4>3. a.tag = Tag(f, 2) /\ (a.fault <=> pc >= End)
        BY <2>1, <4>2
      <4> QED
        BY <2>5, <3>2, <4>1, <4>3 DEF Answers
    <3>5. Later # <<>> => Answers(Later[1], g, 1)
      <4>1. Tag(g, 1) = Tag(f, 1)
        BY <1>15, <1>17 DEF Tag
      <4> QED
        BY <1>3, <2>7, <3>2, <4>1 DEF Waits, Answers
    <3>6. <<a>>[1] = a /\ <<a>> # <<>>
      BY OneIs
    <3>7. Pending(g, s, l)
      <4>1. g.queue[1].busy => Later # <<>>
        BY <1>3, <2>7, <3>2 DEF Waits
      <4> QED
        BY <3>2, <3>3, <3>4, <3>5, <3>6, <4>1 DEF Pending
    <3>8. Timing'
      BY <1>5, <1>11, <1>12, <2>4, <3>7, PendingKept DEF Timing
    <3> QED
      BY <1>1, <1>2, <1>3, <1>7, <1>8, <1>11, <1>15, <1>17, <2>4, <3>1, <3>2, <3>8
  <2> QED
    BY <1>4, <2>6, <2>7
<1>18. CASE ~(tries /\ pc % 2 = 0)
  <2>1. c = iCache
    BY <1>9, <1>11, <1>18
  <2>2. s = Later /\ l = <<>>
    BY <1>1, <1>13, <2>1
  <2>3. tries => ~NewEntry(pc).busy
    BY <1>14, <1>18
  <2>4. /\ g \in Fetcher /\ g.header = f.header
        /\ Len(g.queue) = Len(f.queue) \/ Len(g.queue) = Len(f.queue) + 1
        /\ \A i \in 1 .. Len(f.queue) : g.queue[i] = f.queue[i]
        /\ Len(g.queue) = Len(f.queue) + 1 => ~g.queue[Len(f.queue) + 1].busy
    <3>1. CASE tries
      BY <1>15, <2>3, <3>1
    <3>2. CASE ~tries
      BY <1>3, <1>4, <1>16, <3>2
    <3> QED
      BY <3>1, <3>2
  <2>5. Pending(g, Later, <<>>)
    <3>1. Tag(g, 1) = Tag(f, 1)
      BY <2>4 DEF Tag
    <3>4. Len(g.queue) \in Nat
      BY <1>4, <2>4
    <3>2. CASE Len(f.queue) = 0
      <4>1. Later = <<>>
        BY <1>3, <3>2 DEF Waits, Answers
      <4>2. Len(g.queue) = 0 \/ (Len(g.queue) = 1 /\ ~g.queue[1].busy)
        <5>1. 0 + 1 = 1
          OBVIOUS
        <5> QED
          BY <2>4, <3>2, <5>1
      <4> QED
        BY <4>1, <4>2 DEF Pending
    <3>3. CASE Len(f.queue) = 1
      <4>0. 1 + 1 = 2 /\ 1 \in 1 .. 1 /\ 1 \in 1 .. 2
        OBVIOUS
      <4>2. Len(g.queue) = 1 \/ (Len(g.queue) = 2 /\ ~g.queue[2].busy)
        BY <2>4, <3>3, <4>0
      <4>1. g.queue[1] = f.queue[1] /\ 1 \in 1 .. Len(g.queue)
        BY <2>4, <3>3, <4>0, <4>2
      <4>3. Later # <<>> => Answers(Later[1], g, 1)
        BY <1>3, <3>1, <4>1 DEF Waits, Answers
      <4>4. g.queue[1].busy => Later # <<>>
        BY <1>3, <3>3, <4>1 DEF Waits
      <4> QED
        BY <4>2, <4>3, <4>4 DEF Pending
    <3> QED
      BY <1>4, <3>2, <3>3
  <2>6. Timing'
    BY <1>5, <1>11, <1>12, <2>1, <2>2, <2>5, PendingKept DEF Timing
  <2>7. Len(g.queue) <= conf.iCacheLatency
    BY <1>1, <1>4, <2>4
  <2> QED
    BY <1>1, <1>3, <1>11, <1>12, <2>1, <2>2, <2>4, <2>6, <2>7
<1> QED
  BY <1>17, <1>18

-----------------------------------------------------------------------------
(* Fetch1: the run of lines goes on.                                       *)

\* f after its oldest entry has left, and before the fetch of pc.
Settled(f, pc) ==
  /\ f.state = "Idle"
  /\ Len(f.queue) = 0 \/ Len(f.queue) = 1
  /\ Live(f, 1) => f.queue[1].address % 2 = 0 /\ pc = NextLine(f.queue[1].address)
  /\ Len(f.queue) = 1 /\ ~Live(f, 1) => pc >= End
  /\ HalfOK(f.half, Aim(f, pc))
  /\ pc % 2 = 1 => f.queue = <<>> /\ f.half = <<>>

LEMMA OddOrEven ==
  ASSUME NEW n \in Nat
  PROVE  (n % 2 = 0 <=> ~(n % 2 = 1)) /\ (n % 2 = 1 <=> ~(n % 2 = 0))
OBVIOUS

LEMMA RequestKeepsPath ==
  ASSUME program \in Programs, conf.inflightQueueSize \in Nat \ {0},
         NEW f \in Fetcher, NEW pc \in Nat, Settled(f, pc), NEW later,
         NEW next, next = IF pc % 2 = 0 THEN NextLine(pc) ELSE pc,
         pc % 2 = 1 => later = <<>>
  PROVE  /\ Path(Requested(f, pc), next, later)
         /\ \A tip : Reaches(f, pc, tip) => Reaches(Requested(f, pc), next, tip)
<1>1. PICK g : g = Requested(f, pc)
  OBVIOUS
<1>2. /\ g.half = f.half
      /\ Len(g.queue) = Len(f.queue) + 1
      /\ \A i \in 1 .. Len(f.queue) : g.queue[i] = f.queue[i]
      /\ g.queue[Len(f.queue) + 1] = NewEntry(pc)
      /\ pc % 2 = 0 => g.state = f.state
      /\ pc % 2 = 1 => g.state = "HandleExcp"
  BY <1>1, RequestedIs
<1>3. /\ NewEntry(pc).address = pc /\ ~NewEntry(pc).killed
  BY DEF NewEntry
<1>4. /\ f.state = "Idle"
      /\ Len(f.queue) = 0 \/ Len(f.queue) = 1
      /\ Live(f, 1) => f.queue[1].address % 2 = 0 /\ pc = NextLine(f.queue[1].address)
      /\ Len(f.queue) = 1 /\ ~Live(f, 1) => pc >= End
      /\ HalfOK(f.half, Aim(f, pc))
      /\ pc % 2 = 1 => f.queue = <<>> /\ f.half = <<>>
  BY DEF Settled
<1>5. ~Live(f, 2)
  BY <1>4 DEF Live
<1>6. /\ 0 + 1 = 1 /\ 1 + 1 = 2 /\ 1 \in 1 .. 1 /\ 1 \in 1 .. 2 /\ 2 \in 1 .. 2
      /\ 2 \notin 1 .. 1 /\ 1 \notin 1 .. 0 /\ Len(<<>>) = 0
      /\ (\A i \in 1 .. 1 : i = 1) /\ (\A i \in 1 .. 2 : i = 1 \/ i = 2)
  OBVIOUS
<1>7. /\ NextLine(pc) \in Nat /\ ~(NextLine(pc) % 2 = 1)
  BY NextLineFacts, OddOrEven
<1>8. CASE Len(f.queue) = 0
  <2>1. Len(g.queue) = 1 /\ g.queue[1] = NewEntry(pc)
    BY <1>2, <1>6, <1>8
  <2>2. Live(g, 1) /\ ~Live(g, 2) /\ ~Live(f, 1)
    BY <1>3, <1>6, <1>8, <2>1 DEF Live
  <2>3. Aim(f, pc) = pc /\ Aim(g, next) = pc
    BY <1>3, <1>5, <2>1, <2>2 DEF Aim
  <2>4. Path(g, next, later)
    <3>1. CASE pc % 2 = 0
      <4>1. next = NextLine(pc) /\ g.state = "Idle"
        BY <1>2, <1>4, <3>1
      <4>2. HalfOK(g.half, Aim(g, next))
        BY <1>2, <1>4, <2>3
      <4>3. Live(g, Len(g.queue))
        BY <2>1, <2>2
      <4>4. ~(next % 2 = 1)
        BY <1>7, <4>1
      <4>5. g.queue[1].address = pc
        BY <1>3, <2>1
      <4>6. \A i \in 1 .. Len(g.queue) : g.queue[i].address % 2 = 0
        BY <1>6, <2>1, <3>1, <4>5
      <4>7. Len(g.queue) # 2
        BY <2>1
      <4>8. Run(g, next)
        BY <2>1, <2>2, <4>1, <4>2, <4>3, <4>4, <4>5, <4>6, <4>7 DEF Run, HalfOK
      <4> QED
        BY <4>1, <4>3, <4>8 DEF Path
    <3>2. CASE pc % 2 = 1
      <4>1. g.state = "HandleExcp" /\ g.half = <<>> /\ g.queue[1].address % 2 = 1
        BY <1>2, <1>3, <1>4, <2>1, <3>2
      <4> QED
        BY <2>1, <2>2, <4>1 DEF Path
    <3> QED
      BY <3>1, <3>2, OddOrEven
  <2>5. \A tip : Reaches(f, pc, tip) => Reaches(g, next, tip)
    BY <1>2, <1>4, <2>3 DEF Reaches
  <2> QED
    BY <1>1, <2>4, <2>5
<1>9. CASE Len(f.queue) = 1
  <2>1. pc % 2 = 0
    <3>1. f.queue # <<>>
      BY <1>6, <1>9
    <3> QED
      BY <1>4, <3>1, OddOrEven
  <2>2. Len(g.queue) = 2 /\ g.queue[1] = f.queue[1] /\ g.queue[2] = NewEntry(pc)
    BY <1>2, <1>6, <1>9
  <2>3. next = NextLine(pc) /\ g.state = "Idle"
    BY <1>2, <1>4, <2>1
  <2>4. Live(g, 2) /\ (Live(g, 1) <=> Live(f, 1))
    BY <1>3, <1>6, <1>9, <2>2 DEF Live
  <2>5. Aim(g, next) = Aim(f, pc)
    BY <1>3, <1>5, <2>2, <2>4 DEF Aim
  <2>6. HalfOK(g.half, Aim(g, next))
    BY <1>2, <1>4, <2>5
  <2>7. Live(g, Len(g.queue)) /\ ~(next % 2 = 1) /\ g.queue[2].address = pc
    BY <1>3, <1>7, <2>2, <2>3, <2>4
  <2>8. \A i \in 1 .. Len(g.queue) : Live(g, i) => g.queue[i].address % 2 = 0
    BY <1>4, <1>6, <2>1, <2>2, <2>4, <2>7
  <2>9. Live(g, 1) => g.queue[2].address = NextLine(g.queue[1].address)
    BY <1>4, <2>2, <2>4, <2>7
  <2>10. ~Live(g, 1) => g.queue[2].address >= End
    BY <1>4, <1>9, <2>4, <2>7
  <2>11. Run(g, next)
    BY <2>2, <2>3, <2>4, <2>6, <2>7, <2>8, <2>9, <2>10 DEF Run, HalfOK
  <2>12. Path(g, next, later)
    BY <2>3, <2>7, <2>11 DEF Path
  <2>13. \A tip : Reaches(f, pc, tip) => Reaches(g, next, tip)
    BY <1>2, <1>4, <2>3, <2>5 DEF Reaches
  <2> QED
    BY <1>1, <2>12, <2>13
<1> QED
  BY <1>4, <1>8, <1>9

\* Half an instruction that waits for what is past the end waits for the end.
LEMMA HalfAtEnd ==
  ASSUME program \in Programs, NEW half, NEW aim \in Nat, aim >= End, HalfOK(half, aim)
  PROVE  HalfOK(half, End)
<1>1. CASE half # <<>>
  <2>1. PICK h : h = half[1] /\ h \in DOMAIN program /\ program[h].wide /\ aim = h + 2
    BY <1>1 DEF HalfOK
  <2>2. h \in Nat /\ h < End /\ h % 2 = 0 /\ End \in Nat /\ End % 2 = 0
    BY <2>1, EndFacts
  <2>3. aim = End
    BY <2>1, <2>2
  <2> QED
    BY <2>3
<1> QED
  BY <1>1 DEF HalfOK

LEMMA OutcomeSettles ==
  ASSUME Inv, ShortLatency, phase = "Fetch1", NEW out, Outcome(out),
         NEW pc \in Nat, Path(fetch1, pc, Later), fetch1.state = "Idle",
         NEW tip, Reaches(fetch1, pc, tip)
  PROVE  /\ Follows(out.package, tip)
         /\ out.target # <<>> => out.target = <<Tip(out.package, tip)>>
         /\ out.target = <<>> => /\ Settled(out.fetch1, pc)
                                 /\ Reaches(out.fetch1, pc, Tip(out.package, tip))
<1>1. /\ fetch1 \in Fetcher /\ conf.iCacheLatency \in {1, 2}
      /\ Len(fetch1.queue) <= conf.iCacheLatency
  BY Fetches1
<1>2. /\ Len(fetch1.queue) \in Nat
      /\ \A i \in 1 .. Len(fetch1.queue) :
           fetch1.queue[i].address \in Nat /\ fetch1.queue[i].killed \in BOOLEAN
  BY <1>1, FetcherIs
<1>3. program \in Programs /\ End \in Nat /\ End % 2 = 0
  BY EndFacts DEF Inv, Shape
<1>4. /\ Run(fetch1, pc)
      /\ Later # <<>> \/ Len(fetch1.queue) = 2 => Live(fetch1, Len(fetch1.queue))
  BY DEF Path
<1>5. /\ Live(fetch1, 1) /\ Len(fetch1.queue) = 2 =>
           Live(fetch1, 2) /\ fetch1.queue[2].address = NextLine(fetch1.queue[1].address)
      /\ Live(fetch1, 2) /\ ~Live(fetch1, 1) => fetch1.queue[2].address >= End
      /\ \A i \in 1 .. Len(fetch1.queue) :
           Live(fetch1, i) => fetch1.queue[i].address % 2 = 0
      /\ Live(fetch1, Len(fetch1.queue)) =>
           pc = NextLine(fetch1.queue[Len(fetch1.queue)].address)
      /\ pc % 2 = 1 => Idle(fetch1)
      /\ HalfOK(fetch1.half, Aim(fetch1, pc))
  BY <1>4 DEF Run, HalfOK
<1>6. PICK n \in Nat : n = Len(fetch1.queue)
  BY <1>2
<1>7. n = 0 \/ n = 1 \/ n = 2
  <2>1. PICK w : w = conf.iCacheLatency
    OBVIOUS
  <2>2. (w = 1 \/ w = 2) /\ n <= w
    BY <1>1, <1>6, <2>1
  <2> QED
    BY <2>2
<1>8. /\ 1 \in 1 .. 1 /\ 1 \in 1 .. 2 /\ 2 \in 1 .. 2
      /\ 1 \notin 1 .. 0 /\ 2 \notin 1 .. 0 /\ 2 \notin 1 .. 1 /\ Len(<<>>) = 0
      /\ 1 - 1 = 0 /\ 2 - 1 = 1 /\ 1 + 1 = 2
  OBVIOUS
<1>9. Follows(<<>>, tip) /\ Tip(<<>>, tip) = tip
  BY DEF Follows, Tip
<1>10. \A i \in 1 .. n : Live(fetch1, i) <=> ~fetch1.queue[i].killed
  BY <1>6 DEF Live
<1>11. PICK f : f = out.fetch1
  OBVIOUS
<1>12. f \in Fetcher /\ (f.queue = <<>> <=> Len(f.queue) = 0)
  BY <1>11 DEF Outcome, Fetcher, FetcherOf
<1>13. CASE Stays(out)
  <2>1. /\ f = fetch1 /\ out.package = <<>> /\ out.target = <<>>
        /\ n = 0 \/ (n = 1 /\ Later # <<>>)
    BY <1>6, <1>11, <1>13 DEF Stays
  <2>2. n = 1 => Live(fetch1, 1)
    BY <1>4, <1>6, <2>1
  <2>3. Live(fetch1, 1) => /\ n = 1
                           /\ fetch1.queue[1].address % 2 = 0
                           /\ pc = NextLine(fetch1.queue[1].address)
    BY <1>5, <1>6, <1>8, <2>1 DEF Live
  <2>4. pc % 2 = 1 => fetch1.queue = <<>> /\ fetch1.half = <<>>
    <3>1. pc % 2 = 1 => n = 0 /\ fetch1.half = <<>>
      BY <1>5, <1>6, <1>8, <2>1, <2>2 DEF Idle
    <3> QED
      BY <1>6, <1>12, <2>1, <3>1
  <2>5. Settled(fetch1, pc)
    BY <1>5, <1>6, <2>1, <2>2, <2>3, <2>4 DEF Settled
  <2> QED
    BY <1>9, <1>11, <2>1, <2>5
<1>14. CASE Drops(out)
  <2>1. /\ Leaves(f)
        /\ fetch1.queue[1].killed \/ Kills
        /\ out.package = <<>> /\ out.target = <<>>
        /\ f.half = fetch1.half /\ f.state = "Idle"
    BY <1>11, <1>14 DEF Drops
  <2>2. n # 0 /\ Len(f.queue) = n - 1
    <3>1. Len(fetch1.queue) >= 1 /\ Len(f.queue) = Len(fetch1.queue) - 1
      BY <2>1 DEF Leaves
    <3>2. n >= 1 /\ Len(f.queue) = n - 1
      BY <1>6, <3>1
    <3> QED
      BY <3>2
  <2>3. CASE n = 1
    <3>1. f.queue = <<>> /\ ~Live(f, 1) /\ ~Live(f, 2) /\ Len(f.queue) = 0
      BY <1>8, <1>12, <2>2, <2>3 DEF Live
    <3>2. Aim(f, pc) = pc /\ ~Live(fetch1, 2)
      BY <1>6, <1>8, <2>3, <3>1 DEF Aim, Live
    <3>3. HalfOK(f.half, pc) /\ Reaches(f, pc, tip)
      <4>1. CASE ~Live(fetch1, 1)
        <5>1. Aim(fetch1, pc) = pc
          BY <3>2, <4>1 DEF Aim
        <5> QED
          BY <1>5, <2>1, <3>2, <5>1 DEF Reaches
      <4>2. CASE Live(fetch1, 1)
        <5>1. PICK a \in Nat : a = fetch1.queue[1].address
          BY <1>2, <1>6, <1>8, <2>3
        <5>2. Aim(fetch1, pc) = a /\ pc = NextLine(a)
          BY <1>5, <1>6, <2>3, <4>2, <5>1 DEF Aim
        <5>3. a >= End
          BY <2>1, <4>2, <5>1 DEF Kills, Live
        <5>4. pc = End
          BY <1>3, <5>2, <5>3, NextLineFacts
        <5>5. HalfOK(f.half, pc)
          BY <1>3, <1>5, <2>1, <5>2, <5>3, <5>4, HalfAtEnd
        <5>6. pc >= End /\ pc % 2 = 0
          BY <1>3, <5>4
        <5> QED
          BY <2>1, <3>2, <5>5, <5>6 DEF Reaches
      <4> QED
        BY <4>1, <4>2
    <3>4. pc % 2 = 1 => f.half = <<>>
      BY <1>5, <2>1 DEF Idle
    <3>5. Settled(f, pc)
      BY <2>1, <3>1, <3>2, <3>3, <3>4 DEF Settled
    <3> QED
      BY <1>9, <1>11, <2>1, <3>3, <3>5
  <2>4. CASE n = 2
    <3>1. Live(fetch1, 2)
      BY <1>4, <1>6, <2>4
    <3>2. ~(pc % 2 = 1)
      BY <1>5, <1>6, <1>8, <2>4, <3>1 DEF Idle
    <3>3. PICK b \in Nat : b = fetch1.queue[2].address /\ b % 2 = 0 /\ pc = NextLine(b)
      BY <1>2, <1>5, <1>6, <1>8, <2>4, <3>1
    <3>4. /\ Len(f.queue) = 1 /\ f.queue[1].address = b
          /\ f.queue[1].killed <=> Kills
      <4>1. Len(f.queue) = 1
        BY <1>8, <2>2, <2>4
      <4>2. f.queue[1].address = fetch1.queue[2].address
            /\ (f.queue[1].killed <=> fetch1.queue[2].killed \/ Kills)
        <5>1. \A i \in 1 .. 1 :
                /\ f.queue[i].address = fetch1.queue[i + 1].address
                /\ f.queue[i].killed <=> fetch1.queue[i + 1].killed \/ Kills
          BY <2>1, <4>1 DEF Leaves
        <5> QED
          BY <1>8, <5>1
      <4> QED
        BY <3>1, <3>3, <4>1, <4>2 DEF Live
    <3>5. ~Live(f, 2) /\ (Live(f, 1) <=> ~Kills)
      BY <1>8, <3>4 DEF Live
    <3>6. CASE ~Kills
      <4>1. ~Live(fetch1, 1) /\ Live(f, 1)
        BY <2>1, <3>5, <3>6 DEF Live
      <4>2. Aim(f, pc) = b /\ Aim(fetch1, pc) = b
        BY <3>1, <3>3, <3>4, <4>1 DEF Aim
      <4>3. HalfOK(f.half, Aim(f, pc)) /\ Reaches(f, pc, tip)
        BY <1>5, <2>1, <4>2 DEF Reaches
      <4>4. Settled(f, pc)
        BY <2>1, <3>2, <3>3, <3>4, <4>1, <4>3 DEF Settled
      <4> QED
        BY <1>9, <1>11, <2>1, <4>3, <4>4
    <3>7. CASE Kills
      <4>1. PICK a \in Nat : a = fetch1.queue[1].address /\ a >= End
        BY <1>2, <1>6, <1>8, <2>4, <3>7 DEF Kills
      <4>2. b >= End
        <5>1. CASE Live(fetch1, 1)
          <6>1. b = NextLine(a)
            BY <1>5, <1>6, <2>4, <3>3, <4>1, <5>1
          <6> QED
            BY <1>3, <4>1, <6>1, NextLineFacts
        <5>2. CASE ~Live(fetch1, 1)
          BY <1>5, <3>1, <3>3, <5>2
        <5> QED
          BY <5>1, <5>2
      <4>3. pc = End
        BY <1>3, <3>3, <4>2, NextLineFacts
      <4>4. Aim(f, pc) = End
        BY <3>5, <3>7, <4>3 DEF Aim
      <4>5. PICK m \in Nat : m = Aim(fetch1, pc) /\ m >= End
        BY <3>1, <3>3, <4>1, <4>2 DEF Aim
      <4>6. HalfOK(f.half, End)
        BY <1>3, <1>5, <2>1, <4>5, HalfAtEnd
      <4>7. End >= End
        BY <1>3
      <4>8. Reaches(f, pc, tip)
        BY <1>3, <2>1, <4>4, <4>7 DEF Reaches
      <4>9. Settled(f, pc)
        BY <2>1, <3>2, <3>4, <3>5, <3>7, <4>3, <4>4, <4>6, <4>7 DEF Settled
      <4> QED
        BY <1>9, <1>11, <2>1, <4>8, <4>9
    <3> QED
      BY <3>6, <3>7
  <2> QED
    BY <1>7, <2>2, <2>3, <2>4
<1>15. CASE Faults(out)
  <2>1. Live(fetch1, 1) /\ fetch1.queue[1].address % 2 = 1
    BY <1>15 DEF Faults
  <2>2. 1 \in 1 .. Len(fetch1.queue)
    BY <2>1 DEF Live
  <2>3. fetch1.queue[1].address \in Nat /\ fetch1.queue[1].address % 2 = 0
    BY <1>2, <1>5, <2>1, <2>2
  <2> QED
    BY <2>1, <2>3, OddOrEven
<1>16. CASE Hands(out)
  <2>1. PICK a : a = fetch1.queue[1].address
    OBVIOUS
  <2>2. PICK c : c = [package |-> out.package, half |-> out.fetch1.half, target |-> out.target]
    OBVIOUS
  <2>3. /\ Leaves(f) /\ ~Kills /\ Live(fetch1, 1) /\ a % 2 = 0 /\ a < End
        /\ CutOK(c, IF fetch1.half = <<>> THEN a ELSE fetch1.half[1], NextLine(a))
        /\ f.state = "Idle"
    BY <1>11, <1>16, <2>1, <2>2 DEF Hands
  <2>4. c.package = out.package /\ c.half = f.half /\ c.target = out.target
    BY <1>11, <2>2
  <2>5. Aim(fetch1, pc) = a /\ a \in Nat
    <3>1. 1 \in 1 .. Len(fetch1.queue)
      BY <2>3 DEF Live
    <3> QED
      BY <1>2, <2>1, <2>3, <3>1 DEF Aim
  <2>6. tip = IF fetch1.half = <<>> THEN a ELSE fetch1.half[1]
    BY <1>3, <2>3, <2>5 DEF Reaches
  <2>7. CutOK(c, tip, NextLine(a))
    BY <2>3, <2>6
  <2>8. PICK e \in Nat : e = NextLine(a) /\ e % FetchByteWidth = 0 /\ e % 2 = 0
    BY <1>3, <2>5, NextLineFacts
  <2>9. /\ Follows(out.package, tip)
        /\ out.target # <<>> => out.target = <<Tip(out.package, tip)>>
        /\ out.target = <<>> /\ f.half = <<>> => Tip(out.package, tip) = e
        /\ f.half # <<>> => /\ f.half = <<e - 2>> /\ Tip(out.package, tip) = e - 2
                            /\ e - 2 \in DOMAIN program /\ program[e - 2].wide
    BY <2>4, <2>7, <2>8 DEF CutOK
  <2>10. ~(pc % 2 = 1)
    BY <1>5, <2>3 DEF Idle, Live
  <2>11. /\ Aim(f, pc) = e /\ ~Live(f, 2)
         /\ Len(f.queue) = 0 \/ Len(f.queue) = 1
         /\ Live(f, 1) => f.queue[1].address % 2 = 0 /\ pc = NextLine(f.queue[1].address)
         /\ Len(f.queue) = 1 => Live(f, 1)
    <3>1. n # 0 /\ Len(f.queue) = n - 1
      BY <1>6, <2>3 DEF Leaves
    <3>2. CASE n = 1
      <4>1. Len(f.queue) = 0 /\ ~Live(f, 1) /\ ~Live(f, 2)
        BY <1>8, <3>1, <3>2 DEF Live
      <4>2. pc = e
        BY <1>5, <1>6, <2>1, <2>3, <2>8, <3>2
      <4> QED
        BY <4>1, <4>2 DEF Aim
    <3>3. CASE n = 2
      <4>1. Live(fetch1, 2) /\ fetch1.queue[2].address = e
        BY <1>5, <1>6, <2>1, <2>3, <2>8, <3>3
      <4>2. Len(f.queue) = 1
        BY <1>8, <3>1, <3>3
      <4>3. /\ f.queue[1].address = fetch1.queue[2].address
            /\ f.queue[1].killed <=> fetch1.queue[2].killed \/ Kills
        BY <1>8, <2>3, <4>2 DEF Leaves
      <4>4. Live(f, 1) /\ ~Live(f, 2)
        BY <1>8, <2>3, <4>1, <4>2, <4>3 DEF Live
      <4>5. pc = NextLine(e)
        BY <1>5, <1>6, <3>3, <4>1
      <4> QED
        BY <2>8, <4>1, <4>2, <4>3, <4>4, <4>5 DEF Aim
    <3> QED
      BY <1>7, <3>1, <3>2, <3>3
  <2>12. HalfOK(f.half, e)
    BY <2>8, <2>9, OneIs DEF HalfOK
  <2>13. out.target = <<>> => Settled(f, pc) /\ Reaches(f, pc, Tip(out.package, tip))
    <3>1. Settled(f, pc)
      BY <2>3, <2>10, <2>11, <2>12 DEF Settled
    <3>2. out.target = <<>> => Reaches(f, pc, Tip(out.package, tip))
      BY <2>9, <2>11, OneIs DEF Reaches
    <3> QED
      BY <3>1, <3>2
  <2> QED
    BY <1>11, <2>9, <2>13
<1> QED
  BY <1>13, <1>14, <1>15, <1>16 DEF Outcome

LEMMA IdleGoesOn ==
  ASSUME NEW f, NEW n \in Nat, n = Len(f.queue), n <= 1, Idle(f), NEW next
  PROVE  Path(f, next, <<>>) /\ Reaches(f, next, next)
<1>1. n # 2
  OBVIOUS
<1>2. \A i : ~Live(f, i)
  BY DEF Idle, Live
<1>3. Aim(f, next) = next
  BY <1>2 DEF Aim
<1>4. f.half = <<>> /\ f.state = "Idle"
  BY DEF Idle
<1>5. Run(f, next)
  BY <1>2, <1>4 DEF Run
<1> QED
  BY <1>1, <1>3, <1>4, <1>5 DEF Path, Reaches

\* Fetch1 goes on where it was, from the last redirect, or boots.
LEMMA Fetch1GoesOn ==
  ASSUME Inv, ShortLatency, phase = "Fetch1", phase' = "Commit",
         program' = program, conf' = conf, NEW out, Outcome(out),
         "Fetch1" \notin flushSync,
         NEW f, f = fetch1', NEW next, next = pcRegister'.in[1],
         NEW later, later = Later', NEW tip, tip = Goal
  PROVE  /\ Follows(out.package, tip)
         /\ out.target # <<>> => out.target = <<Tip(out.package, tip)>>
         /\ out.target = <<>> => /\ Path(f, next, later)
                                 /\ Reaches(f, next, Tip(out.package, tip))
<1>1. /\ fetch1 \in Fetcher /\ conf.iCacheLatency \in {1, 2}
      /\ conf.inflightQueueSize \in Nat /\ conf.inflightQueueSize >= conf.iCacheLatency + 1
      /\ Len(fetch1.queue) <= conf.iCacheLatency
      /\ fetch1.state = "Idle" \/ Sooner = <<>>
  BY Fetches1
<1>2. /\ Len(fetch1.queue) \in Nat
      /\ \A i \in 1 .. Len(fetch1.queue) :
           /\ fetch1.queue[i].address \in Nat
           /\ fetch1.queue[i].busy <=> fetch1.queue[i].address % 2 = 0
  BY <1>1, FetcherIs
<1>3. Follows(<<>>, tip) /\ Tip(<<>>, tip) = tip
  BY DEF Follows, Tip
<1>4. PICK g : g = out.fetch1
  OBVIOUS
<1>5. /\ g \in Fetcher /\ Len(g.queue) \in Nat /\ Len(g.queue) <= 1
      /\ Stays(out) \/ Drops(out) \/ Faults(out) \/ Hands(out)
  <2>1. g \in Fetcher /\ Len(g.queue) <= conf.iCacheLatency - 1
    BY <1>4 DEF Outcome
  <2>2. Len(g.queue) \in Nat
    BY <2>1, FetcherIs
  <2>3. PICK n \in Nat, w \in {1, 2} : n = Len(g.queue) /\ w = conf.iCacheLatency
    BY <1>1, <2>2
  <2>4. n <= w - 1
    BY <2>1, <2>3
  <2>5. n <= 1
    BY <2>4
  <2> QED
    BY <2>1, <2>2, <2>3, <2>5 DEF Outcome
<1>6. f = IF pcRegister.out # <<>> /\ g.state = "Idle"
          THEN Requested(g, pcRegister.out[1]) ELSE g
  BY <1>4 DEF Outcome, Fetch1Does
<1>7. Early /\ (pcRegister.in # <<>> => pcRegister.out = <<>>)
  BY DEF Early, Inv, Protocol
<1>8. Meets(tip)
  BY DEF Inv, Aimed
<1>9. /\ ~(pcRegister.out # <<>> /\ g.state = "Idle") => later = <<>>
      /\ pcRegister.out # <<>> /\ pcRegister.out[1] % 2 = 1 => later = <<>>
  BY <1>4, Fetch1Queue
<1>10. CASE Redirected
  <2>1. Idle(fetch1) /\ pcRegister.out = <<>>
    BY <1>7, <1>10, EmptyIs DEF Inv, Fetching
  <2>2. \A i : ~Live(fetch1, i)
    BY <2>1 DEF Idle, Live
  <2>3. next = tip
    BY <1>7, <1>8, <1>10, Fetch1Latches DEF Meets
  <2>4. f = g /\ later = <<>>
    BY <1>6, <1>9, <2>1
  <2>5. Stays(out) \/ Drops(out)
    BY <1>5, <2>2 DEF Faults, Hands
  <2>6. out.package = <<>> /\ out.target = <<>> /\ g.state = "Idle" /\ g.half = <<>>
    BY <1>4, <2>1, <2>5 DEF Stays, Drops, Idle
  <2>7. \A i \in 1 .. Len(g.queue) : ~Live(g, i)
    <3>1. CASE Stays(out)
      BY <1>4, <2>2, <3>1 DEF Stays
    <3>2. CASE Drops(out)
      <4>1. Leaves(g)
        BY <1>4, <3>2 DEF Drops
      <4>2. TAKE i \in 1 .. Len(g.queue)
      <4>3. g.queue[i].killed <=> fetch1.queue[i + 1].killed \/ Kills
        BY <4>1 DEF Leaves
      <4>4. i + 1 \in 1 .. Len(fetch1.queue)
        <5>1. PICK n \in Nat, m \in Nat : n = Len(fetch1.queue) /\ m = Len(g.queue)
          BY <1>2, <1>5
        <5>2. m = n - 1 /\ n >= 1
          BY <4>1, <5>1 DEF Leaves
        <5> QED
          BY <5>1, <5>2
      <4> QED
        BY <2>2, <4>3, <4>4 DEF Live
    <3> QED
      BY <2>5, <3>1, <3>2
  <2>8. Idle(g)
    BY <2>6, <2>7 DEF Idle
  <2> QED
    BY <1>3, <1>5, <2>3, <2>4, <2>6, <2>8, IdleGoesOn
<1>11. CASE ~Redirected /\ pcRegister.out = <<>>
  <2>1. pcRegister.in # <<>> /\ fetch1 = Fetch1Reset
    BY <1>7, <1>11 DEF Inv, Fetching
  <2>2. next = pcRegister.in[1]
    BY <1>11, Fetch1Latches
  <2>3. f = g /\ later = <<>>
    BY <1>6, <1>9, <1>11
  <2>4. Len(fetch1.queue) = 0 /\ fetch1.half = <<>> /\ fetch1.state = "Idle"
    BY <2>1 DEF Fetch1Reset
  <2>5. ~(Len(fetch1.queue) >= 1)
    BY <2>4
  <2>6. Stays(out)
    BY <1>5, <2>5 DEF Drops, Faults, Hands, Leaves
  <2>7. g = fetch1 /\ out.package = <<>> /\ out.target = <<>>
    BY <1>4, <2>6 DEF Stays
  <2>8. Reaches(fetch1, next, tip)
    BY <1>7, <1>8, <1>11, <2>1, <2>2 DEF Meets
  <2>9. Idle(fetch1)
    BY <2>4 DEF Idle
  <2>10. Path(fetch1, next, <<>>)
    <3>1. PICK n \in Nat : n = Len(fetch1.queue) /\ n <= 1
      BY <1>2, <2>4
    <3> QED
      BY <2>9, <3>1, IdleGoesOn
  <2> QED
    BY <1>3, <2>3, <2>7, <2>8, <2>10
<1>12. CASE ~Redirected /\ pcRegister.out # <<>>
  <2>1. PICK pc \in Nat : pc = pcRegister.out[1]
    BY <1>12, Fetch1Latches
  <2>2. Path(fetch1, pc, Later)
    BY <1>7, <1>12, <2>1 DEF Inv, Fetching
  <2>3. Reaches(fetch1, pc, tip)
    BY <1>7, <1>8, <1>12, <2>1 DEF Meets
  <2>4. next = IF g.state = "Idle" /\ pc % 2 = 0 THEN NextLine(pc) ELSE pc
    BY <1>4, <1>12, <2>1, Fetch1Latches
  <2>5. CASE fetch1.state = "Idle"
    <3>1. /\ Follows(out.package, tip)
          /\ out.target # <<>> => out.target = <<Tip(out.package, tip)>>
          /\ out.target = <<>> => Settled(g, pc) /\ Reaches(g, pc, Tip(out.package, tip))
      BY <1>4, <2>2, <2>3, <2>5, OutcomeSettles
    <3>2. ASSUME out.target = <<>>
          PROVE  Path(f, next, later) /\ Reaches(f, next, Tip(out.package, tip))
      <4>1. Settled(g, pc) /\ Reaches(g, pc, Tip(out.package, tip)) /\ g.state = "Idle"
        BY <3>1, <3>2 DEF Settled
      <4>2. f = Requested(g, pc) /\ next = IF pc % 2 = 0 THEN NextLine(pc) ELSE pc
        BY <1>6, <1>12, <2>1, <2>4, <4>1
      <4>3. pc % 2 = 1 => later = <<>>
        BY <1>9, <1>12, <2>1
      <4>4. conf.inflightQueueSize \in Nat \ {0} /\ program \in Programs
        BY <1>1 DEF Inv, Shape
      <4> QED
        BY <1>5, <4>1, <4>2, <4>3, <4>4, RequestKeepsPath
    <3> QED
      BY <3>1, <3>2
  <2>6. CASE fetch1.state = "HandleExcp"
    <3>1. /\ fetch1.half = <<>> /\ Len(fetch1.queue) = 1 /\ Live(fetch1, 1)
          /\ fetch1.queue[1].address % 2 = 1
      BY <2>2, <2>6 DEF Path
    <3>2. PICK a \in Nat : a = fetch1.queue[1].address /\ ~(a % 2 = 0) /\ a % 2 = 1
      BY <1>2, <3>1, OddOrEven DEF Live
    <3>3. ~fetch1.queue[1].busy /\ ~fetch1.queue[1].killed /\ ~Kills
      BY <1>1, <1>2, <2>6, <3>1, <3>2 DEF Live, Kills
    <3>4. Faults(out)
      BY <1>5, <3>1, <3>2, <3>3 DEF Stays, Drops, Hands
    <3>5. /\ out.package = <<FaultInsn(a)>> /\ out.target = <<>>
          /\ g.half = <<>> /\ g.state = "WaitForResume"
      BY <1>4, <3>1, <3>2, <3>4 DEF Faults
    <3>6. g.queue = <<>>
      <4>1. PICK m \in Nat : m = Len(g.queue)
        BY <1>5
      <4>2. m = 1 - 1
        BY <1>4, <3>1, <3>4, <4>1 DEF Faults, Leaves
      <4>3. m = 0
        BY <4>2
      <4>4. g.queue \in Seq(Entry)
        BY <1>5 DEF Fetcher, FetcherOf
      <4> QED
        BY <4>1, <4>3, <4>4, EmptySeq
    <3>7. f = g
      BY <1>6, <3>5
    <3>8. Path(f, next, later) /\ \A t : Reaches(f, next, t)
      BY <3>5, <3>6, <3>7 DEF Path, Reaches
    <3>9. tip = a
      BY <2>3, <2>6, <3>1, <3>2 DEF Reaches, Aim
    <3>10. Follows(out.package, tip)
      <4>1. PICK x : x = FaultInsn(a)
        OBVIOUS
      <4>2. x.pc = a
        BY <4>1 DEF FaultInsn
      <4>3. out.package # <<>> /\ out.package[1] = x /\ Len(out.package) = 1
        BY <3>5, <4>1
      <4>4. \A i \in 1 .. (Len(out.package) - 1) : FALSE
        BY <4>3
      <4> QED
        BY <3>9, <4>2, <4>3, <4>4 DEF Follows
    <3> QED
      BY <3>5, <3>8, <3>10
  <2>7. CASE fetch1.state = "WaitForResume"
    <3>1. fetch1.half = <<>> /\ fetch1.queue = <<>>
      BY <2>2, <2>7 DEF Path
    <3>2. ~(Len(fetch1.queue) >= 1)
      BY <3>1
    <3>3. Stays(out)
      BY <1>5, <3>2 DEF Drops, Faults, Hands, Leaves
    <3>4. g = fetch1 /\ out.package = <<>> /\ out.target = <<>>
      BY <1>4, <3>3 DEF Stays
    <3>5. f = fetch1
      BY <1>6, <2>7, <3>4
    <3> QED
      BY <1>3, <2>7, <3>1, <3>4, <3>5 DEF Path, Reaches
  <2> QED
    BY <2>2, <2>5, <2>6, <2>7 DEF Path
<1> QED
  BY <1>10, <1>11, <1>12

\* The redirect of Fetch1 itself gives way to every other.
LEMMA Fetch1GivesWay ==
  ASSUME NEW stages, stages \subseteq Redirectors, stages # {}, "Fetch1" \notin stages,
         NEW more, more = stages \/ more = stages \union {"Fetch1"}
  PROVE  Winner(more) = Winner(stages) /\ Winner(stages) # "Fetch1"
<1>1. PICK w : w = Winner(stages)
  OBVIOUS
<1>2. w \in stages /\ w # "Fetch1" /\ \A t \in stages : Rank[w] >= Rank[t]
  BY <1>1, WinnerExists
<1>3. "Fetch1" \in Redirectors /\ Rank[w] >= Rank["Fetch1"]
  <2>1. w \in {"Fetch2", "Issue", "Commit"}
    BY <1>2 DEF Redirectors, Rank
  <2> QED
    BY <2>1 DEF Redirectors, Rank
<1>4. more \subseteq Redirectors /\ w \in more /\ \A t \in more : Rank[w] >= Rank[t]
  BY <1>2, <1>3
<1>5. Winner(more) = w
  BY <1>4, WinnerIs
<1> QED
  BY <1>1, <1>2, <1>5

LEMMA PathKept ==
  ASSUME program' = program, NEW CONSTANT f, NEW CONSTANT pc, NEW CONSTANT later,
         NEW CONSTANT tip,
         fetch1' = f, pcRegister'.in[1] = pc, Later' = later
  PROVE  /\ Path(f, pc, later) => Path(fetch1, pcRegister.in[1], Later)'
         /\ Reaches(f, pc, tip) => Reaches(fetch1, pcRegister.in[1], tip)'
<1>1. End' = End /\ NextLine(f.queue[Len(f.queue)].address)' = NextLine(f.queue[Len(f.queue)].address)
      /\ NextLine(f.queue[1].address)' = NextLine(f.queue[1].address)
  BY MemoryKept
<1>2. Run(f, pc) => Run(fetch1, pcRegister.in[1])'
  BY <1>1 DEF Run, Live, Idle, Aim, NextLine, Line
<1>3. Path(f, pc, later) => Path(fetch1, pcRegister.in[1], Later)'
  BY <1>2 DEF Path, Live
<1>4. Reaches(f, pc, tip) => Reaches(fetch1, pcRegister.in[1], tip)'
  BY <1>1 DEF Reaches, Aim, Live
<1> QED
  BY <1>3, <1>4

LEMMA Fetch1Stages ==
  ASSUME Inv, ShortLatency, phase = "Fetch1", phase' = "Commit",
         UNCHANGED <<program, conf, insnBuffer, decodeQueue, toDecode, toDispatch, acks, back>>,
         NEW out, Outcome(out)
  PROVE  Shape' /\ Protocol' /\ Offers' /\ ~Early' /\ (Flushing' <=> Flushing)
<1>1. /\ ackFetch2' = ackFetch2 /\ ackDecode' = ackDecode /\ robIdle' = robIdle
      /\ redirects' = redirects /\ inFlight' = inFlight /\ due' = due
  BY DEF acks, back
<1>2. PICK S, p2, de, di : /\ S = Insns(program)
                           /\ p2 = Package(program, FetchByteWidth \div 2)
                           /\ de = Package(program, conf.decodeWidth)
                           /\ di = Package(program, conf.dispatchWidth)
  OBVIOUS
<1>3. /\ S = Insns(program)' /\ de = Package(program, conf.decodeWidth)'
      /\ di = Package(program, conf.dispatchWidth)'
      /\ p2 = Package(program, FetchByteWidth \div 2)'
  <2>1. S = Insns(program)'
    BY <1>2, MemoryKept
  <2> QED
    BY <1>2, <2>1 DEF Package
<1>4. Early /\ ~Early'
  BY DEF Early
<1>5. /\ toFetch2' \in Latch(p2) /\ ~toFetch2'.stall
      /\ toFetch2'.flush = toFetch2.flush
      /\ redirect' \in [Redirectors -> Latch(Nat)]
      /\ \A s \in Redirectors : /\ redirect'[s].out = redirect[s].out
                                /\ ~redirect'[s].stall /\ ~redirect'[s].flush
                                /\ s # "Fetch1" => redirect'[s].in = redirect[s].in
      /\ redirect'["Fetch1"].in = out.target
      /\ flushSync' = IF out.target = <<>> THEN flushSync
                      ELSE flushSync \union {"Fetch1"}
  BY <1>2, Fetch1Sends
<1>6. /\ fetch1' \in Fetcher /\ fetch1'.header < conf.inflightQueueSize
      /\ Len(fetch1'.queue) <= conf.iCacheLatency
      /\ iCache' \in Cache
  BY Fetch1Queue
<1>7. /\ pcRegister' \in Latch(Nat) /\ ~pcRegister'.stall /\ ~pcRegister'.flush
      /\ pcRegister'.in # <<>>
  <2>1. pcRegister.out = <<>> \/ ~Redirected
    BY Fetch1Latches
  <2> QED
    BY <2>1, Fetch1Latches
<1>8. flushSync' \in SUBSET {"Fetch1", "Fetch2", "Decode"}
  BY <1>5 DEF Inv, Shape
<1>9. Shape'
  BY <1>1, <1>2, <1>3, <1>5, <1>6, <1>7, <1>8 DEF Inv, Shape, Fetcher, FetcherOf, Cache
<1>10. /\ "Fetch2" \in Redirectors /\ "Fetch1" \in Redirectors
       /\ "Issue" \in Redirectors /\ "Commit" \in Redirectors
  BY DEF Redirectors, Rank
<1>11. /\ Flushing' <=> Flushing
       /\ "Fetch2" \in flushSync' <=> "Fetch2" \in flushSync
  BY <1>5 DEF Flushing
<1>12. redirect["Fetch1"].in = <<>>
  BY <1>4 DEF Inv, Protocol
<1>13. "Fetch1" \in flushSync' <=> \E s \in Redirectors : redirect'[s].in # <<>>
  <2>1. "Fetch1" \in flushSync <=> \E s \in Redirectors : redirect[s].in # <<>>
    BY DEF Inv, Protocol
  <2>2. CASE out.target = <<>>
    BY <1>5, <1>12, <2>1, <2>2
  <2>3. CASE out.target # <<>>
    BY <1>5, <1>10, <2>3
  <2> QED
    BY <2>2, <2>3
<1>14. "Fetch1" \in flushSync => "Fetch1" \in flushSync'
  BY <1>5
<1>15. Protocol'
  BY <1>1, <1>4, <1>5, <1>7, <1>10, <1>11, <1>13, <1>14 DEF Inv, Protocol, Flushing
<1>16. Offers'
  BY DEF Inv, Offers, OffersOf, Begins
<1> QED
  BY <1>4, <1>9, <1>11, <1>15, <1>16

LEMMA Fetch1Keeps == ASSUME Inv, ShortLatency, NoStraySend, Fetch1 PROVE Inv'
<1>1. /\ phase = "Fetch1" /\ phase' = "Commit"
      /\ UNCHANGED <<program, conf, insnBuffer, decodeQueue, toDecode, toDispatch, acks, back>>
  BY Fetch1Is
<1>2. PICK out : Outcome(out)
  BY Fetch1Is
<1>3. Shape' /\ Protocol' /\ Offers' /\ ~Early' /\ (Flushing' <=> Flushing)
  BY <1>1, <1>2, Fetch1Stages
<1>4. Timing'
  BY <1>1, <1>2, Fetch1Queue
<1>5. due' = due
  BY <1>1 DEF back
<1>6. /\ toFetch2'.flush = toFetch2.flush
      /\ Flat(toFetch2'.in) = out.package
      /\ \A s \in Redirectors : s # "Fetch1" => redirect'[s].in = redirect[s].in
      /\ redirect'["Fetch1"].in = out.target
      /\ flushSync' = IF out.target = <<>> THEN flushSync
                      ELSE flushSync \union {"Fetch1"}
  BY <1>1, <1>2, Fetch1Sends
<1>7. Early /\ toFetch2.in = <<>> /\ redirect["Fetch1"].in = <<>>
  BY <1>1 DEF Early, Inv, Protocol
<1>8. PICK S : S = Insns(program)
  OBVIOUS
<1>9. PICK d \in Seq(S), h \in Seq(S) : d = decodeQueue /\ h = insnBuffer
  BY <1>8 DEF Inv, Shape
<1>10. PICK n : n = d \o h
  OBVIOUS
<1>11. n \in Seq(S) /\ n \o <<>> = n
  BY <1>10, ConcatProperties, ConcatEmptySeq
<1>12. out.package \in Seq(S)
  BY <1>2, <1>8 DEF Outcome
<1>13. Stream = n
  <2>1. OfDecode = d /\ OfFetch2 = h /\ OfFetch1 = <<>>
    BY <1>1, <1>7, <1>9 DEF OfDecode, OfFetch2, OfFetch1, Flat
  <2> QED
    BY <1>10, <1>11, <2>1 DEF Stream
<1>14. Stream' = n \o (IF toFetch2.flush THEN <<>> ELSE out.package)
  <2>1. OfDecode' = d /\ OfFetch2' = h
    BY <1>1, <1>9 DEF OfDecode, OfFetch2
  <2>2. OfFetch1' = IF toFetch2.flush THEN <<>> ELSE out.package
    BY <1>1, <1>6 DEF OfFetch1
  <2> QED
    BY <1>10, <2>1, <2>2 DEF Stream
<1>15. "Fetch1" \in Redirectors /\ InStages \subseteq Redirectors
  BY DEF InStages, Redirectors, Rank
<1>16. CASE "Fetch1" \in flushSync
  <2>1. "Fetch1" \in flushSync'
    BY <1>6, <1>16
  <2>2. InStages # {} /\ "Fetch1" \notin InStages
    BY <1>7, <1>16 DEF Inv, Protocol, InStages
  <2>3. InStages' = InStages \/ InStages' = InStages \union {"Fetch1"}
    <3>1. \A s \in Redirectors : s # "Fetch1" => (s \in InStages' <=> s \in InStages)
      BY <1>6 DEF InStages
    <3>2. InStages' \subseteq Redirectors
      BY DEF InStages
    <3>3. PICK m, k : m = InStages' /\ k = InStages
      OBVIOUS
    <3>4. /\ m \subseteq Redirectors /\ k \subseteq Redirectors /\ "Fetch1" \notin k
          /\ \A s \in Redirectors : s # "Fetch1" => (s \in m <=> s \in k)
      BY <1>15, <2>2, <3>1, <3>2, <3>3
    <3>5. CASE "Fetch1" \in m
      <4>1. \A s : s \in m <=> s \in k \union {"Fetch1"}
        BY <3>4, <3>5
      <4>2. m = k \union {"Fetch1"}
        BY <4>1
      <4> QED
        BY <3>3, <4>2
    <3>6. CASE "Fetch1" \notin m
      <4>1. \A s : s \in m <=> s \in k
        BY <3>4, <3>6
      <4>2. m = k
        BY <4>1
      <4> QED
        BY <3>3, <4>2
    <3> QED
      BY <3>5, <3>6
  <2>4. PICK more, w : more = InStages' /\ w = Winner(InStages)
    OBVIOUS
  <2>5. Winner(more) = w /\ w # "Fetch1" /\ w \in Redirectors
    <3>1. Winner(InStages) \in InStages
      BY <1>15, <2>2, WinnerExists
    <3> QED
      BY <1>15, <2>2, <2>3, <2>4, <3>1, Fetch1GivesWay
  <2>6. Winner(InStages)' = w
    BY <2>4, <2>5 DEF Winner
  <2>7. redirect'[w].in = redirect[w].in
    BY <1>6, <2>5
  <2>8. toFetch2.flush
    <3>1. PICK s \in InStages : TRUE
      BY <2>2
    <3>2. s \in {"Fetch2", "Issue", "Commit"} /\ redirect[s].in # <<>>
      BY <2>2 DEF InStages, Redirectors, Rank
    <3> QED
      BY <3>2 DEF Inv, Protocol
  <2>9. Stream' = n
    BY <1>11, <1>14, <2>8
  <2>10. Linked'
    BY <1>3, <1>5, <1>13, <2>9 DEF Inv, Linked, Follows
  <2>11. Goal' = Goal
    BY <1>3, <1>5, <1>13, <2>9 DEF Goal, Tip
  <2>12. Goal = redirect[w].in[1]
    BY <1>16, <2>4 DEF Inv, Aimed, Meets
  <2>13. Aimed'
    BY <2>1, <2>6, <2>7, <2>11, <2>12 DEF Aimed, Meets
  <2>14. Fetching'
    BY <1>3, <2>1 DEF Fetching
  <2> QED
    BY <1>3, <1>4, <2>10, <2>13, <2>14 DEF Inv
<1>17. CASE "Fetch1" \notin flushSync
  <2>1. ~Flushing /\ ~toFetch2.flush
    BY <1>17 DEF Inv, Protocol
  <2>2. PICK tip : tip = Goal
    OBVIOUS
  <2>3. tip = Tip(n, due) /\ Follows(n, due)
    BY <1>13, <2>1, <2>2 DEF Goal, Inv, Linked
  <2>4. PICK f, next, later : f = fetch1' /\ next = pcRegister'.in[1] /\ later = Later'
    OBVIOUS
  <2>5. /\ Follows(out.package, tip)
        /\ out.target # <<>> => out.target = <<Tip(out.package, tip)>>
        /\ out.target = <<>> => /\ Path(f, next, later)
                                /\ Reaches(f, next, Tip(out.package, tip))
    BY <1>1, <1>2, <1>17, <2>2, <2>4, Fetch1GoesOn
  <2>6. Stream' = n \o out.package
    BY <1>14, <2>1
  <2>7. /\ Follows(n \o out.package, due)
        /\ Tip(n \o out.package, due) = Tip(out.package, tip)
    BY <1>11, <1>12, <2>3, <2>5, FollowsConcat
  <2>8. Linked'
    BY <1>5, <2>6, <2>7 DEF Linked, Follows
  <2>9. PICK last : last = Tip(out.package, tip)
    OBVIOUS
  <2>10. Goal' = last
    BY <1>3, <1>5, <2>1, <2>6, <2>7, <2>9 DEF Goal, Tip
  <2>11. CASE out.target = <<>>
    <3>1. "Fetch1" \notin flushSync'
      BY <1>6, <1>17, <2>11
    <3>2. /\ Path(fetch1, pcRegister.in[1], Later)'
          /\ Reaches(fetch1, pcRegister.in[1], last)'
      BY <1>1, <2>4, <2>5, <2>9, <2>11, PathKept
    <3>3. pcRegister'.in # <<>>
      BY <1>3 DEF Protocol
    <3>4. Aimed'
      BY <1>3, <2>10, <3>1, <3>2, <3>3 DEF Aimed, Meets
    <3>5. Fetching'
      BY <1>3, <3>2 DEF Fetching
    <3> QED
      BY <1>3, <1>4, <2>8, <3>4, <3>5 DEF Inv
  <2>12. CASE out.target # <<>>
    <3>1. "Fetch1" \in flushSync'
      BY <1>6, <2>12
    <3>2. \A s \in Redirectors : redirect[s].in = <<>>
      BY <1>17 DEF Inv, Protocol
    <3>3. PICK more : more = InStages'
      OBVIOUS
    <3>4. more = {"Fetch1"}
      BY <1>6, <1>15, <2>12, <3>2, <3>3 DEF InStages
    <3>5. Winner(more) = "Fetch1"
      <4>1. Winner(more) \in more
        BY <1>15, <3>4, WinnerExists
      <4> QED
        BY <3>4, <4>1
    <3>6. Winner(InStages)' = "Fetch1"
      BY <3>3, <3>5 DEF Winner
    <3>7. redirect'["Fetch1"].in = <<last>>
      BY <1>6, <2>5, <2>9, <2>12
    <3>8. Aimed'
      BY <2>10, <3>1, <3>6, <3>7 DEF Aimed, Meets
    <3>9. Fetching'
      BY <1>3, <3>1 DEF Fetching
    <3> QED
      BY <1>3, <1>4, <2>8, <3>8, <3>9 DEF Inv
  <2> QED
    BY <2>11, <2>12
<1> QED
  BY <1>16, <1>17

-----------------------------------------------------------------------------
(* Every step.                                                             *)

LEMMA StutterKeeps == ASSUME Inv, UNCHANGED vars PROVE Inv'
<1>1. /\ UNCHANGED <<program, conf, phase, fetch, insnBuffer, decodeQueue, toFetch2>>
      /\ UNCHANGED <<toDecode, toDispatch, acks, redirect, flushSync, back>>
  BY DEF vars
<1>2. /\ pcRegister' = pcRegister /\ iCache' = iCache /\ fetch1' = fetch1
      /\ ackFetch2' = ackFetch2 /\ ackDecode' = ackDecode
      /\ robIdle' = robIdle /\ redirects' = redirects /\ inFlight' = inFlight /\ due' = due
  BY <1>1 DEF fetch, acks, back
<1>3. Insns(program)' = Insns(program)
  BY <1>1, MemoryKept
<1>4. Shape'
  BY <1>1, <1>2, <1>3 DEF Inv, Shape, Package
<1>5. (Early' <=> Early) /\ (Flushing' <=> Flushing)
  BY <1>1 DEF Early, Flushing
<1>6. Protocol'
  BY <1>1, <1>2, <1>5 DEF Inv, Protocol
<1>7. Offers'
  BY <1>1, <1>2 DEF Inv, Offers, OffersOf, Begins
<1>8. OfDecode' = OfDecode /\ OfFetch2' = OfFetch2 /\ OfFetch1' = OfFetch1
  BY <1>1, <1>2 DEF OfDecode, OfFetch2, OfFetch1, Released, Drop, Acked, OutPort, Flat
<1>9. Stream' = Stream
  BY <1>8 DEF Stream
<1>10. Linked'
  BY <1>2, <1>5, <1>9 DEF Inv, Linked, Follows
<1>11. Timing' /\ Fetching'
  BY <1>1, <1>5, FetchKept DEF Inv
<1>12. Aimed'
  <2>1. PICK tip : tip = Goal
    OBVIOUS
  <2>2. Goal' = tip
    BY <1>2, <1>5, <1>9, <2>1 DEF Goal, Tip
  <2>3. Meets(tip)'
    BY <1>1, <1>5, <2>1, MeetsKept DEF Inv, Aimed
  <2> QED
    BY <2>2, <2>3 DEF Aimed
<1> QED
  BY <1>4, <1>6, <1>7, <1>10, <1>11, <1>12 DEF Inv

LEMMA StepKeeps == ASSUME Inv, ShortLatency, NoStraySend, [Next]_vars PROVE Inv'
<1>1. CASE Iew
  BY <1>1, IewKeeps
<1>2. ASSUME NEW t \in Targets, Mispredict(t) PROVE Inv'
  BY <1>2, MispredictKeeps
<1>3. CASE DispatchStalls
  BY <1>3, DispatchStallsKeeps
<1>4. CASE DispatchTakesNone
  BY <1>4, DispatchTakesNoneKeeps
<1>5. CASE DispatchTakes
  BY <1>5, DispatchTakesKeeps
<1>6. CASE Decode
  BY <1>6, DecodeKeeps
<1>7. CASE Fetch2
  BY <1>7, Fetch2Keeps
<1>8. CASE Fetch1
  BY <1>8, Fetch1Keeps
<1>9. CASE Commit
  BY <1>9, CommitKeeps
<1>10. ASSUME NEW t \in Targets, Trap(t) PROVE Inv'
  BY <1>10, TrapKeeps
<1>11. CASE TickAdvances
  BY <1>11, TickKeeps
<1>12. CASE UNCHANGED vars
  BY <1>12, StutterKeeps
<1> QED
  BY <1>1, <1>2, <1>3, <1>4, <1>5, <1>6, <1>7, <1>8, <1>9, <1>10, <1>11, <1>12 DEF Next

\* Half an instruction is the first parcel of one that is in memory, also
\* while the redirect that will clear it is on its way.
HalfIn == fetch1.half \in {<<>>} \union {<<a>> : a \in DOMAIN program}

LEMMA HalfKeeps ==
  ASSUME Inv, HalfIn, ShortLatency, NoStraySend, [Next]_vars PROVE HalfIn'
<1>1. CASE Fetch1
  <2>1. phase = "Fetch1" /\ program' = program
    BY <1>1, Fetch1Is
  <2>2. PICK out : Outcome(out)
    BY <1>1, Fetch1Is
  <2>3. PICK f : f = out.fetch1
    OBVIOUS
  <2>4. /\ f \in Fetcher
        /\ Stays(out) \/ Drops(out) \/ Faults(out) \/ Hands(out)
    BY <2>2, <2>3 DEF Outcome
  <2>5. f.half \in {<<>>} \union {<<a>> : a \in DOMAIN program}
    <3>1. CASE Stays(out)
      BY <2>3, <3>1 DEF Stays, HalfIn
    <3>2. CASE Drops(out)
      BY <2>3, <3>2 DEF Drops, HalfIn
    <3>3. CASE Faults(out)
      BY <2>3, <3>3 DEF Faults, HalfIn
    <3>4. CASE Hands(out)
      <4>1. PICK a : a = fetch1.queue[1].address
        OBVIOUS
      <4>2. PICK c : c = [package |-> out.package, half |-> out.fetch1.half, target |-> out.target]
        OBVIOUS
      <4>3. CutOK(c, IF fetch1.half = <<>> THEN a ELSE fetch1.half[1], NextLine(a))
        BY <3>4, <4>1, <4>2 DEF Hands
      <4>4. c.half = f.half
        BY <2>3, <4>2
      <4>5. PICK e : e = NextLine(a)
        OBVIOUS
      <4>6. f.half # <<>> => f.half = <<e - 2>> /\ e - 2 \in DOMAIN program
        BY <4>3, <4>4, <4>5 DEF CutOK
      <4> QED
        BY <4>6
    <3> QED
      BY <2>4, <3>1, <3>2, <3>3, <3>4
  <2>6. pcRegister.out # <<>> => pcRegister.out[1] \in Nat
    BY <2>1, <2>2, Fetch1Latches
  <2>7. fetch1'.half = f.half
    <3>1. CASE pcRegister.out # <<>> /\ f.state = "Idle"
      <4>1. PICK pc \in Nat : pc = pcRegister.out[1]
        BY <2>6, <3>1
      <4>2. conf.inflightQueueSize \in Nat \ {0}
        BY <2>1, Fetches1
      <4>3. Requested(f, pc).half = f.half
        BY <2>4, <4>2, RequestedIs
      <4> QED
        BY <2>2, <2>3, <3>1, <4>1, <4>3 DEF Outcome, Fetch1Does
    <3>2. CASE ~(pcRegister.out # <<>> /\ f.state = "Idle")
      BY <2>2, <2>3, <3>2 DEF Outcome, Fetch1Does
    <3> QED
      BY <3>1, <3>2
  <2> QED
    BY <2>1, <2>5, <2>7 DEF HalfIn
<1>2. CASE TickAdvances
  <2>1. program' = program /\ fetch1' = IF "Fetch1" \in flushSync THEN Flushed(fetch1) ELSE fetch1
    BY <1>2 DEF TickAdvances
  <2>2. CASE "Fetch1" \in flushSync
    <3>1. fetch1 \in Fetcher /\ Len(fetch1.queue) < conf.inflightQueueSize
      <4>1. fetch1 \in Fetcher /\ Len(fetch1.queue) <= conf.iCacheLatency
        BY DEF Inv, Shape, Fetcher, FetcherOf
      <4>2. /\ conf.iCacheLatency \in Nat /\ conf.inflightQueueSize \in Nat
            /\ conf.inflightQueueSize >= conf.iCacheLatency + 1
        BY ConfsAssumption DEF Inv, Shape
      <4>3. Len(fetch1.queue) \in Nat
        BY <4>1, FetcherIs
      <4> QED
        BY <4>1, <4>2, <4>3
    <3>2. Flushed(fetch1).half = <<>>
      BY <3>1, FlushedIs DEF Idle
    <3> QED
      BY <2>1, <2>2, <3>2 DEF HalfIn
  <2>3. CASE "Fetch1" \notin flushSync
    BY <2>1, <2>3 DEF HalfIn
  <2> QED
    BY <2>2, <2>3
<1>3. CASE ~Fetch1 /\ ~TickAdvances
  <2>1. program' = program /\ fetch1' = fetch1
    BY <1>3 DEF Next, vars, fetch, Iew, Mispredict, DispatchStalls, DispatchTakesNone,
                DispatchTakes, DispatchKeeps, Decode, Fetch2, Commit, Trap
  <2> QED
    BY <2>1 DEF HalfIn
<1> QED
  BY <1>1, <1>2, <1>3

-----------------------------------------------------------------------------
(* What is proved of the front end.                                        *)

LEMMA InvHolds ==
  ASSUME ShortLatency, NoStraySend
  PROVE  Spec => [](Inv /\ HalfIn)
<1>1. Init => Inv /\ HalfIn
  <2>1. Init => HalfIn
    BY DEF Init, HalfIn, Fetch1Reset
  <2> QED
    BY <2>1, InitKeeps
<1>2. (Inv /\ HalfIn) /\ [Next]_vars => (Inv /\ HalfIn)'
  BY StepKeeps, HalfKeeps
<1> QED
  BY <1>1, <1>2, PTL DEF Spec

LEMMA TypeOfInv == ASSUME Inv, HalfIn PROVE TypeOK
<1>1. phase \in {Phases[i] : i \in 1 .. 7}
  <2>1. /\ Phases[1] = "IEW" /\ Phases[2] = "Dispatch" /\ Phases[3] = "Decode"
        /\ Phases[4] = "Fetch2" /\ Phases[5] = "Fetch1" /\ Phases[6] = "Commit"
        /\ Phases[7] = "Advance"
    BY DEF Phases
  <2>2. \A i \in {1, 2, 3, 4, 5, 6, 7} : i \in 1 .. 7
    OBVIOUS
  <2>3. \E i \in {1, 2, 3, 4, 5, 6, 7} : phase = Phases[i]
    BY <2>1 DEF Inv, Shape
  <2> QED
    BY <2>2, <2>3
<1>2. fetch1 \in Fetcher /\ Len(fetch1.queue) <= conf.iCacheLatency
  BY DEF Inv, Shape, Fetcher, FetcherOf
<1>3. fetch1.state \in {"Idle", "HandleExcp", "WaitForResume"}
  BY <1>2 DEF Fetcher, FetcherOf
<1>4. Len(fetch1.queue) <= conf.inflightQueueSize
  <2>1. /\ conf.iCacheLatency \in Nat /\ conf.inflightQueueSize \in Nat
        /\ conf.inflightQueueSize >= conf.iCacheLatency + 1
    BY ConfsAssumption DEF Inv, Shape
  <2>2. Len(fetch1.queue) \in Nat
    BY <1>2, FetcherIs
  <2> QED
    BY <1>2, <2>1, <2>2
<1>5. \A i \in 1 .. Len(fetch1.queue) : fetch1.queue[i].address \in Nat
  BY <1>2, FetcherIs
<1>6. /\ Len(insnBuffer) <= conf.instrBufferSize /\ Len(decodeQueue) <= conf.decodeQueueSize
      /\ due \in Nat \union {Nowhere}
  BY DEF Inv, Shape
<1>7. ASSUME NEW n, NEW b \in Port(Package(program, n)), b # <<>>
      PROVE  Len(b[1]) \in 1 .. n
  BY <1>7, PortIs DEF Package
<1>8. \A b \in {toFetch2.in, toFetch2.out} :
        b # <<>> => Len(b[1]) \in 1 .. (FetchByteWidth \div 2)
  BY <1>7 DEF Inv, Shape, Latch
<1>9. \A b \in {toDecode.in, toDecode.out} :
        b # <<>> => Len(b[1]) \in 1 .. conf.decodeWidth
  BY <1>7 DEF Inv, Shape, Latch
<1>10. \A b \in {toDispatch.in, toDispatch.out} :
         b # <<>> => Len(b[1]) \in 1 .. conf.dispatchWidth
  BY <1>7 DEF Inv, Shape, Latch
<1> QED
  BY <1>1, <1>3, <1>4, <1>5, <1>6, <1>8, <1>9, <1>10 DEF TypeOK, HalfIn

(* No queue or buffer of the front end ever exceeds its size, and every    *)
(* package fits the stage that gets it, for every program, line width,     *)
(* queue size and width: the DASSERTs of LoopQueue::Push and Allocate.     *)
THEOREM FrontEndTypeCorrect ==
  ASSUME ShortLatency, NoStraySend
  PROVE  Spec => []TypeOK
<1>1. Inv /\ HalfIn => TypeOK
  BY TypeOfInv
<1> QED
  BY <1>1, InvHolds, PTL

\* With no flush on its way, the fetches that count are one run of lines.
LEMMA FetchesRun ==
  ASSUME Inv, ShortLatency, flushSync = {}
  PROVE  /\ \A i \in Fetches : i = 1 \/ i = 2
         /\ \A i : i \in Fetches <=> Live(fetch1, i)
         /\ 1 \in Fetches /\ 2 \in Fetches =>
              fetch1.queue[2].address = NextLine(fetch1.queue[1].address)
         /\ fetch1.half # <<>> /\ Fetches # {} =>
              IF 1 \in Fetches THEN fetch1.queue[1].address = fetch1.half[1] + 2
              ELSE fetch1.queue[2].address = fetch1.half[1] + 2
<1>1. fetch1 \in Fetcher /\ Len(fetch1.queue) <= conf.iCacheLatency
  BY DEF Inv, Shape, Fetcher, FetcherOf
<1>2. \A i : i \in Fetches <=> Live(fetch1, i)
  BY DEF Fetches, Live
<1>3. PICK n \in Nat : n = Len(fetch1.queue)
  BY <1>1, FetcherIs
<1>4. n <= 2
  <2>1. conf.iCacheLatency \in Nat /\ conf.iCacheLatency <= 2
    BY ConfsAssumption DEF ShortLatency, Inv, Shape
  <2> QED
    BY <1>1, <1>3, <2>1
<1>5. \A i \in Fetches : i = 1 \/ i = 2
  BY <1>3, <1>4 DEF Fetches
<1>7. CASE Fetches = {}
  BY <1>2, <1>5, <1>7
<1>8. CASE Fetches # {} /\ fetch1 = Fetch1Reset
  <2>1. Len(fetch1.queue) = 0
    BY <1>8 DEF Fetch1Reset
  <2> QED
    BY <1>8, <2>1 DEF Fetches
<1>9. ASSUME NEW pc, Path(fetch1, pc, Later), Fetches # {}
      PROVE  /\ 1 \in Fetches /\ 2 \in Fetches =>
                  fetch1.queue[2].address = NextLine(fetch1.queue[1].address)
             /\ fetch1.half # <<>> =>
                  IF 1 \in Fetches THEN fetch1.queue[1].address = fetch1.half[1] + 2
                  ELSE fetch1.queue[2].address = fetch1.half[1] + 2
  <2>1. CASE Run(fetch1, pc)
    <3>1. 2 \in Fetches => n = 2
      <4>1. 2 \in Fetches => 2 \in 1 .. n
        BY <1>3 DEF Fetches
      <4>2. 2 \in 1 .. n => n = 2
        BY <1>4
      <4> QED
        BY <4>1, <4>2
    <3>2. 1 \in Fetches \/ 2 \in Fetches
      BY <1>5, <1>9
    <3> QED
      BY <1>2, <1>3, <2>1, <3>1, <3>2 DEF Run, Aim
  <2>2. CASE fetch1.half = <<>> /\ Len(fetch1.queue) = 1
    <3>1. 2 \notin Fetches
      BY <1>3, <2>2 DEF Fetches
    <3> QED
      BY <2>2, <3>1
  <2>3. CASE fetch1.half = <<>> /\ fetch1.queue = <<>>
    <3>1. Len(fetch1.queue) = 0
      BY <2>3
    <3>2. 2 \notin Fetches
      BY <3>1 DEF Fetches
    <3> QED
      BY <2>3, <3>2
  <2> QED
    BY <1>9, <2>1, <2>2, <2>3 DEF Path
<1>10. Idle(fetch1) \/ fetch1 = Fetch1Reset \/ \E pc : Path(fetch1, pc, Later)
  BY DEF Inv, Fetching
<1>11. Idle(fetch1) => Fetches = {}
  BY <1>2 DEF Idle, Fetches
<1> QED
  BY <1>2, <1>5, <1>7, <1>8, <1>9, <1>10, <1>11

(* The half of an instruction that Predecode holds is always completed by  *)
(* the line that begins with its other half: the oldest fetch that still   *)
(* counts is that line, whatever was flushed, replayed or killed before    *)
(* (the DASSERT "Shift Cacheline when MisAlign valid!" cannot fire).       *)
THEOREM HalvesMeet ==
  ASSUME ShortLatency, NoStraySend
  PROVE  Spec => []HalfMeetsItsOther
<1>1. ASSUME Inv PROVE HalfMeetsItsOther
  <2>1. SUFFICES ASSUME fetch1.half # <<>>, Fetches # {}, flushSync = {}
                 PROVE  LET oldest == CHOOSE i \in Fetches : \A j \in Fetches : i <= j
                        IN  fetch1.queue[oldest].address = fetch1.half[1] + 2
    BY DEF HalfMeetsItsOther
  <2>2. /\ \A i \in Fetches : i = 1 \/ i = 2
        /\ IF 1 \in Fetches THEN fetch1.queue[1].address = fetch1.half[1] + 2
           ELSE fetch1.queue[2].address = fetch1.half[1] + 2
    BY <1>1, <2>1, FetchesRun
  <2>3. PICK i : i = CHOOSE k \in Fetches : \A j \in Fetches : k <= j
    OBVIOUS
  <2>4. i = IF 1 \in Fetches THEN 1 ELSE 2
    <3>1. CASE 1 \in Fetches
      <4>1. \A j \in Fetches : 1 <= j
        BY <2>2
      <4>2. \A k \in Fetches : (\A j \in Fetches : k <= j) => k = 1
        BY <2>2, <3>1
      <4> QED
        BY <2>3, <3>1, <4>1, <4>2
    <3>2. CASE 1 \notin Fetches
      <4>1. 2 \in Fetches /\ \A k \in Fetches : k = 2
        BY <2>1, <2>2, <3>2
      <4>2. \A j \in Fetches : 2 <= j
        BY <4>1
      <4> QED
        BY <2>3, <3>2, <4>1, <4>2
    <3> QED
      BY <3>1, <3>2
  <2> QED
    BY <2>2, <2>3, <2>4
<1>2. Inv /\ HalfIn => HalfMeetsItsOther
  BY <1>1
<1> QED
  BY <1>2, InvHolds, PTL

(* The fetches in flight that count are consecutive lines of one path:     *)
(* no fetch of an old path survives a redirect among those of the new one, *)
(* and none in the middle of a run is killed alone (KillNewer).            *)
THEOREM LinesRun ==
  ASSUME ShortLatency, NoStraySend
  PROVE  Spec => []OneRunOfLines
<1>1. ASSUME Inv PROVE OneRunOfLines
  <2>1. SUFFICES ASSUME NEW i \in Fetches, NEW j \in Fetches, i < j, flushSync = {}
                 PROVE  /\ j = i + 1 => fetch1.queue[j].address = NextLine(fetch1.queue[i].address)
                        /\ \A k \in i .. j : k \in Fetches
    BY DEF OneRunOfLines
  <2>2. /\ \A k \in Fetches : k = 1 \/ k = 2
        /\ 1 \in Fetches /\ 2 \in Fetches =>
             fetch1.queue[2].address = NextLine(fetch1.queue[1].address)
    BY <1>1, <2>1, FetchesRun
  <2>3. i = 1 /\ j = 2
    BY <2>1, <2>2
  <2>4. \A k \in 1 .. 2 : k = 1 \/ k = 2
    OBVIOUS
  <2> QED
    BY <2>2, <2>3, <2>4
<1>2. Inv /\ HalfIn => OneRunOfLines
  BY <1>1
<1> QED
  BY <1>2, InvHolds, PTL

-----------------------------------------------------------------------------
(* The refinement.                                                         *)

LEMMA PromisedInsn ==
  ASSUME NEW x \in Insns(program)
  PROVE  x \in Promised!InsnsOf(x.pc)
<1>1. PICK followed \in BOOLEAN : x = InsnAt(program, x.pc, followed)
  BY DEF Insns, IsInsn
<1>2. CASE x.pc % 2 = 1
  BY <1>1, <1>2 DEF InsnAt, Promised!InsnsOf, FaultInsn
<1>3. CASE ~(x.pc % 2 = 1)
  <2>1. x.next \in Promised!Successors(x.pc)
    BY <1>1, <1>3 DEF InsnAt, Promised!Successors
  <2> QED
    BY <1>1, <1>3, <2>1 DEF InsnAt, Promised!InsnsOf
<1> QED
  BY <1>2, <1>3

LEMMA TakesImplement == ASSUME Inv, DispatchTakes PROVE Promised!Next
<1>1. /\ taken' \in Seq(Insns(program)) /\ taken' # <<>>
      /\ due' = Tip(taken', due) /\ Follows(taken', due)
  BY TakesFront
<1>2. program' = program
  BY DEF DispatchTakes, DispatchKeeps
<1>3. PICK t \in Seq(Insns(program)) : t = taken'
  BY <1>1
<1>4. t # <<>> /\ due' = t[Len(t)].next /\ t[1].pc = due
      /\ \A i \in 1 .. (Len(t) - 1) : t[i + 1].pc = t[i].next
  BY <1>1, <1>3 DEF Tip, Follows
<1>5. \A i \in 1 .. Len(t) : t[i] \in Promised!InsnsOf(t[i].pc)
  BY PromisedInsn
<1>6. \A i \in 1 .. Len(t) : i < Len(t) => t[i + 1].pc = t[i].next
  <2> TAKE i \in 1 .. Len(t)
  <2>1. i < Len(t) => i \in 1 .. (Len(t) - 1)
    OBVIOUS
  <2> QED
    BY <1>4, <2>1
<1>7. Promised!Take
  BY <1>3, <1>4, <1>5, <1>6 DEF Promised!Take
<1> QED
  BY <1>2, <1>7 DEF Promised!Next

LEMMA StepImplements ==
  ASSUME Inv, [Next]_vars
  PROVE  [Promised!Next]_<<program, due, taken>>
<1>1. CASE DispatchTakes
  BY <1>1, TakesImplement
<1>2. ASSUME NEW t \in Targets, Mispredict(t) \/ Trap(t) PROVE Promised!Next
  <2>1. due' = t /\ taken' = taken /\ program' = program
    BY <1>2 DEF Mispredict, Trap, RedirectFrom
  <2>2. t # Nowhere
    BY AddressAssumption
  <2> QED
    BY <2>1, <2>2 DEF Promised!Next, Promised!Redirect
<1>3. CASE TickAdvances
  BY <1>3 DEF TickAdvances, Promised!Next, Promised!TickEnds
<1>4. CASE Iew \/ Commit \/ DispatchStalls \/ DispatchTakesNone \/ Decode \/ Fetch2 \/ Fetch1
  <2>1. UNCHANGED <<program, due, taken>>
    BY <1>4 DEF Iew, Commit, DispatchStalls, DispatchTakesNone, DispatchKeeps, Decode,
                Fetch2, Fetch1, back
  <2> QED
    BY <2>1
<1>5. CASE UNCHANGED vars
  BY <1>5 DEF vars, back
<1> QED
  BY <1>1, <1>2, <1>3, <1>4, <1>5 DEF Next

(* The fetch and decode stages implement InsnStream: Dispatch takes the    *)
(* instructions of the program in order, each once, and after a redirect   *)
(* those from its target, for every program, line width, queue size and    *)
(* stage width.                                                            *)
THEOREM FrontEndImplements ==
  ASSUME ShortLatency, NoStraySend
  PROVE  Spec => ImplementsInsnStream
<1>1. Init => Promised!Init
  BY DEF Init, Promised!Init
<1>2. Inv /\ [Next]_vars => [Promised!Next]_<<program, due, taken>>
  BY StepImplements
<1>3. Spec => []Inv
  BY InvHolds, PTL
<1>4. Spec => Promised!Spec
  BY <1>1, <1>2, <1>3, PTL DEF Spec, Promised!Spec
<1> QED
  BY <1>4 DEF ImplementsInsnStream

=============================================================================

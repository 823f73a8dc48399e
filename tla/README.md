# A TLA+ model of the riscv-cmodel-H core

The repository is a cycle model of an out-of-order RISC-V core. This directory
models it from the fetch of a line to the retirement of an instruction: the
circular queue behind every buffer, the control of the re-order buffer
(renaming, completion, recovery, commit), the load and store queues in front of
memory, the issue path with its fifteen schedulers, units and ports, the fetch
and decode stages, and what the instructions decode to and compute. TLC checks
the modules on small instances; TLAPS proves the invariants of the queue, of the
re-order buffer, of the load and store queues and of the front end for every
size, that operands are current on the issue path for every wiring of it, that
nothing is twice on that path and nothing squashed left on it in the wirings
that have no aliased slots, that the load and store queues implement a memory
accessed in order, and that the front end delivers the program in order.

## The system

One `Processor::Tick` (`src/src/Processor/Processor.cc`) evaluates the stages
from the back of the pipe to the front and then advances every latch:

    IEW (write back, execute, forward, issue, read operands), Dispatch, Decode,
    Fetch2, Fetch1, Commit (pop last tick's package, pick the next one),
    Rcu::Evaulate, Lsq::Evaulate, Advance

Everything runs in one thread. What makes it hard is time inside the machine:
instructions finish in any order, a squashed instruction stays in the pipe for
several ticks, a package is picked in one tick and committed in the next, a
recovery can be overtaken by an older one, and a flush, a redirect, a stall and
an answer of a cache can meet in one tick.

| Part | Source | State | Operations | What makes it correct |
|---|---|---|---|---|
| Circular queue | `Component/LoopQueue.hh` | slots, header, tail, usage | Push, Allocate, Pop, RollBack, operator[], Reset, isOlder | it is a double-ended list; isOlder is program order |
| Register and re-order control | `Component/Rcu.cc`, `FreeList.hh`, `RenameTable.hh`, `BusyList.hh` | re-order buffer, recovery state and target, free list, rename table, busy list | Allocate, WriteBack, AGUFastDetect, Forwarding, ReadyForCommit, RollBack, ReleaseResource, CommitInsn | no register is lost or shared; rollback restores the map; only the program commits; recovery ends |
| Load and store queues | `Component/Lsq.cc` | two circular queues with state, kill, commit and dependency bits | Allocate, WriteBack, TryIssueLoad, TryIssueStore, Kill, Commit, Evaulate | loads see all older stores; stores reach memory in order and never speculatively |
| Schedulers | `Component/Schedular` | issue queues of five wake-up rules and three orders | Allocate, Schedule, Dispatch, IssueSelect, Forwarding, Flush, Reset | every ready instruction issues; no wake-up is lost; flush empties |
| Functional units, ports | `Component/FuncUnit`, `RfReadPort.cc`, `WriteBackPort.cc` | a pipe each | Issue, Compute, Evaluate, Advance | results reach the right entry once |
| Stages | `Pipeline` | latches and queues between stages | Evaluate, Flush, acknowledgements | no instruction lost or repeated across stall, flush, replay |
| Latches | `Timing/TimeBuffer.hh` | queue with latency, stall and flush flags | set, kill, advance | first in first out; nothing lost while stalled |
| Memory, CLINT, caches | `Memory`, `CLINT`, `dCachePort.cc` | bytes, timers, responses under way | read, write, range checks | answers in order; ranges disjoint |
| Decoder, arithmetic | `RISCV`, `Component/FuncUnit` | none; the CSR array | expand, Decode, the compute functions, ReadCsr, WriteCsr | agrees with the instruction set |
| The rest | `ELFParser`, `main.cc`, `Trace` | | loading, options, logs | |

Interaction: Dispatch allocates in Lsq and Rcu together and hands instructions
to the schedulers; units report to Rcu (write back, address generation) and Lsq;
Commit asks Rcu what is ready and has it popped; Rcu drives Lsq (commit, kill)
and the flushes of the stages; redirects go back to Fetch1.

## Modules

| Module | Models | Checked by |
|---|---|---|
| `Deque` | the abstract double-ended list | refinement target of `LoopQueue` |
| `LoopQueue` | `LoopQueue.hh`, all operations | `LoopQueue.cfg` |
| `LoopQueueProofs` | its theorems | TLAPS |
| `Rcu` | `Rcu.cc` with its callers in IEW, Dispatch and Commit | `RcuDoubleFree`; `MCRcu`, `MCRcuLive` |
| `MCRcu` | symmetry and view for TLC | `RcuSpeculative`, `RcuSystem` |
| `MCRcuLive` | two instances of `Rcu`, one chosen by the first state | `RcuLive` |
| `RcuProofs` | the types of `Rcu`, where its recoveries go, and that it retires the program | TLAPS |
| `RcuRegisterProofs` | its registers: who owns them, what reads as done | TLAPS |
| `InOrderMemory` | the abstract memory: each instruction takes effect when it retires | refinement target of `Lsq` |
| `Lsq` | `Lsq.cc` with the load and store units, the data cache port and the recovery that drive it | `MCLsq`, `MCLsqLive` |
| `MCLsq` | symmetry and view for TLC | `LsqEntries`, `LsqMemory` |
| `MCLsqLive` | two instances of `Lsq`, one chosen by the first state | `LsqLive` |
| `LsqProofs` | the invariants of `Lsq`, and that it implements `InOrderMemory` | TLAPS |
| `TimeBuffer` | `TimeBuffer.hh`: the latch, as operators on its value | used by `Issue` and `FrontEnd` |
| `Issue` | the schedulers, read ports, units, write-back ports, the choice of scheduler at dispatch, and the flush | `MCIssue` |
| `MCIssue` | wirings for `Issue` | `Issue`, `IssueSquashed` |
| `IssueProofs` | what an instruction finds when it reaches a unit | TLAPS |
| `IssuePathProofs` | where an instruction is on the issue path: the invariant, and the steps within IEW | TLAPS |
| `IssueSquashProofs` | the steps that bring instructions in and take them out, and the theorems | TLAPS |
| `InsnStream` | the abstract front end: the program in order, from the last redirect | refinement target of `FrontEnd` |
| `FrontEnd` | Fetch1, Fetch2, Decode, the instruction cache port, the latches and redirects between them | `MCFrontEnd` |
| `MCFrontEnd` | programs and configurations for `FrontEnd` | `FrontEnd` |
| `FrontEndProofs` | the invariants of `FrontEnd`, and that it implements `InsnStream` | TLAPS |
| `Decoder` | `rvcExpender.hh`, `Decoder.hh`, and Fetch1's predecoder | `Datapath` |
| `Units` | the compute functions of the units, and the CSR accesses | `Datapath` |
| `Isa` | the reference: tables of the instruction set | `Datapath` |
| `Datapath`, `MCDatapath` | an instruction, fetched, expanded, decoded and executed | `Datapath` |

How they compose: `Rcu` has the re-order buffer in full and the issue path as a
bag of instructions; `Issue` has the issue path in full and of the re-order
buffer what the path sees (order, done bits, recovery, two-tick commit); `Lsq`
has the two queues and a re-order buffer without slots; `FrontEnd` has what
comes before Dispatch, and the rest as a process that takes, stalls and
redirects. What one module assumes of another is a property of the other:
`Issue` names a physical register after its writer (`Rcu!RegistersConserved`),
`Lsq` commits in one step (`Rcu!CommitsOnlyTheProgram`) and drops results of
squashed instructions (`Rcu!LateWriteBackHarmless`), `FrontEnd` relies on an
idle re-order buffer again and again (`Rcu!RecoveryEnds`).

### Rcu and the code

`phase` is the position in the tick; a loop of the code takes one step per
iteration, and `budget` counts the iterations left. The actions of a tick:

* IEW: `AddrGen` (`AGUFastDetect`), `Execute` (a unit finishes, the write-back
  port forwards), `WriteBack` (`Rcu::WriteBack`), in any order; `EndIEW`.
* Dispatch: `AllocateInsn` for each instruction taken (`Rename`, `Allocate`,
  `ResovleDependancy`, `CreateRobEntry`); `EndDispatch`. The package ends after
  an exception or a control-flow instruction, as `TryDispatch` ends it. Doing
  the package one instruction at a time is what `ResovleDependancy` computes.
* Commit: `CommitInsn` for each entry of the package picked a tick ago;
  `SendCommitReq` picks the next.
* Evaluate: `RollBackStep` for each entry of `Rcu::RollBack`; `EndTick` has the
  end of the flush.

`iew` stands for schedulers, ports and units together: an instruction in it may
take its next step in any tick. The free list may hand out any free register
(the code's order is one of them). A load killed while its request is under way
may still be written back here; `Lsq` drops it in the code, so the model allows
more. `bad`, `wrongPath`, `commitMap` and `path` are history that no guard
reads: whether a branch will turn out mispredicted or a load will fault, whether
an instruction was fetched past such a one, and what the program has committed.

`TraceOn` is `TRACE_ON`, which CMakeLists.txt:6 has on by default and the release
target of the Makefile off: only then does `FreeList::push` look whether it has
the register already, and what it throws then (Logging.hh:53) is caught nowhere.
So with `TraceOn` the model has no step that would push a register twice: the
program ends there. `double_free` has it off, and is about that push.

The flush at the end of a recovery empties `iew`. The in-order and in-age-order
schedulers do that; the out-of-order ones do not (see Findings), and `Issue` has
all of them.

### Lsq and the code

The two queues are instances of `LoopQueue`; the fields of their entries are
those of `LDQ_entry_t` and `STQ_entry_t`. The actions:

* Dispatch: `Allocate` (`TryAllocate`, `Allocate`, `CreateLdqEntry`,
  `CreateStqEntry`), one instruction at a time.
* Units: `WriteBack` (address generation, `Lsq::WriteBack`, the done bit of a
  store), `TryIssueLoad`, `TryIssueStore`, `ReceiveResponse`. The memory reads
  or writes when it receives a request, as `dCachePort::ReceiveMemReq` does;
  only the answer takes time.
* Recovery: `LoadDone` and `BranchDone` (what `Rcu::WriteBack` decides),
  `RollBack` (one iteration, with `KillLoadEntry` or `KillStoreEntry`),
  `CommitInsn`.
* End of tick: `Evaulate`, both loops in one step.

The re-order buffer is the sequence `window` and a recovery is the place in it
to go back to: the re-order buffer's own slots, registers and two-tick commit
are the subject of `Rcu`, and `Rcu!CommitsOnlyTheProgram` and
`Rcu!LateWriteBackHarmless` are what allows `Lsq` to commit in one step and to
drop results of squashed instructions. The order of the units inside a tick and
of answers between ports is left open, a superset of the code's. An answer
carries the slot number, as the transaction does, so a slot that changed hands
would be hit by a late one.

### Issue and the code

The path is wired by a configuration file, so the wiring is part of the state
(`cfg`), chosen by `Init`. A tick is eight phases, each one action and each a
function of the whole state, because the code runs them to the end in a fixed
order: `WriteBack`, `Execute`, `Forwarding`, `Issue`, `ReadOperand` (the parts
of `IEW::Evaluate`, its port and unit loops in the order of the configuration),
`Dispatch` (any package the templates make), `Commit`, `Advance`. What is
nondeterministic is what arrives and which instructions mispredict or fault.

The fifteen classes are three orders (circular queue, age list, free slots)
times five wake-up rules (`None`, `OperandReady`, `RfQueue`, `ResvrStation`,
`Commit`); an order has its queue operators once, a wake-up rule its condition,
and what a class does otherwise than its siblings is where the two meet. A
physical register has the name of the instruction that writes it; `stale` and
`killed` are history. `Units` and `Datapath` have what a unit computes; here it
has a latency, a pipe, a write-back port that may be taken, and the
answer of the data cache, which needs a write-back port in the tick it comes.

### FrontEnd and the code

The phases are the stages in tick order; IEW, Dispatch and Commit are what they
do to the front end: find the re-order buffer idle or not, take a package whole
or in part or stall it, redirect. A line has two parcels of 16 bits; a parcel
says whether it begins a wide instruction and whether that is a direct jump or a
conditional branch, with its offset (for a branch what `sbimm()` makes of the
encoding, wide or not: Fetch1.cc:262). An
instruction is the sequence of parcels it was put together from, so a half
joined to the wrong half shows.

`Fetch1` is one action, as the code is one function: `ICacheAnswers`, `SendReq`
(with `Predecode`), `Requested` (`SendFetchReq`), `GenNextFetchAddress`.
`TickAdvances` has `Processor::Advance` with the flushes that were latched.
Undefined behaviour is a choice: `SendSuccess` read uninitialised
(Fetch1.cc:29), and `InsnPred` read past its end for the last parcel of a line
that began with half an instruction (Fetch1.cc:207, 216). If what is read there
looks like a prediction, a branch is followed to its target and another
instruction to its successor. `InsnStream` allows a branch either way: the
branch unit verifies what was followed. Left out of that garbage is what makes no
redirect: a target that happens to be the right one, and the prediction it gives
an indirect jump, both for the branch unit to verify.

### Decoder, Units, Isa and Datapath

`Datapath` goes through fetch, execution and the following program counter for
one instruction at a time. `Decoder` and `Units` follow the code's switches and
casts; `Isa` is the manual as tables (opcode, function fields, immediate format,
meaning as arithmetic on integers), so that the two share nothing but the
instruction formats. Registers have eight bits: widths enter only through XLEN
and half of it, where the word operations cut.

Where the decoder returns early, for an illegal compressed encoding
(Decoder.hh:21-27), the fields it has not set are zero, which is what `Defaults`
has: `Processor::CreateInsn` value-initialises the instruction.

The reference says what the code does not: `Departs` in `Datapath` lists the
encodings where the program is known to differ, and the comparison leaves those
out: see Findings.

## What the runs show

| Run | Instance | Shows |
|---|---|---|
| `loop_queue` | 5 slots, 2 values | all operations, wrap-around in both directions, full and empty; `isOlder`; refinement of `Deque` |
| `rcu_speculative` | 3 entries, 3 registers, 1 architectural register, widths 2; branches, loads with faults, exceptions, both with and without a destination; assertions on | registers conserved, rename table restored, busy list sound, only the program commits, late write backs harmless, only the wrong path is squashed |
| `rcu_system` | the same with 1 dispatched or rolled back per tick; stores, CSR, FENCE.I, MRET | rollbacks of several ticks; no CSR executed on a wrong path; the recovery target stays |
| `rcu_live` | in order: 2 entries, 2 registers, loads that fault, fences; speculative: 3 entries, no registers, 1 per tick | in both, every recovery ends and dispatch resumes; in order, every instruction leaves the buffer |
| `double_free` | as `rcu_speculative`, assertions off | violation: see Findings |
| `lsq_entries` | queues of 2, 4 instructions; mispredictions, refused loads, exceptions from decode | the queues agree with the re-order buffer, loads wait for exactly the right store, late answers and addresses are harmless |
| `lsq_memory` | queues of 2, 3 instructions, 2 values | refinement of `InOrderMemory` |
| `lsq_live` | 2 loads, 1 store; in order: 2 instructions, loads that fault; speculative: 3 instructions | every entry is freed |
| `issue` | seven wirings, 3 instructions | no assertion fires; an instruction is in one place until it is done; operands are current; flushes empty the path; a CSR instruction that executes is squashed only by the fault of an older load; the redirect is the recovery's; every instruction leaves |
| `issue_squashed` | a reservation station of one entry that issues out of order, 4 instructions | violation: see Findings |
| `front_end` | 3 programs with split instructions, jumps and a branch, fetch latencies 1 and 2, 2 redirects from behind | refinement of `InsnStream`; a half meets its other half; the fetches under way are one run of lines; the instruction that is due comes |
| `datapath` | all 49152 encodings of 16 bits, those of 32 bits with fields at their bounds, 225 encodings executed on pairs of 18 boundary values | decoding, results and next program counter agree with `Isa` |

Every property has an injected fault (the definitions named `Bad...`, or one
given in PROJECT.json) that breaks it.

### Bounds

`Rcu`. Three entries are the fewest in which a branch, an instruction to be
squashed and an older branch that takes over are in the buffer together; with
wrap-around every slot plays every part. Three registers let one be committed,
one live and one free. Two instructions per tick make packages in which one
instruction depends on another; one per tick cuts a rollback into several. The
runs enumerate the whole state space; `MCRcu!View` leaves out only what nothing
reads (slots that are not live, the rollback tag while idle). `rcu_speculative`
does not check for deadlock: there the program may throw, and end. `rcu_system`
and `rcu_live`, where faulting instructions have no destination, do: the
assertion never stops them.

`Lsq`. Two entries per queue wrap around and let one be full while the other
drains; four instructions hold a branch, a store, a load behind it and a second
recovery. One address is enough: the code never compares addresses, a load waits
for all older stores. `MCLsq!View` drops dead slots and what no one reads of
killed and committed ones.

The liveness runs of both use neither view nor symmetry. Their two machines
share variables, never a step: `machine` is chosen by the first state.

`Issue`. `MaxInsns` bounds the instructions of a run, not those in flight: three
hold a producer, a consumer and a branch or load that squashes them, in queues
of one to five entries. `trait`, `rvh1`, `eight` and `z506` have the shape of
the files in `config/` with fewer parts, and every instruction the properties
tell apart: mispredicted branches and, in `trait` and `rvh1`, loads the memory
refuses beside CSR instructions. The CSR station of `rvh1` has two slots, so
that three CSR instructions use one again; tags go round only beyond these
bounds (see `aliased` under Findings). `rest1` to `rest3` build the classes no
file uses. The out-of-order classes run without squashes there, because of the
finding.

`FrontEnd`. A line of two parcels is the smallest that an instruction can split;
the three programs put a split instruction, a split jump, a jump into the middle
of a line, a branch at the end of a line that completes an instruction (where
`InsnPred` is read past its end) and a loop of narrow instructions there.
`MaxRedirects` = 2 lets one redirect meet another (from IEW, Commit or Fetch1
itself); two targets, the middle of a line and an odd address. The queue of
fetches has one entry more than the latency, as a comment of
config/Z506_0328.yaml:301 asks.

`Datapath`. Eight bits have every sign, carry and overflow; the 18 values are
those at the bounds of the word and of half of it. The 32-bit encodings vary
each field over its bounds, and function fields over all their values or those
at which the tables change.

### Fairness

`Rcu!Fairness`. The clock always ticks (weak fairness of the steps that move the
tick). An instruction that can move in infinitely many ticks moves in one of
them (strong fairness per tag): units have finite latency, the memory always
answers (`dCachePort` after its latency), and schedulers select every tick.
Strong fairness is needed because a CSR instruction may only issue in the ticks
in which `ReadyForCommit` holds. `Issue` is where this assumption is earned: it
has the schedulers, and assumes no more than the clock.

`Lsq`. Each loop runs every tick (weak fairness of each action), and a port
answers each of its requests after its latency (weak fairness per slot: without
it other answers could come for ever before that of a killed load, whose entry
would then block the queue).

`Issue`. Weak fairness of the phases, each of which is always enabled in turn.

`FrontEnd`. Weak fairness of the phases; strong fairness of finding the re-order
buffer idle (recoveries end: `Rcu!RecoveryEnds`) and of Dispatch taking some of
a package it is given again and again (resources are given back:
`Rcu!EveryInsnLeaves`, `Lsq!EntriesLeave`, `Issue!EveryDispatchedInsnLeaves`).

## What is proved

`LoopQueueProofs`, for every size and data type: the cursors agree, `isOlder` is
program order, and the queue implements `Deque`.

`RcuProofs`, for every number of entries, widths, registers and mix of
instructions: `TypeOK` and `RecoveryTargetLive`. Types alone are not inductive:
`toCommit` must not exceed the entries, so one has to know that the package
picked is still there and done when it is popped, although write back may have
started a recovery since. The inductive invariant `Control` says: dispatch runs
only while idle; what is in flight and live names its entry exactly (so nothing
done is in flight); what is in flight and not live exists only during a
recovery; the package is done and everything in it is older than, or is, the
recovery target; the target is live and, once waiting, the youngest entry.

`RcuRegisterProofs`, for every set of destinations of faulting instructions:
`RegistersConserved`, `RenameTableRestored`, `BusyListSound` and
`LateWriteBackHarmless`. The theorems assume `FreedOnce`: the build asserts
(`TraceOn`), and they hold up to the tick in which it would throw; or, in any
build, what faults has no destination. Without either they are false, as
`double_free` shows. The inductive invariant `Registers` adds to `Control` the
chain of mappings: for every architectural register, the `LphyRd` of each live
writer is the `phyRd` of the one before it, or the committed register for the
oldest, and the rename table ends the chain; each register has one owner, and is
free exactly when it has none. Rollback pops the end of the chain, commit its
front. A fault the recovery has stopped at has given its register back and is
still in the buffer (`GaveUp`): it is the youngest entry, owns nothing, and is
the end of no chain; when an older branch takes over, the next rollback reaches
it first, and that is where the assertion ends the program.

For `BusyListSound`: a destination may not read as done before its instruction
has written back, and nothing but that instruction marks it. So the invariant
has to follow the squashed instructions in the pipe, which still write registers
that are free by then (`ReadyProduced`), and stores, which finish without a
destination.

`RcuProofs` also has `CommitsOnlyTheProgram` and `OnlyWrongPathSquashed`, without
assumptions, and `CsrNotSpeculative` when no load faults. The inductive
invariant `Program` tells the wrong path from the window alone: an entry is on
it exactly when an older one is bad (`WrongPathFollows`), and one that is bad
and done is never older than the target of the recovery
(`BadDoneBehindTarget`), so the package for commit, which stops short of a
target the rollback has not reached, holds none. `PathKnown` says what the
front end fetches in each state of a recovery. A CSR instruction executes before
it commits; what blocks it is every older entry not yet stable, which covers
every branch, but not a load: `AddrGen` calls it stable before its answer is
known, and `LoadFaults` makes the property false. What remains then is
`Issue!OnlyFaultsSquashSideEffects`: nothing but such a fault squashes it.

`LsqProofs`, under `NoStoreExcepted` (no store reaches Dispatch with an
exception; one that does is dropped from the queue twice, see Findings):
`TypeOK`, `QueuesMatchWindow`, `WaitsForYoungestOlderStore`,
`AnswersFindTheirEntry` and `LateAddressHarmless`, for every size, with and
without speculation and faults of loads. They hold each other up, which is why
they are proved as one invariant, `Entries`: a rollback that drops the youngest
store whatever its tag is right only because the queue is the window's stores in
order, an answer finds its entry only because a killed load stays until it is
answered, and an address generated late is harmless only because the pipe is
flushed before a slot that it names can be live again. That last one needs
`PipeIsOwn` and `Recovery`: while nothing is squashed everything in the pipe is
the window's own; a recovery whose target is not done has squashed nothing
yet; and only the target and what is behind it can be exceptions.

Under the same assumption: `ImplementsInOrderMemory`. The
refinement mapping reads a word from the youngest committed store still to be
sent to it, else from memory. Besides `Entries` the step simulation needs
`Contents`: a load that was sent waits for no store, and what it has been
answered, or will be, is still what memory contains. A store can be sent while
loads are out, but only while every load of the window waits for it; a load that
retires waits for none, so that no store before it is unsent.

`FrontEndProofs`: `TypeOK`, `HalfMeetsItsOther`, `OneRunOfLines` and
`ImplementsInsnStream`, for every program, every even line width up to 128
bytes, every width of a stage and size of a queue or buffer. Beside those of the
constants (`FrontEnd`'s `ASSUME`s: the
queue of fetches has one entry more than the latency, a buffer holds a package;
memory is a number of whole lines, and no jump or branch goes below address 0) the
assumptions are two:

* `ShortLatency`: the instruction cache answers after one or two ticks, as in
  every file of `config/`. With three the properties are false: the fault of a
  killed fetch kills newer ones of the right path (Findings, Fetch1.cc:158).
* `NoStraySend`: `SendSuccess`, uninitialised in the first tick, reads as false,
  as it does in the run.

The inductive invariant `Inv` has these parts. `Protocol` is what each latch may
hold in each phase of a tick, which is what keeps a stage from overwriting what
the next has not seen. `Offers`: what a latch offers is a prefix of the queue
that offered it, although the acknowledgement that shortens the queue comes in
the tick after, and a stalled latch offers the same for ever. `Linked`: decode
queue, fetch buffer and what Fetch1 sent are, end to end, one stream that
follows from `due`; a replay drops a tail of it. `Timing` matches every pending
answer to the fetch it belongs to. `Fetching`: the live fetches and the program
counter are one run of lines, beginning behind the half held over. `Aimed` joins
the two: the run begins where the stream ends, or the redirect under way goes
there. With `ShortLatency` at most two fetches are under way, which is why these
parts can be stated by cases. `Predecode` is a recursive function of the place
in the line. That the function exists (`CutsDefined`), and that a line is cut
into instructions that follow each other up to its end, a half or the first
redirect (`CutsOK`), are inductions on what is left of the line, each over the
set of numbers for which the fact holds (`UpFromZero`): the induction theorems of
the library take an operator, which no installed prover instantiates.

`IssueProofs`, for every wiring, latency, width and program: `OperandsCurrent`,
given `OperandsAwaited`, which says of the wiring that a scheduler in front of a
unit waits for operands (a `None` or `RfQueue` scheduler has only
sub-schedulers, as in every file of `config/`; the two `Commit` classes that
look at the forwarding bit need results to be forwarded). The inductive
invariant `Flow` types every part of the path by what may be in it: `Entry` is
an instruction on its way through a read port, which must have, or find done in
the busy list, every operand; `Complete` is one that has them all, which is what
units, data cache, load queue and write-back ports hold. `Registers` connects
the bits to the data: what the busy list calls done is in the register file, and
with forwarding what is forwarded is done. Each loop of the code over its parts
is a function `Loop` of the number of rounds; that it exists and unfolds is an
induction proved once for each loop.

`IssuePathProofs` and `IssueSquashProofs`, for every latency, width, number of
parts and program: `TypeOK`, `FlushedOut`, `RedirectMatchesRecovery` and
`NotDoubled`, the half of `NeitherLostNorDoubled` that says an instruction is at
no two places and a done one at none. They are about the wirings called
`Orderly`: no out-of-order queue, and every sub-scheduler in age order. traitRV,
8IssueWidth and Z506 are such wirings; RVH1 is not, because its CSR station is an
in-order one behind another scheduler, where these properties fail in the end
(`aliased`, see Findings), and out-of-order queues break them at once
(`issue_squashed`). The inductive invariant `Path` gives every instruction of
the run a home, one part of the path or none: what a part holds has that part as
its home and is held there once; the re-order buffer waits exactly for what has
a home and is not on its way out (`Owned`); a tag belongs to one instruction of
the buffer (`Ring`); a squashed instruction is younger than the target of the
recovery, so that the flush at its end, which spares nothing, meets everything
that is squashed and nothing that is not. Within a tick a part may be halfway:
its output taken and not yet gone, a slot claimed and not yet filled. Those gaps
are parameters of the invariant of a phase (`Placed`), which each loop of the
code closes part by part.

Only model-checked: of `Issue`, `NoAssertFires`, that no instruction is lost, and
`OnlyFaultsSquashSideEffects`; everything about `Datapath`, because `Units` and
what extends it use bitwise operators that the prover cannot expand; and the
liveness properties (`RecoveryEnds`, `EveryInsnLeaves`, `EntriesLeave`,
`EveryDispatchedInsnLeaves`, `InsnsArrive`), which are out of the prover's reach
(it has no rules for fairness and ENABLED).

## Findings

With a run that shows them:

* `double_free`: `Rcu::RollBack` releases the faulting entry it stops at and
  keeps it in the buffer (Rcu.cc:359-361). An older branch that mispredicts
  before that entry commits starts a second rollback, which releases it again:
  its register is in the free list twice, against the assertion of
  `FreeList::push` (FreeList.hh:59). It takes a destination on the faulting
  instruction: a load that the memory refuses, or an illegal encoding of one
  (`Decode_Func` sets the type of the destination before it finds the encoding
  illegal). A build that asserts ends there with an exception nobody catches; one
  that does not goes on with the register twice in the list, and soon with two
  instructions that write it.
* `issue_squashed`: `Reset` of the out-of-order classes loops over copies of the
  entries (RS_OutOfOrder.hh:40 and its siblings). After a squash the usage count
  is 0 and the slots are still valid: the next allocation finds none and returns
  -1, which Dispatch uses as an index, against the assertion at
  RS_OutOfOrder.hh:59. No file of `config/` uses those classes.

Reached by the runs without a violation, by the wirings of `MCIssue` that no run
selects, or by leaving the bounds above; no document of the repository says
otherwise, so they are not findings of a run:

* `aliased`: the in-order stations keep what a slot held (CMT_InOrder). Behind
  another scheduler, a slot is claimed ticks before its instruction arrives, and
  until then the head may show the instruction that had the slot before. It is
  taken for a live one as soon as its tag is in use again: at once when the
  re-order buffer is no larger than the CSR station, otherwise after the tags
  have gone round (`rvh1` with `robSize` 3, a station of 2 and `MaxInsns` 7).
  `NeitherLostNorDoubled` fails. RVH1.yaml has such a station.
* A load is stable after address generation (Func_LSU.hh:134), so a younger CSR
  instruction may execute before the memory answers that load with a fault, and
  is squashed after it has written the CSR. `trait` and `rvh1` reach that;
  `OnlyFaultsSquashSideEffects` says that nothing else squashes one.
* `silent`: without forwarding, an instruction on its way from a register-file
  queue to its station hears neither result (RfReadPort.cc:36,
  WriteBackPort.cc:54) and waits for ever.
* A register-file queue that issues out of order before an in-order station can
  fill it with instructions that wait for one still behind: a deadlock. The
  in-age-order and out-of-order Commit classes ask for forwarded operands where
  the in-order one asks for written ones.
* `InflightQueueSize` equal to the latency: on a full queue of fetches
  `KillNewer` compares equal cursors and kills none (Fetch1.cc:141), so lines of
  two paths are joined. With a latency of 3, the fault of a fetch that was
  killed kills newer ones of the right path (Fetch1.cc:158). A fetch the memory
  refuses kills its own entry (Fetch1.cc:160): the fault is never delivered.
* An illegal store encoding has a store queue entry, because the decoder sets
  its unit first (Decoder.hh:251-274), and is dropped from the queue twice by
  the path of `double_free`, against LoopQueue.hh:108.

Where decoding or execution differs from the manual (`Departs` in `Datapath`, and
what `Isa` leaves unspecified): C.EBREAK and the C.LUI hint are illegal
(rvcExpender.hh:317, 278); FENCE and FENCE.I with fields that should be ignored
are illegal (Decoder.hh:192, 201), as are WFI and SFENCE.VMA; the atomic
operations are not decoded; reserved encodings of MISC-MEM, SYSTEM and OP-32 are
not raised; JALR keeps bit 0 of its target (Func_BRU.hh:59); LHU falls through
to LWU and a misaligned access is never raised (Func_LSU.hh:57), which makes the
exception branch of `AGUFastDetect` unreachable; the number of a CSR is never
checked. Shift amounts are not masked: undefined behaviour, modelled as what x86
does.

## Plan

Done: the queue, the re-order buffer, the load and store queues, the front
end, and their proofs; the latches; the issue path, and the proofs of where its
instructions are; decoding and arithmetic. Left, in order:

1. Proofs of the remaining invariants of `Issue`: `NoAssertFires`, and that no
   instruction is lost (a part that is told to keep an instruction keeps it).
2. The latch by itself as a module with an abstract specification: it delivers
   what is set once, in order, unless flushed. `FrontEndProofs` and
   `IssuePathProofs` have that as far as they need it.

## Not modelled

* Branch prediction: base classes without content; `Fetch1::Predict` clears
  every prediction (modelled). A compressed branch is followed with the offset of
  the wide format (Fetch1.cc:262) only when `InsnPred` is read past its end.
* Address translation: `TLB.cc` has no caller.
* Memory and CLINT: bytes behind a range check. Met while reading:
  `BaseDRAM.cc:89` accepts the address one past the end; a write to mtime
  overwrites `m_MtimeBaseAddr` and a msip write of 0 never clears the pending
  bit (`BaseCLINT.cc:120`, 112).
* `dCachePort.cc` names fields for atomic operations that the headers do not
  declare; it is modelled as far as loads and stores go. Stores the memory
  refuses (Func_LSU.hh:216) are dropped silently by the code and do not occur in
  the model.
* The counters of the CSR context, its reset values and the CSRs a trap writes
  (MEPC, MCAUSE, MTVAL); the cause of an exception.
* Configurations no file has: `RenameRegister` = false; `MustTakenAllInsn` = true
  for Dispatch, with which a package that has an exception before its end never
  fits (Dispatch.cc:49); latencies between stages other than 1.
* `FreeList.hh:30`: the last register is never used, and a second `Reset` would
  push every register twice; the model starts from one `Reset`.
* The instruction pool, which `Processor.cc:341` pops while it iterates; building
  the processor from a file; the loop of `main.cc`, ELF loading, options,
  tracing.
* Generated files (`encoding.out.h`), and those no file of the program includes
  (`Decoder_.hh`, `Func_LSU_.hh`, `bits.hpp`).

Hazards without a property are listed in PROJECT.json with the reason.

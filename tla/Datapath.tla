------------------------------ MODULE Datapath ------------------------------
(***************************************************************************)
(* One instruction on its way through the pipeline, as bits and values:    *)
(* Fetch1 looks for a direct jump and goes on fetching where it leads,     *)
(* Decode makes a DynInsn of it, a functional unit computes its result     *)
(* from the registers, and a misprediction the branch unit reports sends   *)
(* the fetch to the branch's target.  When each of these happens is the    *)
(* business of FrontEnd, Issue and Rcu; here is what they compute,         *)
(* compared with the manual (Isa).                                         *)
(***************************************************************************)
EXTENDS Decoder, Units

CONSTANTS
  WordsFetched,   \* instructions of 32 bits
  HalvesFetched,  \* instructions of 16 bits
  Executed,       \* those that are also executed
  RegisterValues, LineValues, Pcs,
  CsrNumbers      \* those that executed instructions name, and others

I == INSTANCE Isa

ASSUME DatapathAssumption ==
  /\ WordsFetched \subseteq [opcode : 0 .. 127, rd : 0 .. 31, func3 : 0 .. 7, rs1 : 0 .. 31,
                             rs2 : 0 .. 31, func7 : 0 .. 127]
  /\ \A w \in WordsFetched : w.opcode % 4 = 3
  /\ \A c \in HalvesFetched : c \in 0 .. 65535 /\ c % 4 # 3
  /\ RegisterValues \union LineValues \union Pcs \subseteq 0 .. (2^XLEN - 1)
  /\ \A pc \in Pcs : pc % 2 = 0
  /\ \A w \in Executed : ~w[1] /\ w[2].opcode = Op.SYSTEM => csr(w[2]) \in CsrNumbers

VARIABLES
  stage,   \* what has been done with the instruction
  word,    \* its bits: <<isRvc, word>>
  pred,    \* Fetch1's: whether it jumps and how far the fetch goes on
  insn,    \* the DynInsn
  operands, \* [pc, x, y, line, csr]: pc, registers and memory as it executes
  result   \* [value, target, mispred, line, csrs]: RdResult, BruTarget, BruMisPred

vars == <<stage, word, pred, insn, operands, result>>

Nothing == <<>>
IsRvc  == word[1]
Bits   == word[2]
Length == IF IsRvc THEN 2 ELSE 4

Init ==
  /\ stage = "next"
  /\ word = Nothing /\ pred = Nothing /\ insn = Nothing
  /\ operands = Nothing /\ result = Nothing

Fetch(isRvc, fetched) ==
  /\ stage = "next"
  /\ stage' = "fetched"
  /\ \E bits \in fetched :
       /\ word' = <<isRvc, bits>>
       /\ pred' = BranchRedirect(bits, isRvc)
  /\ UNCHANGED <<insn, operands, result>>

Decode ==
  /\ stage = "fetched"
  /\ stage' = "decoded"
  /\ insn' = Decode_Func(Bits, IsRvc)
  /\ UNCHANGED <<word, pred, operands, result>>

-----------------------------------------------------------------------------
(* Execution.  Register 0 reads as zero, and one register holds one value. *)

OperandOf(operand, value, pc) ==
  CASE ~operand.ready -> value
    [] operand.ready /\ operand.from = "pc" -> pc
    [] operand.ready /\ operand.from = "constant" -> Register(operand.n)

IsMisaligned(address) == address % Size(insn.subOp) # 0

\* The CSR that is named holds value, and no other does.
Csrs(value) == [n \in CsrNumbers |-> IF n = insn.imm THEN value ELSE (value + 1) % 2^XLEN]

NoResult(line, csrs) ==
  [value |-> 0, target |-> 0, mispred |-> FALSE, line |-> line, csrs |-> csrs]
Compute(pc, x, y, line, csrs) ==
  LET a == OperandOf(insn.operand1, x, pc)
      b == OperandOf(insn.operand2, y, pc)
      address == AddrGen(a, insn.imm)
      Value(n) == [NoResult(line, csrs) EXCEPT !.value = Register(n)]
  IN  CASE insn.fu = "ALU" -> Value(ALU(insn.subOp, a, b))
        [] insn.fu = "MUL" -> Value(MUL(insn.subOp, a, b))
        [] insn.fu = "DIV" -> Value(DIV(insn.subOp, a, b))
        [] insn.fu = "LDU" -> Value(Loaded(insn.subOp, address, line))
        [] insn.fu = "STU" ->
             [NoResult(line, csrs) EXCEPT !.line = Stored(insn.subOp, address, line, b)]
        [] insn.fu = "CSR" ->
             LET r == CSR(insn.subOp, a, insn.imm, csrs)
             IN  [Value(r.value) EXCEPT !.csrs = r.csrs]
        [] insn.fu = "BRU" ->
             [Value(pc + Length) EXCEPT
                !.target = BruTarget(insn.subOp, a, b, insn.imm, pc, Length),
                !.mispred = BruMisPred(insn.subOp, a, b, insn.imm, pc, Length, pred)]

\* What there is to read, 0 where the instruction does not use it.
Used(uses, values) == IF uses THEN values ELSE {0}
Reads1 == insn.rs1 # 0 /\ ~insn.operand1.ready
Reads2 == insn.rs2 # 0 /\ ~insn.operand2.ready
UsesPc == insn.fu = "BRU" \/ Pc \in {insn.operand1, insn.operand2}
Inputs ==
  {in \in [pc : Used(UsesPc, Pcs),
           x : Used(Reads1, RegisterValues), y : Used(Reads2, RegisterValues),
           line : Used(insn.fu \in {"LDU", "STU"}, LineValues),
           csr : Used(insn.fu = "CSR", RegisterValues)] :
     /\ insn.rs1 = insn.rs2 /\ Reads1 /\ Reads2 => in.x = in.y
     /\ insn.fu \in {"LDU", "STU"} => ~IsMisaligned(AddrGen(in.x, insn.imm))}

IsExecuted == word \in Executed /\ insn.excp = "none"
Execute ==
  /\ stage = "decoded" /\ IsExecuted
  /\ stage' = "executed"
  /\ \E in \in Inputs :
       /\ operands' = in
       /\ result' = Compute(in.pc, in.x, in.y, in.line, Csrs(in.csr))
  /\ UNCHANGED <<word, pred, insn>>

Retire ==
  /\ stage = "executed" \/ (stage = "decoded" /\ ~IsExecuted)
  /\ stage' = "next"
  /\ word' = Nothing /\ pred' = Nothing /\ insn' = Nothing
  /\ operands' = Nothing /\ result' = Nothing

Next ==
  \/ Fetch(FALSE, WordsFetched)
  \/ Fetch(TRUE, HalvesFetched)
  \/ Decode
  \/ Execute
  \/ Retire

Spec == Init /\ [][Next]_vars

-----------------------------------------------------------------------------
(* Where the code is known to depart from the manual: see README.          *)
(*   C.EBREAK raises an illegal instruction (rvcExpender.hh:317), and so   *)
(*   do the hints C.LUI x0 (rvcExpender.hh:278), the fences that name      *)
(*   registers or a mode (Decoder.hh:192, 201), WFI and SFENCE.VMA.        *)

Departs ==
  IF IsRvc
  THEN \/ Bits = 36866
       \/ Bits % 4 = 1 /\ Imm3(Bits) = 3 /\ A(Bits) = 0
  ELSE \/ Bits.opcode = 15 /\ (Bits.rd # 0 \/ Bits.rs1 # 0 \/ (Bits.func3 = 1 /\ iimm(Bits) # 0))
       \/ Bits.opcode = 115 /\ Bits.func3 = 0 /\ (Bits.func7 = 9 \/ csr(Bits) = 261)

Meant == IF IsRvc THEN I!OfHalf(Bits) ELSE I!OfWord(Bits)

\* An operation of the manual in the terms of the decoder.
UnitOf(op) ==
  CASE op \in {"MUL", "MULH", "MULHSU", "MULHU", "MULW"} -> "MUL"
    [] op \in {"DIV", "DIVU", "REM", "REMU", "DIVW", "DIVUW", "REMW", "REMUW"} -> "DIV"
    [] op \in I!Branches \union {"JALR"} -> "BRU"
    [] op \in I!Loads -> "LDU"
    [] op \in I!Stores -> "STU"
    [] op \in (I!Special \union {"FENCE", "CSRR", "CSRRW", "CSRRS", "CSRRC"}) -> "CSR"
    [] OTHER -> "ALU"
Operand(operand) == IF operand.ready THEN <<operand.from, operand.n>> ELSE I!InRegister
\* ALU operations and the special ones have no use for imm.
UsesImm(op) == UnitOf(op) # "ALU" /\ op \notin (I!Special \union {"FENCE"})

\* Every instruction of 16 bits and of 32 is decoded to what the manual says
\* it is: unit, operation, registers, operands, immediate, exception, and
\* whether it can change the flow of control.  Nothing else in the program
\* would notice a bit of an immediate in the wrong place.
DecodesAsIsa ==
  stage = "decoded" /\ ~Departs /\ Meant.op # "unspecified" =>
    /\ insn.excp = Meant.excp
    /\ Meant.excp # "ILLEGAL_INSTR" =>
         /\ insn.fu = UnitOf(Meant.op) /\ insn.subOp = Meant.op
         /\ insn.rd = Meant.rd /\ insn.rs1 = Meant.rs1 /\ insn.rs2 = Meant.rs2
         /\ Operand(insn.operand1) = Meant.first \/ Meant.op = "CSRR"
         /\ Operand(insn.operand2) = Meant.second
         /\ UsesImm(Meant.op) => insn.imm = Meant.imm
         /\ insn.control = I!IsControlFlow(Meant.op)

\* Executed, an instruction puts in its register and in memory what the
\* manual says, for every pair of values: the casts between signed and
\* unsigned, narrow and wide, the divisions by zero and that overflow, the
\* bytes of a load or a store, and the bits of a CSR that are set or cleared.
ResultsAsIsa ==
  stage = "executed" =>
    LET a == IF Meant.first[1] = "register" THEN operands.x
             ELSE OperandOf(insn.operand1, operands.x, operands.pc)
        b == IF Meant.second[1] = "register" THEN operands.y
             ELSE OperandOf(insn.operand2, operands.y, operands.pc)
        address == (a + Meant.imm) % 2^XLEN
    IN  CASE Meant.op = "unspecified" -> TRUE
          [] Meant.op \in I!Loads ->
               result.value = I!LoadResult(Meant.op, address, operands.line)
          [] Meant.op \in I!Stores ->
               result.line = I!StoreResult(Meant.op, address, operands.line, b)
          [] Meant.op \in I!CsrOps ->
               /\ result.value = operands.csr
               /\ result.csrs = [Csrs(operands.csr) EXCEPT
                                   ![Meant.imm] = I!CsrResult(Meant.op, a, operands.csr)]
          [] Meant.op = "JALR" -> result.value = (operands.pc + Length) % 2^XLEN
          [] Meant.op \in I!Branches -> insn.rd = 0 /\ result.line = operands.line
          [] Meant.op \in I!Special \union {"FENCE"} ->
               /\ insn.rd = 0 /\ result.line = operands.line
               /\ result.csrs = Csrs(operands.csr)
          [] OTHER -> /\ result.value = I!Result(Meant.op, a, b)
                      /\ result.line = operands.line
                      /\ result.csrs = Csrs(operands.csr)

\* Before execution, in full width, for what the branch unit never checks.
JumpsAgree ==
  stage = "decoded" /\ insn.excp = "none" /\ ~insn.control /\ Meant.op # "unspecified" =>
    pred.target = (IF Meant.jump = <<>> THEN Length ELSE Meant.jump[1])
\* The target of a JALR keeps bit 0 (Func_BRU.hh:59), which the manual
\* clears: jumps to odd addresses are left out.
Odd == Meant.op = "JALR" /\ (operands.x + Meant.imm) % 2 # 0
BranchesAgree ==
  stage = "executed" /\ Meant.op # "unspecified" /\ ~Odd =>
    (IF insn.fu = "BRU" /\ result.mispred THEN result.target
     ELSE Register(operands.pc + pred.target))
      = I!NextPc(Meant, operands.x, operands.y, operands.pc, Length)

\* Where the front end goes on, corrected when the branch unit reports a
\* misprediction, is where the program does.  Only Fetch1 ever looks at the
\* offset of a direct jump: nobody behind it would notice a wrong one.
FollowsTheProgram == JumpsAgree /\ BranchesAgree
=============================================================================

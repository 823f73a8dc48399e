------------------------------ MODULE Decoder ------------------------------
(***************************************************************************)
(* From the bits of an instruction to the fields of a DynInsn:             *)
(* Fetch1::BranchRedirect, which follows the direct jumps before they are  *)
(* decoded, crv_decompress_real (RISCV/rvcExpender.hh), which expands an   *)
(* instruction of 16 bits, and Decode_Func (RISCV/Decoder.hh).             *)
(*                                                                         *)
(* An instruction of 32 bits is the record of its fields, one of 16 bits   *)
(* is its number.  The privilege level is M, the only one the code runs    *)
(* at (ExecContext::getPriv), and nothing is predicted (Fetch1::Predict).  *)
(***************************************************************************)
EXTENDS Integers, Sequences, FiniteSetsExt

\* Definitions whose names begin with Bad are injected faults: see README.

Word(opcode, rd, func3, rs1, rs2, func7) ==
  [opcode |-> opcode, rd |-> rd, func3 |-> func3, rs1 |-> rs1, rs2 |-> rs2, func7 |-> func7]

SignExtend(n, width) == IF n >= 2^(width - 1) THEN n - 2^width ELSE n
Field(n, high, low)  == (n \div 2^low) % 2^(high - low + 1)

-----------------------------------------------------------------------------
(* The immediates of StaticInsn. *)

iimm(w)  == SignExtend(w.func7 * 32 + w.rs2, 12)
simm(w)  == SignExtend(w.func7 * 32 + w.rd, 12)
sbimm(w) == SignExtend((w.func7 \div 64) * 4096 + (w.rd % 2) * 2048
                         + (w.func7 % 64) * 32 + (w.rd \div 2) * 2, 13)
uimm(w)  == SignExtend(w.func7 * 8192 + w.rs2 * 256 + w.rs1 * 8 + w.func3, 20) * 4096
ujimm(w) == SignExtend((w.func7 \div 64) * 2^20 + (w.rs1 * 8 + w.func3) * 4096
                         + (w.rs2 % 2) * 2048 + (w.func7 % 64) * 32
                         + (w.rs2 \div 2) * 2, 21)
\* The amount loses its sixth bit.
Badshamt(w) == w.rs2
shamt(w) == (w.func7 % 2) * 32 + w.rs2
csr(w)   == w.func7 * 32 + w.rs2

-----------------------------------------------------------------------------
(* The immediates of an instruction of 16 bits: each is gathered from      *)
(* moves <<from, to>> of single bits.                                      *)

Gather(c, moves) == MapThenSumSet(LAMBDA m : Field(c, m[1], m[1]) * 2^m[2], moves)

imm_c0m0(c) == Gather(c, {<<12, 5>>, <<11, 4>>, <<10, 9>>, <<9, 8>>, <<8, 7>>,
                          <<7, 6>>, <<6, 2>>, <<5, 3>>})
imm_c0m2(c) == Gather(c, {<<12, 5>>, <<11, 4>>, <<10, 3>>, <<6, 2>>, <<5, 6>>})
imm_c0m3(c) == Gather(c, {<<12, 5>>, <<11, 4>>, <<10, 3>>, <<6, 7>>, <<5, 6>>})
imm_c1m0(c) == SignExtend(Gather(c, {<<12, 5>>, <<6, 4>>, <<5, 3>>, <<4, 2>>,
                                     <<3, 1>>, <<2, 0>>}), 6)
imm_c1m3(c) == SignExtend(Gather(c, {<<12, 9>>, <<6, 4>>, <<5, 6>>, <<4, 8>>,
                                     <<3, 7>>, <<2, 5>>}), 10)
imm_c1m5(c) == SignExtend(Gather(c, {<<12, 11>>, <<11, 4>>, <<10, 9>>, <<9, 8>>,
                                     <<8, 10>>, <<7, 6>>, <<6, 7>>, <<5, 3>>,
                                     <<4, 2>>, <<3, 1>>, <<2, 5>>}), 12)
imm_c1m6(c) == SignExtend(Gather(c, {<<12, 8>>, <<11, 4>>, <<10, 3>>, <<6, 7>>,
                                     <<5, 6>>, <<4, 2>>, <<3, 1>>, <<2, 5>>}), 9)
imm_c2m2(c) == Gather(c, {<<12, 5>>, <<6, 4>>, <<5, 3>>, <<4, 2>>, <<3, 7>>, <<2, 6>>})
imm_c2m3(c) == Gather(c, {<<12, 5>>, <<6, 4>>, <<5, 3>>, <<4, 8>>, <<3, 7>>, <<2, 6>>})
imm_c2m6(c) == Gather(c, {<<12, 5>>, <<11, 4>>, <<10, 3>>, <<9, 2>>, <<8, 7>>, <<7, 6>>})
imm_c2m7(c) == Gather(c, {<<12, 5>>, <<11, 4>>, <<10, 3>>, <<9, 8>>, <<8, 7>>, <<7, 6>>})

\* One bit of the jump's offset lands where the next one belongs.
Badrvc_j_imm(c) == SignExtend(Gather(c, {<<12, 11>>, <<11, 4>>, <<10, 9>>, <<9, 10>>,
                                         <<8, 8>>, <<7, 6>>, <<6, 7>>, <<5, 3>>,
                                         <<4, 2>>, <<3, 1>>, <<2, 5>>}), 12)

\* StaticInsn::rvc_j_imm, which Fetch1 uses, gathers them once more.
rvc_j_imm(c) == SignExtend(Gather(c, {<<12, 11>>, <<11, 4>>, <<10, 9>>, <<9, 8>>,
                                      <<8, 10>>, <<7, 6>>, <<6, 7>>, <<5, 3>>,
                                      <<4, 2>>, <<3, 1>>, <<2, 5>>}), 12)

-----------------------------------------------------------------------------
(* Instructions of 32 bits composed from their parts. *)

Op     == [JALR |-> 103, JAL |-> 111, IMM |-> 19, LUI |-> 55, STORE |-> 35, LOAD |-> 3,
           BRANCH |-> 99, OP |-> 51, OP32 |-> 59, IMM32 |-> 27, AUIPC |-> 23,
           SYSTEM |-> 115, MISCMEM |-> 15]

compose_j(op, rd, imm) ==
  Word(op, rd, Field(imm, 14, 12), Field(imm, 19, 15),
       Field(imm, 4, 1) * 2 + Field(imm, 11, 11), Field(imm, 20, 20) * 64 + Field(imm, 10, 5))
compose_i(op, rs1, rd, func3, imm) ==
  Word(op, rd, func3, rs1, Field(imm, 4, 0), Field(imm, 11, 5))
compose_r(op, rs1, rs2, rd, func3, func7) == Word(op, rd, func3, rs1, rs2, func7)
compose_s(op, rs1, rs2, func3, imm) ==
  Word(op, Field(imm, 4, 0), func3, rs1, rs2, Field(imm, 11, 5))
\* imm is the upper immediate without its 12 zeros.
compose_u(op, rd, imm) ==
  Word(op, rd, Field(imm, 2, 0), Field(imm, 7, 3), Field(imm, 12, 8), Field(imm, 19, 13))
compose_b(op, rs1, rs2, func3, imm) ==
  Word(op, Field(imm, 4, 1) * 2 + Field(imm, 11, 11), func3, rs1, rs2,
       Field(imm, 12, 12) * 64 + Field(imm, 10, 5))

NoWord == Word(0, 0, 0, 0, 0, 0)

-----------------------------------------------------------------------------
(* crv_decompress_real, by the quadrant and the three top bits. *)

Quadrant(c) == Field(c, 1, 0)
Imm3(c) == Field(c, 15, 13)
B12(c)  == Field(c, 12, 12)
A(c)    == Field(c, 11, 7)
B(c)    == Field(c, 6, 2)
A3(c)   == 8 + Field(c, 9, 7)
B3(c)   == 8 + Field(c, 4, 2)
Six(c)  == B12(c) * 32 + B(c)

Quadrant0(c) ==
  CASE Imm3(c) = 0 -> compose_i(Op.IMM, 2, B3(c), 0, imm_c0m0(c))
    [] Imm3(c) = 2 -> compose_i(Op.LOAD, A3(c), B3(c), 2, imm_c0m2(c))
    [] Imm3(c) = 3 -> compose_i(Op.LOAD, A3(c), B3(c), 3, imm_c0m3(c))
    [] Imm3(c) = 6 -> compose_s(Op.STORE, A3(c), B3(c), 2, imm_c0m2(c))
    [] Imm3(c) = 7 -> compose_s(Op.STORE, A3(c), B3(c), 3, imm_c0m3(c))
    [] OTHER -> NoWord

CArith(c) ==
  LET kind == Field(c, 6, 5)
  IN  CASE Field(c, 11, 10) = 0 -> compose_i(Op.IMM, A3(c), A3(c), 5, Six(c))
        [] Field(c, 11, 10) = 1 -> compose_i(Op.IMM, A3(c), A3(c), 5, 1024 + Six(c))
        [] Field(c, 11, 10) = 2 -> compose_i(Op.IMM, A3(c), A3(c), 7, SignExtend(Six(c), 6))
        [] Field(c, 11, 10) = 3 /\ B12(c) = 0 ->
             compose_r(Op.OP, A3(c), B3(c), A3(c), <<0, 4, 6, 7>>[kind + 1],
                       IF kind = 0 THEN 32 ELSE 0)
        [] OTHER ->
             IF kind <= 1 THEN compose_r(Op.OP32, A3(c), B3(c), A3(c), 0, 32 * (1 - kind))
             ELSE NoWord

Quadrant1(c) ==
  CASE Imm3(c) = 0 -> compose_i(Op.IMM, A(c), A(c), 0, imm_c1m0(c))
    [] Imm3(c) = 1 -> compose_i(Op.IMM32, A(c), A(c), 0, imm_c1m0(c))
    [] Imm3(c) = 2 -> compose_i(Op.IMM, 0, A(c), 0, imm_c1m0(c))
    [] Imm3(c) = 3 -> IF A(c) = 2 THEN compose_i(Op.IMM, 2, 2, 0, imm_c1m3(c))
                      ELSE IF A(c) = 0 THEN NoWord
                      ELSE compose_u(Op.LUI, A(c), imm_c1m0(c))
    [] Imm3(c) = 4 -> CArith(c)
    [] Imm3(c) = 5 -> compose_j(Op.JAL, 0, imm_c1m5(c))
    [] OTHER -> compose_b(Op.BRANCH, A3(c), 0, Imm3(c) - 6, imm_c1m6(c))

CJumpMove(c) ==
  CASE B(c) # 0 -> compose_r(Op.OP, IF B12(c) = 0 THEN 0 ELSE A(c), B(c), A(c), 0, 0)
    [] B(c) = 0 /\ B12(c) = 1 /\ A(c) = 0 -> NoWord
    [] OTHER -> compose_i(Op.JALR, A(c), B12(c), 0, 0)

Quadrant2(c) ==
  CASE Imm3(c) = 0 -> compose_i(Op.IMM, A(c), A(c), 1, Six(c))
    [] Imm3(c) = 2 -> compose_i(Op.LOAD, 2, A(c), 2, imm_c2m2(c))
    [] Imm3(c) = 3 -> compose_i(Op.LOAD, 2, A(c), 3, imm_c2m3(c))
    [] Imm3(c) = 4 -> CJumpMove(c)
    [] Imm3(c) = 6 -> compose_s(Op.STORE, 2, B(c), 2, imm_c2m6(c))
    [] Imm3(c) = 7 -> compose_s(Op.STORE, 2, B(c), 3, imm_c2m7(c))
    [] OTHER -> NoWord

crv_decompress_real(c) ==
  CASE c = 0 -> NoWord
    [] c # 0 /\ Quadrant(c) = 0 -> Quadrant0(c)
    [] Quadrant(c) = 1 -> Quadrant1(c)
    [] OTHER -> Quadrant2(c)

-----------------------------------------------------------------------------
(* Decode_Func.  An operand that is not ready is read from its register.   *)

Ready(from, n) == [ready |-> TRUE, from |-> from, n |-> n]
FromRegister   == [ready |-> FALSE, from |-> "register", n |-> 0]
Constant(n)    == Ready("constant", n)
Pc             == Ready("pc", 0)

\* The defaults of Decode_Func.  SubOp ALU_ADD is 0, whatever the unit.
Defaults ==
  [fu |-> "ALU", subOp |-> "ADD", rs1 |-> FALSE, rs2 |-> FALSE, rd |-> FALSE,
   operand1 |-> FromRegister, operand2 |-> FromRegister, imm |-> 0,
   control |-> FALSE, excp |-> "none"]

Illegal(d) == [d EXCEPT !.excp = "ILLEGAL_INSTR"]
\* subOps[i + 1] is the operation the field value i stands for, "" none.
Chosen(d, subOps, i) ==
  IF i < Len(subOps) /\ subOps[i + 1] # "" THEN [d EXCEPT !.subOp = subOps[i + 1]]
  ELSE Illegal(d)

Environment(d, w) ==
  LET to == [d EXCEPT !.rs1 = FALSE, !.control = TRUE]
  IN  CASE w.rd # 0 \/ w.rs1 # 0 -> Illegal(d)
        [] w.rd = 0 /\ w.rs1 = 0 /\ iimm(w) = 0 ->
             [to EXCEPT !.subOp = "ECALL", !.excp = "ENV_CALL_MMODE"]
        [] w.rd = 0 /\ w.rs1 = 0 /\ iimm(w) = 1 ->
             [to EXCEPT !.subOp = "EBREAK", !.excp = "BREAKPOINT"]
        [] w.rd = 0 /\ w.rs1 = 0 /\ iimm(w) = 770 -> [to EXCEPT !.subOp = "MRET"]
        [] w.rd = 0 /\ w.rs1 = 0 /\ iimm(w) = 258 -> [to EXCEPT !.subOp = "SRET"]
        [] OTHER -> Illegal([d EXCEPT !.rs1 = FALSE])

System(w) ==
  LET immediate == w.func3 > 4
      d == [Defaults EXCEPT
              !.fu = "CSR", !.subOp = "CSRRW", !.imm = csr(w),
              !.rs1 = w.func3 % 4 # 0 /\ ~immediate,
              !.operand1 = IF immediate THEN Constant(w.rs1) ELSE @]
      reads == [d EXCEPT !.subOp = "CSRR", !.rs1 = FALSE, !.rd = TRUE]
  IN  CASE w.func3 % 4 = 0 -> Environment(d, w)
        [] w.func3 % 4 = 1 -> [d EXCEPT !.subOp = "CSRRW", !.rd = TRUE]
        [] w.func3 % 4 > 1 /\ w.rs1 = 0 -> reads
        [] OTHER -> [d EXCEPT !.subOp = <<"CSRRS", "CSRRC">>[(w.func3 % 4) - 1], !.rd = TRUE]

\* Where no operation is assigned, SubOp is still 0, the unit's first.
MiscMem(w) ==
  LET d == [Defaults EXCEPT !.fu = "CSR", !.imm = iimm(w), !.subOp = "CSRRW"]
  IN  CASE w.rs1 # 0 \/ w.rd # 0 -> Illegal(d)
        [] w.rs1 = 0 /\ w.rd = 0 /\ w.func3 = 0 -> [d EXCEPT !.subOp = "FENCE"]
        [] w.rs1 = 0 /\ w.rd = 0 /\ w.func3 = 1 ->
             IF iimm(w) # 0 THEN Illegal(d)
             ELSE [d EXCEPT !.subOp = "FENCEI", !.control = TRUE]
        [] OTHER -> d

Load(w) ==
  Chosen([Defaults EXCEPT !.fu = "LDU", !.imm = iimm(w), !.rs1 = TRUE, !.rd = TRUE],
         <<"LB", "LH", "LW", "LD", "LBU", "LHU", "LWU">>, w.func3)

Store(w) ==
  Chosen([Defaults EXCEPT !.fu = "STU", !.imm = simm(w), !.rs1 = TRUE, !.rs2 = TRUE],
         <<"SB", "SH", "SW", "SD">>, w.func3)

Branch(w) ==
  Chosen([Defaults EXCEPT !.fu = "BRU", !.imm = sbimm(w), !.rs1 = TRUE, !.rs2 = TRUE,
                          !.control = TRUE],
         <<"BEQ", "BNE", "", "", "BLT", "BGE", "BLTU", "BGEU">>, w.func3)

Jal(isRvc) ==
  [Defaults EXCEPT !.operand1 = Pc, !.operand2 = Constant(IF isRvc THEN 2 ELSE 4), !.rd = TRUE]

Jalr(w) ==
  LET d == [Defaults EXCEPT !.fu = "BRU", !.subOp = "JALR", !.rs1 = TRUE, !.imm = iimm(w),
                            !.control = TRUE, !.rd = TRUE]
  IN  IF w.func3 # 0 THEN Illegal(d) ELSE d

MulDiv(d, w, subOps) ==
  LET first == IF w.func3 < 4 THEN "MUL" ELSE "DIV"
  IN  [d EXCEPT !.fu = first,
                !.subOp = IF subOps[w.func3 + 1] = "" THEN first ELSE subOps[w.func3 + 1]]

Registers == [Defaults EXCEPT !.rs1 = TRUE, !.rs2 = TRUE, !.rd = TRUE]
OpInsn(w) ==
  CASE w.func7 = 0 ->
         Chosen(Registers, <<"ADD", "SLL", "SLT", "SLTU", "XOR", "SRL", "OR", "AND">>, w.func3)
    [] w.func7 = 32 -> Chosen(Registers, <<"SUB", "", "", "", "", "SRA">>, w.func3)
    [] w.func7 = 1 ->
         MulDiv(Registers, w,
                <<"MUL", "MULH", "MULHSU", "MULHU", "DIV", "DIVU", "REM", "REMU">>)
    [] OTHER -> Illegal(Registers)
Op32Insn(w) ==
  CASE w.func7 = 0 -> Chosen(Registers, <<"ADDW", "SLLW", "", "", "", "SRLW">>, w.func3)
    [] w.func7 = 32 -> Chosen(Registers, <<"SUBW", "", "", "", "", "SRAW">>, w.func3)
    [] w.func7 = 1 ->
         MulDiv(Registers, w, <<"MULW", "", "", "", "DIVW", "DIVUW", "REMW", "REMUW">>)
    [] OTHER -> Illegal(Registers)

Immediate(w, n) ==
  [Defaults EXCEPT !.rs1 = TRUE, !.rd = TRUE, !.imm = iimm(w), !.operand2 = Constant(n)]
OpImm(w) ==
  LET shifts == Immediate(w, shamt(w))
      left == [shifts EXCEPT !.subOp = "SLL"]
      high == w.func7 \div 2
  IN  CASE w.func3 = 1 -> IF high # 0 THEN Illegal(left) ELSE left
        [] w.func3 = 5 /\ high = 0  -> [shifts EXCEPT !.subOp = "SRL"]
        [] w.func3 = 5 /\ high = 16 -> [shifts EXCEPT !.subOp = "SRA"]
        [] w.func3 = 5 /\ high \notin {0, 16} -> Illegal(shifts)
        [] OTHER ->
             Chosen(Immediate(w, iimm(w)),
                    <<"ADD", "", "SLT", "SLTU", "XOR", "", "OR", "AND">>, w.func3)
OpImm32(w) ==
  LET shifts == Immediate(w, shamt(w))
      left == [shifts EXCEPT !.subOp = "SLLW"]
      d == Immediate(w, iimm(w))
  IN  CASE w.func3 = 0 -> [d EXCEPT !.subOp = "ADDW"]
        [] w.func3 = 1 -> IF w.func7 # 0 THEN Illegal(left) ELSE left
        [] w.func3 = 5 /\ w.func7 = 0  -> [shifts EXCEPT !.subOp = "SRLW"]
        [] w.func3 = 5 /\ w.func7 = 32 -> [shifts EXCEPT !.subOp = "SRAW"]
        [] w.func3 = 5 /\ w.func7 \notin {0, 32} -> Illegal(shifts)
        [] OTHER -> Illegal(d)

Upper(w, second) ==
  [Defaults EXCEPT !.operand1 = Constant(uimm(w)), !.operand2 = second,
                   !.imm = uimm(w), !.rd = TRUE]

ByOpcode(w, isRvc) ==
  CASE w.opcode = Op.SYSTEM  -> System(w)
    [] w.opcode = Op.MISCMEM -> MiscMem(w)
    [] w.opcode = Op.LOAD    -> Load(w)
    [] w.opcode = Op.STORE   -> Store(w)
    [] w.opcode = Op.BRANCH  -> Branch(w)
    [] w.opcode = Op.JAL     -> Jal(isRvc)
    [] w.opcode = Op.JALR    -> Jalr(w)
    [] w.opcode = Op.OP      -> OpInsn(w)
    [] w.opcode = Op.OP32    -> Op32Insn(w)
    [] w.opcode = Op.IMM     -> OpImm(w)
    [] w.opcode = Op.IMM32   -> OpImm32(w)
    [] w.opcode = Op.AUIPC   -> Upper(w, Pc)
    [] w.opcode = Op.LUI     -> Upper(w, Constant(0))
    [] OTHER -> Illegal(Defaults)

\* A register that is not used is number 0, and register 0 is not written.
Named(d, w) ==
  [d EXCEPT !.rs1 = IF d.rs1 THEN w.rs1 ELSE 0, !.rs2 = IF d.rs2 THEN w.rs2 ELSE 0,
            !.rd = IF d.rd THEN w.rd ELSE 0]

Decode_Func(word, isRvc) ==
  LET w == IF isRvc THEN crv_decompress_real(word) ELSE word
  IN  IF isRvc /\ w = NoWord THEN Named(Illegal(Defaults), NoWord)
      ELSE Named(ByOpcode(w, isRvc), w)

-----------------------------------------------------------------------------
(* Fetch1::BranchRedirect: how far from the pc the fetch goes on.          *)

IsCJump(c) == Quadrant(c) = 1 /\ Imm3(c) = 5
BranchRedirect(word, isRvc) ==
  CASE ~isRvc /\ word.opcode = Op.JAL -> [taken |-> TRUE, target |-> ujimm(word)]
    [] isRvc /\ IsCJump(word) -> [taken |-> TRUE, target |-> rvc_j_imm(word)]
    [] OTHER -> [taken |-> FALSE, target |-> IF isRvc THEN 2 ELSE 4]
=============================================================================

-------------------------------- MODULE Isa --------------------------------
(***************************************************************************)
(* What an instruction means by the tables of the RISC-V manual (RV64IM    *)
(* and the 16-bit instructions): which operation on which registers and    *)
(* constants, what it puts in its register and in memory, and where the    *)
(* program goes on.  This is the reference for Datapath; nothing in it is  *)
(* taken from the code.                                                    *)
(***************************************************************************)
EXTENDS Integers, Sequences, FiniteSetsExt

CONSTANT XLEN

-----------------------------------------------------------------------------
(* Immediates: the bits of the instruction, from the top, and the bits of  *)
(* the immediate they are.                                                 *)

Down(high, low) == [i \in 1 .. (high - low + 1) |-> high - i + 1]

BitOf(n, i) == (n \div 2^i) % 2
WordBit(w, i) ==
  CASE i \in 0 .. 6   -> BitOf(w.opcode, i)
    [] i \in 7 .. 11  -> BitOf(w.rd, i - 7)
    [] i \in 12 .. 14 -> BitOf(w.func3, i - 12)
    [] i \in 15 .. 19 -> BitOf(w.rs1, i - 15)
    [] i \in 20 .. 24 -> BitOf(w.rs2, i - 20)
    [] i \in 25 .. 31 -> BitOf(w.func7, i - 25)

Assembled(Bit(_), from, to) ==
  MapThenSumSet(LAMBDA k : Bit(from[k]) * 2^to[k], DOMAIN from)
\* The first bit is the sign.
SignedImm(Bit(_), from, to) ==
  Assembled(Bit, from, to) - (Bit(from[1]) * 2^(to[1] + 1))

WordImm(w, from, to) == SignedImm(LAMBDA i : WordBit(w, i), from, to)
ImmI(w) == WordImm(w, Down(31, 20), Down(11, 0))
ImmS(w) == WordImm(w, Down(31, 25) \o Down(11, 7), Down(11, 0))
ImmB(w) == WordImm(w, Down(31, 25) \o Down(11, 7),
                   <<12>> \o Down(10, 5) \o Down(4, 1) \o <<11>>)
ImmU(w) == WordImm(w, Down(31, 12), Down(19, 0)) * 4096
ImmJ(w) == WordImm(w, Down(31, 12),
                   <<20>> \o Down(10, 1) \o <<11>> \o Down(19, 12))
Unsigned(w, high, low) ==
  Assembled(LAMBDA i : WordBit(w, i), Down(high, low), Down(high - low, 0))

FormCI  == <<12>> \o Down(6, 2)
FormCL  == Down(12, 10) \o <<6, 5>>
FormCB  == Down(12, 10) \o Down(6, 2)
HalfImm(c, from, to)   == SignedImm(LAMBDA i : BitOf(c, i), from, to)
HalfUnsigned(c, from, to) == Assembled(LAMBDA i : BitOf(c, i), from, to)

-----------------------------------------------------------------------------
(* An instruction: an operation, the registers it reads and writes (0 for  *)
(* none), its two operands, an offset or a number it is given, the excep-  *)
(* tion it raises and, for a direct jump, how far it goes.                 *)

InRegister  == <<"register", 0>>
Constant(n) == <<"constant", n>>
Insn == [op |-> "", rd |-> 0, rs1 |-> 0, rs2 |-> 0, first |-> InRegister,
         second |-> InRegister, imm |-> 0, excp |-> "none", jump |-> <<>>]

IllegalInsn == [Insn EXCEPT !.excp = "ILLEGAL_INSTR"]
\* The manual reserves the encoding: an implementation may do as it likes.
Unspecified == [Insn EXCEPT !.op = "unspecified"]

RegReg(op, rd, rs1, rs2) == [Insn EXCEPT !.op = op, !.rd = rd, !.rs1 = rs1, !.rs2 = rs2]
RegImm(op, rd, rs1, n) ==
  [Insn EXCEPT !.op = op, !.rd = rd, !.rs1 = rs1, !.second = Constant(n)]
WithOffset(op, rd, rs1, rs2, n) == [RegReg(op, rd, rs1, rs2) EXCEPT !.imm = n]
Sum(rd, first, second) ==
  [Insn EXCEPT !.op = "ADD", !.rd = rd, !.first = first, !.second = second]
Jump(rd, n, length) == [Sum(rd, <<"pc", 0>>, Constant(length)) EXCEPT !.jump = <<n>>]

Special == {"ECALL", "EBREAK", "MRET", "SRET", "FENCEI"}
Branches == {"BEQ", "BNE", "BLT", "BGE", "BLTU", "BGEU"}
Loads == {"LB", "LH", "LW", "LD", "LBU", "LHU", "LWU"}
Stores == {"SB", "SH", "SW", "SD"}
CsrOps == {"CSRR", "CSRRW", "CSRRS", "CSRRC"}
\* Those after which the program may go on elsewhere, but for direct jumps.
IsControlFlow(op) == op \in Special \union Branches \union {"JALR"}

\* Rows <<operation, opcode, func3, func7>> of the tables; -1: any.
RegRegRows ==
  {<<"ADD", 51, 0, 0>>, <<"SUB", 51, 0, 32>>, <<"SLL", 51, 1, 0>>, <<"SLT", 51, 2, 0>>,
   <<"SLTU", 51, 3, 0>>, <<"XOR", 51, 4, 0>>, <<"SRL", 51, 5, 0>>, <<"SRA", 51, 5, 32>>,
   <<"OR", 51, 6, 0>>, <<"AND", 51, 7, 0>>, <<"MUL", 51, 0, 1>>, <<"MULH", 51, 1, 1>>,
   <<"MULHSU", 51, 2, 1>>, <<"MULHU", 51, 3, 1>>, <<"DIV", 51, 4, 1>>, <<"DIVU", 51, 5, 1>>,
   <<"REM", 51, 6, 1>>, <<"REMU", 51, 7, 1>>, <<"ADDW", 59, 0, 0>>, <<"SUBW", 59, 0, 32>>,
   <<"SLLW", 59, 1, 0>>, <<"SRLW", 59, 5, 0>>, <<"SRAW", 59, 5, 32>>, <<"MULW", 59, 0, 1>>,
   <<"DIVW", 59, 4, 1>>, <<"DIVUW", 59, 5, 1>>, <<"REMW", 59, 6, 1>>, <<"REMUW", 59, 7, 1>>}
RegImmRows ==
  {<<"ADD", 19, 0, -1>>, <<"SLT", 19, 2, -1>>, <<"SLTU", 19, 3, -1>>, <<"XOR", 19, 4, -1>>,
   <<"OR", 19, 6, -1>>, <<"AND", 19, 7, -1>>, <<"ADDW", 27, 0, -1>>}
\* The sixth bit of a shift amount is the lowest of func7.
ShiftRows ==
  {<<"SLL", 19, 1, 0>>, <<"SLL", 19, 1, 1>>, <<"SRL", 19, 5, 0>>, <<"SRL", 19, 5, 1>>,
   <<"SRA", 19, 5, 32>>, <<"SRA", 19, 5, 33>>, <<"SLLW", 27, 1, 0>>, <<"SRLW", 27, 5, 0>>,
   <<"SRAW", 27, 5, 32>>}
LoadRows ==
  {<<"LB", 3, 0, -1>>, <<"LH", 3, 1, -1>>, <<"LW", 3, 2, -1>>, <<"LD", 3, 3, -1>>,
   <<"LBU", 3, 4, -1>>, <<"LHU", 3, 5, -1>>, <<"LWU", 3, 6, -1>>}
StoreRows == {<<"SB", 35, 0, -1>>, <<"SH", 35, 1, -1>>, <<"SW", 35, 2, -1>>, <<"SD", 35, 3, -1>>}
BranchRows ==
  {<<"BEQ", 99, 0, -1>>, <<"BNE", 99, 1, -1>>, <<"BLT", 99, 4, -1>>, <<"BGE", 99, 5, -1>>,
   <<"BLTU", 99, 6, -1>>, <<"BGEU", 99, 7, -1>>}
CsrRows == {<<"CSRRW", 115, 1, -1>>, <<"CSRRS", 115, 2, -1>>, <<"CSRRC", 115, 3, -1>>,
            <<"CSRRW", 115, 5, -1>>, <<"CSRRS", 115, 6, -1>>, <<"CSRRC", 115, 7, -1>>}

Matching(w, rows) ==
  {row \in rows : row[2] = w.opcode /\ row[3] = w.func3 /\ row[4] \in {-1, w.func7}}
OpIn(w, rows) == (CHOOSE row \in Matching(w, rows) : TRUE)[1]

\* Setting or clearing no bits only reads the register.
CsrInsn(w) ==
  LET op == IF w.func3 % 4 > 1 /\ w.rs1 = 0 THEN "CSRR" ELSE OpIn(w, CsrRows)
      number == Unsigned(w, 31, 20)
  IN  IF w.func3 < 4 THEN WithOffset(op, w.rd, w.rs1, 0, number)
      ELSE [WithOffset(op, w.rd, 0, 0, number) EXCEPT !.first = Constant(w.rs1)]

\* ECALL, EBREAK, MRET and SRET have every other field 0.
EnvironmentInsn(w) ==
  LET Trap(op, excp) == [Insn EXCEPT !.op = op, !.excp = excp]
      fields == <<w.func3, w.rd, w.rs1, w.func7, w.rs2>>
  IN  CASE fields = <<0, 0, 0, 0, 0>>  -> Trap("ECALL", "ENV_CALL_MMODE")
        [] fields = <<0, 0, 0, 0, 1>>  -> Trap("EBREAK", "BREAKPOINT")
        [] fields = <<0, 0, 0, 24, 2>> -> Trap("MRET", "none")
        [] fields = <<0, 0, 0, 8, 2>>  -> Trap("SRET", "none")
        [] w.func3 = 4 -> Unspecified
        [] OTHER -> IllegalInsn

FenceInsn(w) ==
  CASE w.func3 = 0 -> [Insn EXCEPT !.op = "FENCE"]
    [] w.func3 = 1 -> [Insn EXCEPT !.op = "FENCEI"]
    [] OTHER -> Unspecified

OfWord(w) ==
  LET In(rows) == Matching(w, rows) # {}
  IN  CASE In(RegRegRows) -> RegReg(OpIn(w, RegRegRows), w.rd, w.rs1, w.rs2)
        [] In(RegImmRows) -> RegImm(OpIn(w, RegImmRows), w.rd, w.rs1, ImmI(w))
        [] In(ShiftRows)  -> RegImm(OpIn(w, ShiftRows), w.rd, w.rs1,
                                    Unsigned(w, IF w.opcode = 19 THEN 25 ELSE 24, 20))
        [] In(LoadRows)   -> WithOffset(OpIn(w, LoadRows), w.rd, w.rs1, 0, ImmI(w))
        [] In(StoreRows)  -> WithOffset(OpIn(w, StoreRows), 0, w.rs1, w.rs2, ImmS(w))
        [] In(BranchRows) -> WithOffset(OpIn(w, BranchRows), 0, w.rs1, w.rs2, ImmB(w))
        [] In(CsrRows)    -> CsrInsn(w)
        [] w.opcode = 103 /\ w.func3 = 0 -> WithOffset("JALR", w.rd, w.rs1, 0, ImmI(w))
        [] w.opcode = 111 -> Jump(w.rd, ImmJ(w), 4)
        [] w.opcode = 55  -> Sum(w.rd, Constant(ImmU(w)), Constant(0))
        [] w.opcode = 23  -> Sum(w.rd, Constant(ImmU(w)), <<"pc", 0>>)
        [] w.opcode = 15  -> FenceInsn(w)
        [] w.opcode = 115 /\ w.func3 \in {0, 4} -> EnvironmentInsn(w)
        [] w.opcode = 59 /\ w.func7 = 1 /\ w.func3 \in {1, 2, 3} -> Unspecified
        [] OTHER -> IllegalInsn

-----------------------------------------------------------------------------
(* The instructions of 16 bits, by <<bits 1-0, bits 15-13>>. *)

Wide(c, low)   == (c \div 2^low) % 32      \* a register of five bits
Short(c, low)  == 8 + ((c \div 2^low) % 8) \* one of x8 .. x15
Reserved(when, insn) == IF when THEN Unspecified ELSE insn

CArithInsn(c) ==
  LET rd == Short(c, 7)
      kind == <<BitOf(c, 12), BitOf(c, 6), BitOf(c, 5)>>
      amount == HalfUnsigned(c, FormCI, Down(5, 0))
  IN  CASE Wide(c, 10) % 4 = 0 -> RegImm("SRL", rd, rd, amount)
        [] Wide(c, 10) % 4 = 1 -> RegImm("SRA", rd, rd, amount)
        [] Wide(c, 10) % 4 = 2 -> RegImm("AND", rd, rd, HalfImm(c, FormCI, Down(5, 0)))
        [] OTHER ->
             CASE kind = <<0, 0, 0>> -> RegReg("SUB", rd, rd, Short(c, 2))
               [] kind = <<0, 0, 1>> -> RegReg("XOR", rd, rd, Short(c, 2))
               [] kind = <<0, 1, 0>> -> RegReg("OR", rd, rd, Short(c, 2))
               [] kind = <<0, 1, 1>> -> RegReg("AND", rd, rd, Short(c, 2))
               [] kind = <<1, 0, 0>> -> RegReg("SUBW", rd, rd, Short(c, 2))
               [] kind = <<1, 0, 1>> -> RegReg("ADDW", rd, rd, Short(c, 2))
               [] OTHER -> IllegalInsn

CJumpMoveInsn(c) ==
  LET rd == Wide(c, 7)  rs2 == Wide(c, 2)
  IN  CASE BitOf(c, 12) = 0 /\ rs2 = 0 -> Reserved(rd = 0, WithOffset("JALR", 0, rd, 0, 0))
        [] BitOf(c, 12) = 0 /\ rs2 # 0 -> RegReg("ADD", rd, 0, rs2)
        [] BitOf(c, 12) = 1 /\ rs2 = 0 ->
             IF rd = 0 THEN [Insn EXCEPT !.op = "EBREAK", !.excp = "BREAKPOINT"]
             ELSE WithOffset("JALR", 1, rd, 0, 0)
        [] BitOf(c, 12) = 1 /\ rs2 # 0 -> RegReg("ADD", rd, rd, rs2)

OfHalf(c) ==
  LET rd == Wide(c, 7)
      kind == <<c % 4, c \div 2^13>>
      six == HalfImm(c, FormCI, Down(5, 0))
      Unsigned16(from, to) == HalfUnsigned(c, from, to)
      sp == 2
  IN  CASE c = 0 -> IllegalInsn
        [] c # 0 /\ kind = <<0, 0>> ->
             LET n == Unsigned16(Down(12, 5), <<5, 4, 9, 8, 7, 6, 2, 3>>)
             IN  Reserved(n = 0, RegImm("ADD", Short(c, 2), sp, n))
        [] kind = <<0, 2>> -> WithOffset("LW", Short(c, 2), Short(c, 7), 0,
                                         Unsigned16(FormCL, <<5, 4, 3, 2, 6>>))
        [] kind = <<0, 3>> -> WithOffset("LD", Short(c, 2), Short(c, 7), 0,
                                         Unsigned16(FormCL, <<5, 4, 3, 7, 6>>))
        [] kind = <<0, 6>> -> WithOffset("SW", 0, Short(c, 7), Short(c, 2),
                                         Unsigned16(FormCL, <<5, 4, 3, 2, 6>>))
        [] kind = <<0, 7>> -> WithOffset("SD", 0, Short(c, 7), Short(c, 2),
                                         Unsigned16(FormCL, <<5, 4, 3, 7, 6>>))
        [] kind = <<1, 0>> -> RegImm("ADD", rd, rd, six)
        [] kind = <<1, 1>> -> Reserved(rd = 0, RegImm("ADDW", rd, rd, six))
        [] kind = <<1, 2>> -> RegImm("ADD", rd, 0, six)
        [] kind = <<1, 3>> ->
             Reserved(six = 0,
                      IF rd = sp
                      THEN RegImm("ADD", sp, sp, HalfImm(c, FormCI, <<9, 4, 6, 8, 7, 5>>))
                      ELSE Sum(rd, Constant(six * 4096), Constant(0)))
        [] kind = <<1, 4>> -> CArithInsn(c)
        [] kind = <<1, 5>> ->
             Jump(0, HalfImm(c, Down(12, 2), <<11, 4, 9, 8, 10, 6, 7, 3, 2, 1, 5>>), 2)
        [] kind \in {<<1, 6>>, <<1, 7>>} ->
             WithOffset(IF kind[2] = 6 THEN "BEQ" ELSE "BNE", 0, Short(c, 7), 0,
                        HalfImm(c, FormCB, <<8, 4, 3, 7, 6, 2, 1, 5>>))
        [] kind = <<2, 0>> -> RegImm("SLL", rd, rd, Unsigned16(FormCI, Down(5, 0)))
        [] kind = <<2, 2>> ->
             Reserved(rd = 0, WithOffset("LW", rd, sp, 0, Unsigned16(FormCI, <<5, 4, 3, 2, 7, 6>>)))
        [] kind = <<2, 3>> ->
             Reserved(rd = 0, WithOffset("LD", rd, sp, 0, Unsigned16(FormCI, <<5, 4, 3, 8, 7, 6>>)))
        [] kind = <<2, 4>> -> CJumpMoveInsn(c)
        [] kind = <<2, 6>> ->
             WithOffset("SW", 0, sp, Wide(c, 2), Unsigned16(Down(12, 7), <<5, 4, 3, 2, 7, 6>>))
        [] kind = <<2, 7>> ->
             WithOffset("SD", 0, sp, Wide(c, 2), Unsigned16(Down(12, 7), <<5, 4, 3, 8, 7, 6>>))
        [] OTHER -> IllegalInsn

-----------------------------------------------------------------------------
(* What an operation does with operands x and y, numbers below 2^XLEN, as  *)
(* sets of bits where the manual speaks of bits.                           *)

HalfLen == XLEN \div 2
Bits(n, width) == {i \in 0 .. (width - 1) : BitOf(n, i) = 1}
Number(bits) == MapThenSumSet(LAMBDA i : 2^i, bits)
\* The low bits of n, the topmost of them repeated above.
Extended(n, width) ==
  Number({i \in 0 .. (XLEN - 1) : BitOf(n, IF i < width THEN i ELSE width - 1) = 1})
IsNegative(n, width) == BitOf(n, width - 1) = 1
Value(n, width) == (n % 2^width) - (IF IsNegative(n, width) THEN 2^width ELSE 0)
BelowSigned(x, y) == (x + 2^(XLEN - 1)) % 2^XLEN < (y + 2^(XLEN - 1)) % 2^XLEN

Right(x, by, width, fill) ==
  Number({i \in 0 .. (width - 1) : IF i + by < width THEN BitOf(x, i + by) = 1 ELSE fill})
\* The product of unsigned numbers, above XLEN, corrected for the signs.
HighProduct(x, y, xSigned, ySigned) ==
  (((x * y) \div 2^XLEN) - (IF xSigned /\ IsNegative(x, XLEN) THEN y ELSE 0)
                         - (IF ySigned /\ IsNegative(y, XLEN) THEN x ELSE 0)) % 2^XLEN

Magnitude(n) == IF n < 0 THEN -n ELSE n
\* Rounded towards zero: the remainder is smaller than the divisor and has
\* the sign of the dividend; the one quotient that overflows wraps.
Divides(x, y, q) ==
  LET r == x - (q * y)
  IN  Magnitude(r) < Magnitude(y) /\ (r = 0 \/ (r < 0) = (x < 0))
QuotientOf(x, y) ==
  CHOOSE q \in -Magnitude(x) .. Magnitude(x) : Divides(x, y, q)
Divided(x, y)  == IF y = 0 THEN -1 ELSE QuotientOf(x, y)
LeftOver(x, y) == IF y = 0 THEN x ELSE x - (QuotientOf(x, y) * y)

Result(op, x, y) ==
  LET low(n) == n % 2^HalfLen
      all(n) == n % 2^XLEN
      vx == Value(x, XLEN)  vy == Value(y, XLEN)
      wx == Value(x, HalfLen)  wy == Value(y, HalfLen)
  IN CASE op = "ADD" -> all(x + y)
       [] op = "SUB" -> all(x - y)
       [] op = "AND" -> Number(Bits(x, XLEN) \intersect Bits(y, XLEN))
       [] op = "OR"  -> Number(Bits(x, XLEN) \union Bits(y, XLEN))
       [] op = "XOR" -> Number(SymDiff(Bits(x, XLEN), Bits(y, XLEN)))
       [] op = "SLT" -> IF BelowSigned(x, y) THEN 1 ELSE 0
       [] op = "SLTU" -> IF x < y THEN 1 ELSE 0
       [] op = "SLL" -> all(x * 2^(y % XLEN))
       [] op = "SRL" -> Right(x, y % XLEN, XLEN, FALSE)
       [] op = "SRA" -> Right(x, y % XLEN, XLEN, IsNegative(x, XLEN))
       [] op = "ADDW" -> Extended(low(x + y), HalfLen)
       [] op = "SUBW" -> Extended(low(x - y), HalfLen)
       [] op = "SLLW" -> Extended(low(x * 2^(y % HalfLen)), HalfLen)
       [] op = "SRLW" -> Extended(Right(x, y % HalfLen, HalfLen, FALSE), HalfLen)
       [] op = "SRAW" -> Extended(Right(x, y % HalfLen, HalfLen, IsNegative(x, HalfLen)), HalfLen)
       [] op = "MUL" -> all(x * y)
       [] op = "MULH" -> HighProduct(x, y, TRUE, TRUE)
       [] op = "MULHSU" -> HighProduct(x, y, TRUE, FALSE)
       [] op = "MULHU" -> HighProduct(x, y, FALSE, FALSE)
       [] op = "MULW" -> Extended(low(x * y), HalfLen)
       [] op = "DIV" -> all(Divided(vx, vy))
       [] op = "DIVU" -> all(Divided(x, y))
       [] op = "REM" -> all(LeftOver(vx, vy))
       [] op = "REMU" -> all(LeftOver(x, y))
       [] op = "DIVW" -> Extended(low(Divided(wx, wy)), HalfLen)
       [] op = "DIVUW" -> Extended(low(Divided(low(x), low(y))), HalfLen)
       [] op = "REMW" -> Extended(low(LeftOver(wx, wy)), HalfLen)
       [] op = "REMUW" -> Extended(low(LeftOver(low(x), low(y))), HalfLen)

\* What a CSR that held old is left with: x written, its bits set or cleared.
CsrResult(op, x, old) ==
  CASE op = "CSRR"  -> old
    [] op = "CSRRW" -> x
    [] op = "CSRRS" -> Number(Bits(old, XLEN) \union Bits(x, XLEN))
    [] op = "CSRRC" -> Number(Bits(old, XLEN) \ Bits(x, XLEN))

Condition(op, x, y) ==
  CASE op = "BEQ" -> x = y
    [] op = "BNE" -> x # y
    [] op = "BLT" -> BelowSigned(x, y)
    [] op = "BGE" -> ~BelowSigned(x, y)
    [] op = "BLTU" -> x < y
    [] op = "BGEU" -> x >= y

\* Where the program goes on after insn, an instruction of length bytes.
NextPc(insn, x, y, pc, length) ==
  (CASE insn.jump # <<>> -> pc + insn.jump[1]
     [] insn.jump = <<>> /\ insn.op = "JALR" -> x + insn.imm - ((x + insn.imm) % 2)
     [] insn.op \in Branches -> pc + (IF Condition(insn.op, x, y) THEN insn.imm ELSE length)
     [] OTHER -> pc + length) % 2^XLEN

\* Memory: eight units of XLEN/8 bits, the lowest address in the low bits.
UnitsOf(op) == CASE op \in {"LB", "LBU", "SB"} -> 1 [] op \in {"LH", "LHU", "SH"} -> 2
                 [] op \in {"LW", "LWU", "SW"} -> 4 [] op \in {"LD", "SD"} -> 8
Aligned(op, address) == address % UnitsOf(op) = 0
BitsAt(op, address) ==
  LET start == (address % 8) * (XLEN \div 8)
  IN  start .. (start + (UnitsOf(op) * (XLEN \div 8)) - 1)

LoadResult(op, address, line) ==
  LET width == UnitsOf(op) * (XLEN \div 8)
      bits == Number({i - Min(BitsAt(op, address)) :
                        i \in Bits(line, XLEN) \intersect BitsAt(op, address)})
  IN  IF op \in {"LB", "LH", "LW", "LD"} THEN Extended(bits, width) ELSE bits

StoreResult(op, address, line, data) ==
  Number((Bits(line, XLEN) \ BitsAt(op, address))
           \union {i \in BitsAt(op, address) : BitOf(data, i - Min(BitsAt(op, address))) = 1})
=============================================================================

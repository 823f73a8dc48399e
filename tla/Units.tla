------------------------------- MODULE Units -------------------------------
(***************************************************************************)
(* What the functional units compute (FuncUnit/Func_ALU.hh, Func_MUL.hh,   *)
(* Func_DIV.hh, Func_BRU.hh, Func_CSR.hh) and the bytes that loads and     *)
(* stores pick from the memory word (Func_LSU.hh, Lsq.cc).                 *)
(*                                                                         *)
(* A register holds a number below 2^XLEN; a cast to a signed type of XLEN *)
(* or of XLEN/2 bits is Signed or SignedWord, one to an unsigned type is a *)
(* remainder.  XLEN stands for 64: XLEN/2 is the width of int32_t and      *)
(* XLEN/8 that of a byte.                                                  *)
(*                                                                         *)
(* Undefined behaviour, as the build for x86-64 resolves it: signed sums,  *)
(* differences and products wrap, and the shift instructions take their    *)
(* amount modulo the width of what is shifted.                             *)
(***************************************************************************)
EXTENDS Integers, FiniteSetsExt, Bitwise

CONSTANT XLEN

ASSUME XlenAssumption == \E n \in 3 .. 6 : XLEN = 2^n

\* Definitions whose names begin with Bad are injected faults: see README.

Half == XLEN \div 2
Byte == XLEN \div 8

AsSigned(n, width) == IF n % 2^width >= 2^(width - 1) THEN (n % 2^width) - 2^width
                      ELSE n % 2^width
Signed(n) == AsSigned(n, XLEN)    \* (int64_t)
\* The cast that makes the upper half of a register copies of bit 31 is gone.
BadSignedWord(n) == n % 2^Half
SignedWord(n) == AsSigned(n, Half)    \* (int32_t)
UnsignedWord(n) == n % 2^Half  \* (uint32_t)
Register(n) == n % 2^XLEN           \* what RdResult holds of a result
Truth(b)        == IF b THEN 1 ELSE 0

Abs(n) == IF n < 0 THEN -n ELSE n
\* The division of C++ rounds to zero; the remainder has the dividend's sign.
Quotient(x, y)  == IF (x < 0) = (y < 0) THEN Abs(x) \div Abs(y) ELSE -(Abs(x) \div Abs(y))
Remainder(x, y) == x - (y * Quotient(x, y))

ALU(op, x, y) ==
  CASE op = "ADD"  -> Signed(x) + Signed(y)
    [] op = "SUB"  -> Signed(x) - Signed(y)
    [] op = "SLL"  -> x * 2^(y % XLEN)
    [] op = "SLT"  -> Truth(Signed(x) < Signed(y))
    [] op = "SLTU" -> Truth(x < y)
    [] op = "XOR"  -> x ^^ y
    [] op = "OR"   -> x | y
    [] op = "AND"  -> x & y
    [] op = "SRL"  -> x \div 2^(y % XLEN)
    [] op = "SRA"  -> Signed(x) \div 2^(y % XLEN)
    [] op = "ADDW" -> SignedWord(SignedWord(x) + SignedWord(y))
    [] op = "SUBW" -> SignedWord(SignedWord(x) - SignedWord(y))
    [] op = "SLLW" -> SignedWord(SignedWord(x) * 2^(UnsignedWord(y) % Half))
    [] op = "SRLW" -> SignedWord(UnsignedWord(x) \div 2^(UnsignedWord(y) % Half))
    [] op = "SRAW" -> SignedWord(x) \div 2^(UnsignedWord(y) % Half)

MUL(op, x, y) ==
  CASE op = "MUL"    -> Signed(x) * Signed(y)
    [] op = "MULH"   -> (Signed(x) * Signed(y)) \div 2^XLEN
    [] op = "MULHSU" -> (Signed(x) * y) \div 2^XLEN
    [] op = "MULHU"  -> (x * y) \div 2^XLEN
    [] op = "MULW"   -> SignedWord(SignedWord(x) * SignedWord(y))

DIV(op, x, y) ==
  CASE op = "DIV"  -> CASE y = 0 -> -1
                        [] Signed(x) = -(2^(XLEN - 1)) /\ Signed(y) = -1 -> x
                        [] OTHER -> Quotient(Signed(x), Signed(y))
    [] op = "DIVU" -> IF y = 0 THEN -1 ELSE x \div y
    [] op = "REM"  -> CASE y = 0 -> Signed(x)
                        [] Signed(x) = -(2^(XLEN - 1)) /\ Signed(y) = -1 -> 0
                        [] OTHER -> Remainder(Signed(x), Signed(y))
    [] op = "REMU" -> IF y = 0 THEN x ELSE x % y
    [] op = "DIVW" -> CASE SignedWord(y) = 0 -> -1
                        [] SignedWord(x) = -(2^(Half - 1)) /\ SignedWord(y) = -1 -> SignedWord(x)
                        [] OTHER -> Quotient(SignedWord(x), SignedWord(y))
    [] op = "DIVUW" -> IF UnsignedWord(y) = 0 THEN -1
                       ELSE SignedWord(UnsignedWord(x) \div UnsignedWord(y))
    [] op = "REMW" -> CASE SignedWord(y) = 0 -> SignedWord(x)
                        [] SignedWord(x) = -(2^(Half - 1)) /\ SignedWord(y) = -1 -> 0
                        [] OTHER -> Remainder(SignedWord(x), SignedWord(y))
    [] op = "REMUW" -> IF UnsignedWord(y) = 0 THEN SignedWord(x)
                       ELSE SignedWord(UnsignedWord(x) % UnsignedWord(y))

-----------------------------------------------------------------------------
(* Func_BRU::Compute. *)

Taken(op, x, y) ==
  CASE op = "JALR" -> TRUE
    [] op = "BEQ"  -> Signed(x) = Signed(y)
    [] op = "BNE"  -> Signed(x) # Signed(y)
    [] op = "BLT"  -> Signed(x) < Signed(y)
    [] op = "BGE"  -> Signed(x) >= Signed(y)
    [] op = "BLTU" -> x < y
    [] op = "BGEU" -> x >= y

BruTarget(op, x, y, imm, pc, length) ==
  Register(IF op = "JALR" THEN Signed(x) + imm
           ELSE pc + (IF Taken(op, x, y) THEN imm ELSE length))

BruMisPred(op, x, y, imm, pc, length, pred) ==
  \/ Taken(op, x, y) # pred.taken
  \/ BruTarget(op, x, y, imm, pc, length) # Register(pc + pred.target)

-----------------------------------------------------------------------------
(* The CSR unit reads, then writes, one entry of the register file csrs    *)
(* (RISCV/ExecContext.cc): a function from the number of a CSR to its      *)
(* value.  No number is refused.                                           *)

ReadCsr(csrs, number) == csrs[number]
WriteCsr(csrs, number, data) == [csrs EXCEPT ![number] = data]

CSR(op, x, number, csrs) ==
  LET old == ReadCsr(csrs, number)
      Writes(n) == [value |-> old, csrs |-> WriteCsr(csrs, number, n)]
  IN  CASE op = "CSRRW" -> Writes(x)
        [] op = "CSRRS" -> Writes(x | old)
        [] op = "CSRRC" -> Writes((2^XLEN - 1 - x) & old)
        [] op = "CSRR"  -> [value |-> old, csrs |-> csrs]
        [] OTHER -> [value |-> 0, csrs |-> csrs]

-----------------------------------------------------------------------------
(* Loads and stores.  Memory is read and written in lines of 8 bytes, of   *)
(* dCacheAlignByte = 8; a line is a number below 2^XLEN.                   *)

Size(op) ==
  CASE op \in {"LB", "LBU", "SB"} -> 1
    [] op \in {"LH", "LHU", "SH"} -> 2
    [] op \in {"LW", "LWU", "SW"} -> 4
    [] op \in {"LD", "SD"} -> 8

AddrGen(x, imm) == Register(x + imm)

\* Func_LSU::ReceiveResponse reads the bytes at the offset, as a signed or
\* an unsigned type.
Loaded(op, address, line) ==
  LET bits  == Size(op) * Byte
      bytes == (line \div 2^((address % 8) * Byte)) % 2^bits
  IN  IF op \in {"LB", "LH", "LW", "LD"} THEN AsSigned(bytes, bits) ELSE bytes

\* Lsq::TryIssueStore shifts the data to the offset and masks the bytes.
ByteMask(op, address) == {i \in 0 .. 7 : i - (address % 8) \in 0 .. (Size(op) - 1)}
StoreData(address, data) == Register(data * 2^((address % 8) * Byte))
Stored(op, address, line, data) ==
  MapThenSumSet(LAMBDA i :
    2^(i * Byte) * (((IF i \in ByteMask(op, address) THEN StoreData(address, data) ELSE line)
                       \div 2^(i * Byte)) % 2^Byte),
    0 .. 7)
=============================================================================

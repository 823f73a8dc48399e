----------------------------- MODULE MCDatapath -----------------------------
(***************************************************************************)
(* Instances of Datapath: every instruction of 16 bits, the instructions   *)
(* of 32 bits whose fields are at their bounds, and one or more of each    *)
(* operation executed on the values at the bounds of eight bits.           *)
(***************************************************************************)
EXTENDS Datapath

\* The opcodes of the tables, four that are not there, and all of func3.
MCWords ==
  [opcode : {Op[k] : k \in DOMAIN Op} \union {7, 47, 83, 127},
   rd : {0, 1, 31}, func3 : 0 .. 7, rs1 : {0, 1, 31}, rs2 : {0, 1, 2, 31},
   func7 : {0, 1, 8, 24, 32, 33, 63, 64, 127}]
MCHalves == {c \in 0 .. 65535 : c % 4 # 3}

\* Registers 3 := 1 op 2, and immediates with and without their sign.
ExecutedWords ==
  [opcode : {Op.OP, Op.OP32}, rd : {3}, func3 : 0 .. 7, rs1 : {1}, rs2 : {2}, func7 : {0, 1, 32}]
    \union
  [opcode : {Op.IMM, Op.IMM32}, rd : {3}, func3 : 0 .. 7, rs1 : {1}, rs2 : {2}, func7 : {0, 32, 127}]
    \union
  [opcode : {Op.LOAD, Op.JALR}, rd : {3}, func3 : 0 .. 7, rs1 : {1}, rs2 : {1, 6}, func7 : {0}]
    \union
  [opcode : {Op.STORE}, rd : {1, 4}, func3 : 0 .. 3, rs1 : {1}, rs2 : {1, 2}, func7 : {0}]
    \union
  [opcode : {Op.BRANCH}, rd : {8, 29}, func3 : {0, 1, 4, 5, 6, 7}, rs1 : {1}, rs2 : {2}, func7 : {0, 127}]
    \union
  [opcode : {Op.JAL, Op.LUI, Op.AUIPC}, rd : {1}, func3 : {0}, rs1 : {0}, rs2 : {4, 28}, func7 : {0, 127}]
    \union
  \* CSR 774, and the fences.
  [opcode : {Op.SYSTEM}, rd : {0, 3}, func3 : {1, 2, 3, 5, 6, 7}, rs1 : {0, 1, 31}, rs2 : {6}, func7 : {24}]
    \union
  [opcode : {15}, rd : {0}, func3 : {0, 1}, rs1 : {0}, rs2 : {0}, func7 : {0}]
\* Jumps and branches of 16 bits, and one that only adds.
ExecutedHalves == {40961, 45053, 49153, 58373, 33410, 37122, 133}

MCExecuted == {<<FALSE, w>> : w \in ExecutedWords} \union {<<TRUE, c>> : c \in ExecutedHalves}
MCWordsFetched == MCWords \union ExecutedWords
MCRegisterValues == {0, 1, 2, 3, 7, 8, 9, 15, 16, 100, 127, 128, 129, 240, 247, 248, 254, 255}
MCLineValues == {0, 165, 90}
MCPcs == {16, 252}
MCCsrNumbers == {774, 32}
=============================================================================

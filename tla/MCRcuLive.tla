------------------------------ MODULE MCRcuLive ------------------------------
(***************************************************************************)
(* Progress of the Rcu in two machines, chosen by the first state: one     *)
(* without speculation, renaming registers, and one with speculation whose *)
(* rollbacks take several ticks.  The machines share nothing but variables.*)
(***************************************************************************)
EXTENDS Integers

CONSTANTS r1, p1, p2, p0, noreg

VARIABLES
  rob, header, tail, usage, robState, rollBackTag, free, renameTable,
  allocated, ready, iew, toCommit, phase, budget, commitMap, path,
  machine  \* which of the two machines runs

InOrder == INSTANCE Rcu WITH
  RobSize <- 2, AllocWidth <- 2, DeallocWidth <- 2, ArchReg <- {r1},
  NoReg <- noreg, PhyReg <- {p1, p2}, ZeroPhy <- p0,
  Kind <- {"BRU", "LDU", "FENCEI", "FENCE"}, Speculation <- FALSE,
  LoadFaults <- TRUE, FaultingRd <- {noreg},
  TraceOn <- TRUE

Speculative == INSTANCE Rcu WITH
  RobSize <- 3, AllocWidth <- 1, DeallocWidth <- 2, ArchReg <- {},
  NoReg <- noreg, PhyReg <- {}, ZeroPhy <- p0, Kind <- {"BRU", "LDU"},
  Speculation <- TRUE, LoadFaults <- TRUE, FaultingRd <- {noreg},
  TraceOn <- TRUE

vars == <<InOrder!vars, machine>>

Init ==
  \/ machine = "in order" /\ InOrder!Init
  \/ machine = "speculative" /\ Speculative!Init

(* A step of the machine that runs.                                        *)
Step(A, B) ==
  /\ (machine = "in order" /\ A) \/ (machine = "speculative" /\ B)
  /\ UNCHANGED machine

Next == Step(InOrder!Next, Speculative!Next)

(* The fairness of Rcu in the machine that runs.                           *)
Fairness ==
  /\ WF_vars(Step(InOrder!Tick, Speculative!Tick))
  /\ \A t \in Speculative!Slots : SF_vars(Step(InOrder!Moves(t), Speculative!Moves(t)))

Spec == Init /\ [][Next]_vars /\ Fairness

-----------------------------------------------------------------------------
(* In both machines every recovery ends and dispatch resumes: waiting for  *)
(* the commit of the target, and a rollback cut into ticks, both finish.   *)
RecoveryEnds == InOrder!RecoveryEnds

(* Without speculation every instruction leaves the re-order buffer,       *)
(* retired or squashed: its head never waits for something behind it.      *)
EveryInsnLeaves ==
  machine = "in order" => InOrder!EveryInsnLeaves
=============================================================================

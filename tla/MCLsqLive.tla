------------------------------ MODULE MCLsqLive ------------------------------
(***************************************************************************)
(* Progress of the load and store queues in two machines, chosen by the    *)
(* first state: one without speculation whose loads may fault, and one     *)
(* with speculation.                                                       *)
(***************************************************************************)
EXTENDS Integers

CONSTANTS a1, v1, NoAddr, NoValue

VARIABLES
  ldq, ldqHeader, ldqTail, ldqUsage, stq, stqHeader, stqTail, stqUsage,
  mem, inflight, iew, window, target, waiting,
  machine  \* which of the two machines runs

InOrder == INSTANCE Lsq WITH
  LdqSize <- 2, StqSize <- 1, WindowSize <- 2, Addr <- {a1}, Value <- {v1},
  Speculation <- FALSE, LoadFaults <- TRUE, ExcpOps <- {}

Speculative == INSTANCE Lsq WITH
  LdqSize <- 2, StqSize <- 1, WindowSize <- 3, Addr <- {a1}, Value <- {v1},
  Speculation <- TRUE, LoadFaults <- FALSE, ExcpOps <- {}

vars == <<InOrder!vars, machine>>

Init ==
  \/ machine = "in order" /\ InOrder!Init
  \/ machine = "speculative" /\ Speculative!Init

(* A step of the machine that runs.                                        *)
Step(A, B) ==
  /\ (machine = "in order" /\ A) \/ (machine = "speculative" /\ B)
  /\ UNCHANGED machine

Next == Step(InOrder!Next, Speculative!Next)

(* The fairness of Lsq in the machine that runs.                           *)
Fairness ==
  /\ WF_vars(Step(\E y \in iew : InOrder!WriteBack(y),
                  \E y \in iew : Speculative!WriteBack(y)))
  /\ WF_vars(Step(InOrder!TryIssueLoad, Speculative!TryIssueLoad))
  /\ WF_vars(Step(InOrder!TryIssueStore, Speculative!TryIssueStore))
  /\ \A op \in {"LDU", "STU"}, t \in InOrder!LdqSlots :
       WF_vars(Step(InOrder!Answer(op, t), Speculative!Answer(op, t)))
  /\ WF_vars(Step(InOrder!Resolve, Speculative!Resolve))
  /\ WF_vars(Step(InOrder!RollBack, Speculative!RollBack))
  /\ WF_vars(Step(InOrder!CommitInsn, Speculative!CommitInsn))
  /\ WF_vars(Step(InOrder!Evaulate, Speculative!Evaulate))

Spec == Init /\ [][Next]_vars /\ Fairness

-----------------------------------------------------------------------------
(* Every entry of the two queues is freed again, whether its instruction   *)
(* retires or is squashed, so that dispatch never waits for ever.          *)
EntriesLeave == InOrder!EntriesLeave
=============================================================================

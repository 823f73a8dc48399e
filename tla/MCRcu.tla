-------------------------------- MODULE MCRcu --------------------------------
(***************************************************************************)
(* Model-checking instances of Rcu.  The physical registers are only ever  *)
(* compared with each other, so the instance is symmetric in them.  The    *)
(* view leaves out what no guard and no property reads: the contents of    *)
(* slots that are not live, and the rollback tag while nothing recovers.   *)
(***************************************************************************)
EXTENDS Rcu, TLC

Symmetry == Permutations(PhyReg)

View ==
  <<[t \in Slots |-> IF Rob!Live(t) THEN rob[t] ELSE BlankEntry],
    header, tail, usage, robState,
    IF robState = "Idle" THEN 0 ELSE rollBackTag,
    regVars, iew, toCommit, tickVars, history>>
=============================================================================

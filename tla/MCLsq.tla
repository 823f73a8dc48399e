-------------------------------- MODULE MCLsq --------------------------------
(* Lsq for TLC.                                                            *)
EXTENDS Lsq, TLC

Symmetry == Permutations(Addr) \union Permutations(Value)

(* What nothing reads is left out: slots that are not live, all but the    *)
(* state of a killed load or a committed one, the tag of a dependency that *)
(* is over, the data of an answer to a killed load.                        *)
SeenLoad(t) ==
  LET e == ldq[t]
  IN  CASE ~Ldq!Live(t) -> NewLoad
        [] Ldq!Live(t) /\ (e.killed \/ e.commited) ->
             [NewLoad EXCEPT !.killed = e.killed, !.commited = e.commited,
                             !.state = e.state]
        [] OTHER -> IF e.hasDependancy THEN e ELSE [e EXCEPT !.oldestStqTag = 0]

SeenStore(t) ==
  IF ~Stq!Live(t) THEN NewStore
  ELSE IF stq[t].state = "WaitSend" THEN stq[t]
  ELSE [stq[t] EXCEPT !.address = NoAddr, !.data = NoValue]

Dropped(op, tag) == op = "LDU" /\ (ldq[tag].killed \/ ~Ldq!Live(tag))

View ==
  <<[t \in LdqSlots |-> SeenLoad(t)], ldqHeader, ldqTail, ldqUsage,
    [t \in StqSlots |-> SeenStore(t)], stqHeader, stqTail, stqUsage,
    mem,
    {IF Dropped(r.op, r.tag) THEN [r EXCEPT !.value = NoValue] ELSE r :
       r \in inflight},
    {IF Dropped(y.op, y.tag) THEN [y EXCEPT !.addr = NoAddr] ELSE y : y \in iew},
    robVars>>
=============================================================================

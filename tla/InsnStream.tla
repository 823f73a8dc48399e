----------------------------- MODULE InsnStream -----------------------------
(***************************************************************************)
(* What the fetch and decode stages promise to Dispatch: the instructions  *)
(* it takes are those of the program, in program order, each once and each *)
(* made of its own parcels, from the address of the last redirect on.      *)
(* Dispatch takes several instructions at once.  Addresses are in bytes;   *)
(* a parcel is the 16 bits at an even address.                             *)
(***************************************************************************)
EXTENDS Integers, Sequences

CONSTANTS
  BootPc,
  Nowhere   \* due, after an instruction that carries an exception

VARIABLES
  program,  \* what each parcel of the memory holds
  due,      \* the address of the next instruction
  taken     \* what Dispatch has taken in this tick

\* A jump (JAL, C.J) is followed at once.  A conditional branch may be
\* followed either way: the branch unit verifies which, and redirects.
Successors(pc) ==
  LET first == program[pc]
  IN  {n \in {pc + first.by} : first.jumps \/ first.branches}
        \union {n \in {pc + IF first.wide THEN 4 ELSE 2} : ~first.jumps}

(* What an instruction at pc may be.  One that begins at an odd address is *)
(* never decoded: it carries the exception instead.                        *)
InsnsOf(pc) ==
  IF pc % 2 = 1
  THEN {[pc |-> pc, parcels |-> <<>>, excp |-> TRUE, next |-> Nowhere]}
  ELSE {[pc      |-> pc,
         parcels |-> IF program[pc].wide THEN <<pc, pc + 2>> ELSE <<pc>>,
         excp    |-> FALSE,
         next    |-> n] : n \in Successors(pc)}

Init == due = BootPc /\ taken = <<>>

Take ==
  /\ taken' # <<>>
  /\ taken'[1].pc = due
  /\ \A i \in 1 .. Len(taken') :
       /\ taken'[i] \in InsnsOf(taken'[i].pc)
       /\ i < Len(taken') => taken'[i + 1].pc = taken'[i].next
  /\ due' = taken'[Len(taken')].next

Redirect == due' # Nowhere /\ taken' = taken

TickEnds == taken' = <<>> /\ UNCHANGED due

Next == UNCHANGED program /\ (Take \/ Redirect \/ TickEnds)

Spec == Init /\ [][Next]_<<program, due, taken>>
=============================================================================

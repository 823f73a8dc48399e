---------------------------- MODULE InOrderMemory ----------------------------
(***************************************************************************)
(* What the program may rely on from the memory side of the core           *)
(* (Lsq.cc, the load and store units and the data cache port): though      *)
(* loads are answered early and in any order and stores are performed      *)
(* late, memory behaves as if every instruction took effect, one after the *)
(* other, at the moment it retires.                                        *)
(***************************************************************************)
EXTENDS Integers, Sequences

CONSTANTS
  Capacity,  \* instructions under way
  Addr,      \* addresses
  Value,     \* values of a word
  NoAddr,    \* address of an instruction that has none, or none yet
  NoValue    \* data or result of an instruction that has none, or none yet

Ops == {"LDU", "STU", "BRU"}  \* BRU: whatever touches no memory

VARIABLES
  mem,   \* the memory the retired instructions have left
  live   \* the instructions under way, oldest first

vars == <<mem, live>>

Insn == [op : Ops, addr : Addr \union {NoAddr}, data : Value \union {NoValue},
         result : Value \union {NoValue}, isExcp : BOOLEAN]

Init == mem \in [Addr -> Value] /\ live = << >>

Enter(i) ==
  /\ Len(live) < Capacity
  /\ live' = Append(live, i)
  /\ UNCHANGED mem

(* A load gets a value, right or wrong, or is refused.                     *)
Answer(k, v, refused) ==
  /\ live[k].op = "LDU"
  /\ live' = [live EXCEPT ![k] = [@ EXCEPT !.result = v, !.isExcp = refused]]
  /\ UNCHANGED mem

Squash ==
  /\ live # << >>
  /\ live' = SubSeq(live, 1, Len(live) - 1)
  /\ UNCHANGED mem

(* The oldest instruction takes effect: a store writes, a load must have   *)
(* the value that is in memory now, an exception does nothing.             *)
Retire ==
  /\ live # << >>
  /\ LET i == Head(live)
         stores == i.op = "STU" /\ ~i.isExcp
         loads == i.op = "LDU" /\ ~i.isExcp
     IN  /\ mem' = IF stores THEN [mem EXCEPT ![i.addr] = i.data] ELSE mem
         /\ loads => i.result = mem[i.addr]
  /\ live' = Tail(live)

Next ==
  \/ \E i \in Insn : Enter(i)
  \/ \E k \in 1..Len(live), v \in Value : Answer(k, v, FALSE)
  \/ \E k \in 1..Len(live) : Answer(k, NoValue, TRUE)
  \/ Squash
  \/ Retire

Spec == Init /\ [][Next]_vars
=============================================================================

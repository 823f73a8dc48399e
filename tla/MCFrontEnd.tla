----------------------------- MODULE MCFrontEnd -----------------------------
(***************************************************************************)
(* Instances of FrontEnd: lines of two parcels, a memory of eight, and     *)
(* programs that mix halves and wholes, split instructions over two lines  *)
(* and loop by a jump, so that the stream never ends.                      *)
(***************************************************************************)
EXTENDS FrontEnd

Memory(parcels) == {2 * i : i \in 0 .. (parcels - 1)}
Plain == [wide |-> FALSE, jumps |-> FALSE, branches |-> FALSE, by |-> 0]
Wide  == [Plain EXCEPT !.wide = TRUE]
CJump(by)   == [Plain EXCEPT !.jumps = TRUE, !.by = by]
Jal(by)     == [Wide EXCEPT !.jumps = TRUE, !.by = by]
CBranch(by) == [Plain EXCEPT !.branches = TRUE, !.by = by]

\* A wide instruction over the first two lines, and a branch that ends the
\* second: what is read past the end of InsnPred may send it past the loop,
\* to code that runs off the end of memory.
Loop ==
  [a \in Memory(8) |->
     CASE a = 2 -> Wide [] a = 6 -> CBranch(4) [] a = 8 -> CJump(-6)
       [] a = 10 -> Wide [] OTHER -> Plain]
\* A jump that is itself split over two lines, into the middle of a line.
SplitJump ==
  [a \in Memory(6) |->
     CASE a = 2 -> Jal(4) [] a = 6 -> Wide [] a = 10 -> CJump(-8) [] OTHER -> Plain]
\* Narrow instructions only: packages come as fast as the stages can take.
Straight == [a \in Memory(6) |-> IF a = 8 THEN CJump(-8) ELSE Plain]

MCPrograms == {Loop, SplitJump, Straight}
MCConfs ==
  {[iCacheLatency |-> l, inflightQueueSize |-> l + 1, instrBufferSize |-> 3,
    decodeWidth |-> 2, decodeQueueSize |-> 3, dispatchWidth |-> 2,
    mustTakenAllInsn |-> TRUE] : l \in {1, 2}}
\* The middle of a line, and an odd address.
MCTargets == {2, 5}
MCNowhere == -1
=============================================================================

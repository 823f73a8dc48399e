------------------------------ MODULE TimeBuffer ------------------------------
(***************************************************************************)
(* The latch between any two parts of the core (Timing/TimeBuffer.hh), as  *)
(* operators on its value.  A port is the sequence of what it holds: <<>>  *)
(* while it is not valid, <<x>> while it is.  With latency 0 the input     *)
(* port is the output port.  An entry of the delay line keeps the number   *)
(* of ticks it still has to wait (DestTick - CurTick) instead of a clock   *)
(* that would grow for ever.                                               *)
(***************************************************************************)
EXTENDS Naturals, Sequences

\* reset(): also what the constructor leaves.
Empty ==
  [in |-> <<>>, out |-> <<>>, queue |-> <<>>, stall |-> FALSE, flush |-> FALSE]

\* Port::set overwrites what the port holds.
Set(b, x)  == [b EXCEPT !.in = <<x>>]
Stall(b)   == [b EXCEPT !.stall = TRUE]
Flush(b)   == [b EXCEPT !.flush = TRUE]
KillOut(b) == [b EXCEPT !.out = <<>>]     \* Port::kill of the output port

OutPort(b, latency) == IF latency = 0 THEN b.in ELSE b.out

IsDrained(b, latency) == b.queue = <<>> /\ OutPort(b, latency) = <<>>

(* One tick passes for what waits in the delay line, stalled or not.       *)
Aged(queue) ==
  [i \in 1 .. Len(queue) |->
     [queue[i] EXCEPT !.wait = IF @ = 0 THEN 0 ELSE @ - 1]]

Shifted(b, latency) ==
  LET pushed == IF b.in = <<>> THEN b.queue
                ELSE Append(b.queue, [data |-> b.in[1], wait |-> latency - 1])
      due    == pushed # <<>> /\ Head(pushed).wait = 0
  IN  [b EXCEPT !.in    = <<>>,
                !.out   = IF due THEN <<Head(pushed).data>> ELSE <<>>,
                !.queue = Aged(IF due THEN Tail(pushed) ELSE pushed)]

\* advance(): a flush empties the latch, a stall costs one tick, otherwise
\* the input enters the delay line and what is due reaches the output.
Advance(b, latency) ==
  IF b.flush THEN Empty
  ELSE IF b.stall THEN [b EXCEPT !.stall = FALSE, !.queue = Aged(@)]
  ELSE IF latency = 0 THEN [b EXCEPT !.in = <<>>]
  ELSE Shifted(b, latency)
=============================================================================

------------------------------- MODULE MCIssue -------------------------------
(***************************************************************************)
(* Small wirings for Issue.  The first four have the shape of the files in *)
(* config/ with fewer and smaller parts; the others bring in the classes   *)
(* those files do not use.                                                 *)
(***************************************************************************)
EXTENDS Issue, TLC

CONSTANT Wirings

(* order, wake-up, entries, enqueue and dequeue width, units,              *)
(* sub-schedulers, read ports                                              *)
Sched(order, wakeUp, entries, enq, deq, units, subs, ports) ==
  [order |-> order, wakeUp |-> wakeUp, entries |-> entries, enqueWidth |-> enq,
   dequeWidth |-> deq, units |-> units, subs |-> subs, ports |-> ports]

Unit(kinds, latency, pipelined, wb) ==
  [kinds |-> kinds, latency |-> latency, pipelined |-> pipelined, wb |-> wb]

T(fu, dist, rd, bad) == [fu |-> fu, dist |-> dist, rd |-> rd, bad |-> bad]

Alu  == T("ALU", {1}, TRUE, FALSE)
Alu0 == T("ALU", {}, TRUE, FALSE)
Mul  == T("MUL", {1, 2}, TRUE, FALSE)
Div  == T("DIV", {1}, TRUE, FALSE)
Ldu  == T("LDU", {1}, TRUE, FALSE)
Fault == T("LDU", {}, TRUE, TRUE)
Stu  == T("STU", {1, 2}, FALSE, FALSE)
Bru  == T("BRU", {1}, FALSE, FALSE)
Miss == T("BRU", {1}, FALSE, TRUE)
Csr  == T("CSR", {1}, TRUE, FALSE)
Csr0 == T("CSR", {}, TRUE, FALSE)
Nop  == T("NOP", {}, FALSE, FALSE)

Base == [ports |-> 2, rfLatency |-> 1, dCacheLatency |-> 2, forwardResult |-> TRUE,
         speculation |-> TRUE, robSize |-> 8, allocWidth |-> 2, deallocWidth |-> 2]

(* traitRV: one queue before shared units, CSR from a queue of its own.    *)
Trait ==
  [name  |-> "trait",
   sched |-> <<Sched("In-Age-Order", "OperandReady", 2, 2, 2, <<1, 2, 3, 4, 5>>, <<>>, <<1, 2>>),
               Sched("In-Order", "Commit", 2, 1, 1, <<6>>, <<>>, <<3>>)>>,
   top   |-> <<1, 2>>,
   unit  |-> <<Unit({"LDU", "STU"}, 1, TRUE, <<1>>), Unit({"BRU"}, 1, TRUE, <<1, 2>>),
               Unit({"BRU"}, 1, TRUE, <<1, 2>>), Unit({"ALU"}, 1, TRUE, <<1>>),
               Unit({"DIV"}, 2, FALSE, <<2>>), Unit({"CSR"}, 1, FALSE, <<2>>)>>,
   wb    |-> <<<<>>, <<>>>>,
   ports |-> 3,
   templates |-> {Alu, Ldu, Fault, Miss, Csr, Div}] @@ Base

(* RVH1: one register-file queue before reservation stations, the CSR      *)
(* station among them, whose slots are used again; operands are read in    *)
(* the tick of the issue.                                                  *)
Rvh1 ==
  [name  |-> "rvh1",
   sched |-> <<Sched("In-Order", "RfQueue", 3, 2, 2, <<>>, <<2, 3, 4>>, <<1, 2>>),
               Sched("In-Order", "Commit", 2, 1, 1, <<1>>, <<>>, <<3>>),
               Sched("In-Age-Order", "ResvrStation", 2, 1, 1, <<2, 3>>, <<>>, <<>>),
               Sched("In-Age-Order", "ResvrStation", 2, 1, 1, <<4>>, <<>>, <<>>)>>,
   top   |-> <<1>>,
   unit  |-> <<Unit({"CSR"}, 1, FALSE, <<1>>), Unit({"BRU"}, 1, TRUE, <<1>>),
               Unit({"MUL"}, 2, TRUE, <<2>>), Unit({"LDU", "STU"}, 1, TRUE, <<3>>)>>,
   wb    |-> <<<<2, 3, 4>>, <<2, 3, 4>>, <<2, 3, 4>>>>,
   ports |-> 3, rfLatency |-> 0,
   templates |-> {Mul, Ldu, Fault, Miss, Csr}] @@ Base

(* The same, with results that wait for their write back: an instruction   *)
(* on its way to its station hears neither, and waits for ever.            *)
Silent == [Rvh1 EXCEPT !.name = "silent", !.forwardResult = FALSE]

(* The same, with a re-order buffer of the size of the CSR station.        *)
Aliased == [Rvh1 EXCEPT !.name = "aliased", !.robSize = 2,
                        !.templates = {Csr0, Nop}]

(* 8IssueWidth: register-file queues before reservation stations, one tick *)
(* to read operands, no speculation.                                       *)
Eight ==
  [name  |-> "eight",
   sched |-> <<Sched("In-Order", "RfQueue", 2, 2, 2, <<>>, <<4>>, <<1, 2>>),
               Sched("In-Order", "RfQueue", 2, 1, 1, <<>>, <<5>>, <<3>>),
               Sched("In-Order", "Commit", 2, 1, 1, <<1>>, <<>>, <<4>>),
               Sched("In-Age-Order", "ResvrStation", 2, 2, 1, <<3, 4>>, <<>>, <<>>),
               Sched("In-Age-Order", "ResvrStation", 1, 1, 1, <<2>>, <<>>, <<>>)>>,
   top   |-> <<1, 2, 3>>,
   unit  |-> <<Unit({"CSR"}, 1, FALSE, <<1>>), Unit({"LDU", "STU"}, 1, TRUE, <<2>>),
               Unit({"ALU"}, 1, TRUE, <<1>>), Unit({"BRU"}, 1, TRUE, <<1>>)>>,
   wb    |-> <<<<4, 5>>, <<4, 5>>>>,
   ports |-> 4, speculation |-> FALSE,
   templates |-> {Alu, Ldu, Miss, Bru, Csr}] @@ Base

(* Z506: queues that wait for their operands before stations of one entry. *)
Z506 ==
  [name  |-> "z506",
   sched |-> <<Sched("In-Order", "OperandReady", 2, 2, 1, <<>>, <<2>>, <<1>>),
               Sched("In-Age-Order", "ResvrStation", 1, 1, 1, <<1, 2, 3>>, <<>>, <<>>),
               Sched("In-Order", "Commit", 1, 1, 1, <<4>>, <<>>, <<2>>)>>,
   top   |-> <<1, 3>>,
   unit  |-> <<Unit({"LDU", "STU"}, 1, TRUE, <<1>>), Unit({"BRU"}, 1, TRUE, <<1>>),
               Unit({"MUL"}, 3, FALSE, <<1>>), Unit({"CSR"}, 1, FALSE, <<2>>)>>,
   wb    |-> <<<<2>>, <<2>>>>,
   rfLatency |-> 0, speculation |-> FALSE, robSize |-> 3,
   templates |-> {Mul, Stu, Ldu, Bru, Csr}] @@ Base

(* The classes no file uses: the out-of-order ones without squashes, the   *)
(* in-order stations before their slots are used twice and not behind a    *)
(* queue that reorders (the head would wait for what is behind), the two   *)
(* Commit classes that look at forwarding with instructions without        *)
(* sources.                                                                *)
Rest1 ==
  [name  |-> "rest1",
   sched |-> <<Sched("In-Order", "None", 2, 2, 2, <<>>, <<3>>, <<>>),
               Sched("In-Age-Order", "None", 2, 1, 1, <<>>, <<4>>, <<>>),
               Sched("Out-of-Order", "OperandReady", 3, 1, 1, <<1, 2>>, <<>>, <<1>>),
               Sched("Out-of-Order", "Commit", 2, 1, 1, <<3>>, <<>>, <<2>>)>>,
   top   |-> <<1, 2>>,
   unit  |-> <<Unit({"ALU"}, 1, TRUE, <<1>>), Unit({"DIV"}, 3, FALSE, <<1>>),
               Unit({"CSR"}, 1, FALSE, <<1>>)>>,
   wb    |-> <<<<>>>>,
   templates |-> {Alu, Div, Csr0, Nop}] @@ Base

Rest2 ==
  [name  |-> "rest2",
   sched |-> <<Sched("Out-of-Order", "None", 2, 2, 1, <<>>, <<4>>, <<>>),
               Sched("In-Age-Order", "RfQueue", 2, 2, 2, <<>>, <<5>>, <<1, 2>>),
               Sched("In-Age-Order", "Commit", 2, 1, 1, <<4>>, <<>>, <<3>>),
               Sched("In-Age-Order", "OperandReady", 2, 1, 1, <<1>>, <<>>, <<4>>),
               Sched("In-Order", "ResvrStation", 5, 2, 2, <<2, 3>>, <<>>, <<>>)>>,
   top   |-> <<1, 2, 3>>,
   unit  |-> <<Unit({"ALU"}, 1, TRUE, <<1>>), Unit({"MUL"}, 2, TRUE, <<1>>),
               Unit({"MUL"}, 2, TRUE, <<2>>), Unit({"CSR"}, 1, FALSE, <<2>>)>>,
   wb    |-> <<<<5>>, <<5>>>>,
   ports |-> 4,
   templates |-> {Alu, Mul, Csr0}] @@ Base

Rest3 ==
  [name  |-> "rest3",
   sched |-> <<Sched("Out-of-Order", "RfQueue", 2, 2, 1, <<>>, <<4>>, <<1>>),
               Sched("In-Order", "OperandReady", 5, 2, 1, <<2>>, <<>>, <<2>>),
               Sched("Out-of-Order", "OperandReady", 2, 2, 1, <<3>>, <<>>, <<2>>),
               Sched("Out-of-Order", "ResvrStation", 2, 1, 1, <<1>>, <<>>, <<>>)>>,
   top   |-> <<1, 2, 3>>,
   unit  |-> <<Unit({"ALU"}, 1, TRUE, <<1>>), Unit({"MUL"}, 2, FALSE, <<1>>),
               Unit({"DIV"}, 2, TRUE, <<1>>)>>,
   wb    |-> <<<<4>>>>,
   templates |-> {Alu, Mul, Div}] @@ Base

(* A reservation station that issues out of order, and mispredictions.     *)
Squashed ==
  [name  |-> "squashed",
   sched |-> <<Sched("In-Order", "RfQueue", 2, 2, 2, <<>>, <<2>>, <<1, 2>>),
               Sched("Out-of-Order", "ResvrStation", 1, 1, 1, <<1, 2>>, <<>>, <<>>)>>,
   top   |-> <<1>>,
   unit  |-> <<Unit({"ALU"}, 1, TRUE, <<1>>), Unit({"BRU"}, 1, TRUE, <<1>>)>>,
   wb    |-> <<<<2>>>>,
   templates |-> {Alu, Miss}] @@ Base

MCConfigs ==
  {c \in {Trait, Rvh1, Silent, Aliased, Eight, Z506, Rest1, Rest2, Rest3, Squashed} : c.name \in Wirings}
=============================================================================

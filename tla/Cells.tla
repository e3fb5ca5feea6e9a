-------------------------------- MODULE Cells --------------------------------
(***************************************************************************)
(* The two cells of the systolic array, with their buffers as queues: one  *)
(* clock of a processing element (PE.v) and of an accumulator (ACC.v), as  *)
(* functions of the cell's registers and input wires.  PE and ACC are the  *)
(* same cells with every pointer and wrap bit; they implement these.       *)
(*                                                                         *)
(* FPMUL and FPADD are the vendor's multiplier and adder: only their       *)
(* latency and the order of their operands matter here.                    *)
(***************************************************************************)
EXTENDS Integers, Sequences

CONSTANTS
    Zero,               \* the word of a cleared register, and of 0.0
    FPMUL(_, _), FPADD(_, _),
    PEBufferSize,       \* slots of a PE's buffers
    MAC_Stages,         \* latency of the MAC unit: multiplier plus adder
    ACCBufferSize,      \* slots of an accumulator's buffers
    ADD_Stages,         \* latency of the accumulator's adder
    NOPCount            \* words an accumulator adds up

ASSUME CellSizes ==
    /\ PEBufferSize \in Nat \ {0}
    /\ MAC_Stages \in Nat \ {0}
    /\ ACCBufferSize \in Nat \ {0}
    /\ ADD_Stages \in Nat \ {0}
    /\ NOPCount \in Nat \ {0}

\* What a wire carries in one clock: the one-element sequence of a word, or
\* nothing (valid is low).  A pipeline stage holds the same.
Nothing == << >>
Head1(q) == IF q = << >> THEN Nothing ELSE <<Head(q)>>

\* A queue after one clock in which it may lose its head and take what is offered.
Step(q, offer, pop) == (IF pop THEN Tail(q) ELSE q) \o offer

\* A pipeline of n stages: what enters at stage 1 leaves stage n.
Pipe(n) == [k \in 1 .. n |-> Nothing]
Shifted(pipe, in) == [k \in DOMAIN pipe |-> IF k = 1 THEN in ELSE pipe[k - 1]]
Exit(pipe) == pipe[Len(pipe)]

-----------------------------------------------------------------------------
(***************************************************************************)
(* A processing element: weights and image words wait for the neighbour    *)
(* (P) and for the MAC unit (M), partial outputs for the MAC unit only.    *)
(***************************************************************************)
SideReset == [P |-> << >>, M |-> << >>]
PEReset == [W |-> SideReset, I |-> SideReset, O |-> << >>,
            MAC |-> Pipe(MAC_Stages)]

DataInRdy(side) == Len(side.P) < PEBufferSize /\ Len(side.M) < PEBufferSize
DataOut(side) == Head1(side.P)

O_DataInRdy(pe) == Len(pe.O) < PEBufferSize
O_DataOut(pe) == Exit(pe.MAC)

\* The MAC unit starts when all three words are there and the next cell has
\* room now; that it still has room when the result comes out is not checked.
Issue(pe, outRdy) ==
    pe.W.M # << >> /\ pe.I.M # << >> /\ pe.O # << >> /\ outRdy

\* What the MAC unit makes of the three words at the heads.
MACResult(pe) == <<FPADD(FPMUL(Head(pe.W.M), Head(pe.I.M)), Head(pe.O))>>

SideClock(side, offer, rdy, mac) ==
    LET taken == IF DataInRdy(side) THEN offer ELSE Nothing
    IN  [P |-> Step(side.P, taken, side.P # << >> /\ rdy),
         M |-> Step(side.M, taken, mac)]

\* in: what W, I and O are offered, and the ready of the cells behind the PE.
PEClock(pe, in) ==
    LET mac == Issue(pe, in.ORdy)
    IN  [W |-> SideClock(pe.W, in.W, in.WRdy, mac),
         I |-> SideClock(pe.I, in.I, in.IRdy, mac),
         O |-> Step(pe.O, IF O_DataInRdy(pe) THEN in.O ELSE Nothing, mac),
         MAC |-> Shifted(pe.MAC, IF mac THEN MACResult(pe) ELSE Nothing)]

-----------------------------------------------------------------------------
(***************************************************************************)
(* An accumulator.  In its adder a stage holds a partial sum (Partials)    *)
(* or, once the last word of a group went in, a finished one (Sums).       *)
(***************************************************************************)
ACCReset == [Ready |-> << >>, Out |-> << >>, Partials |-> Pipe(ADD_Stages),
             Sums |-> Pipe(ADD_Stages), Counter |-> 0, Acc |-> Zero,
             Busy |-> FALSE]

ACC_DataInRdy(a) == Len(a.Ready) < ACCBufferSize
ACC_DataOutValid(a) == a.Out # << >>
ACC_DataOut(a) == Head1(a.Out)

\* Slip: the last word of a group raises Busy like any other.
AddBusyAfterLast(a, add, last, back) ==
    IF back THEN FALSE ELSE IF add THEN TRUE ELSE a.Busy

AddBusy(a, add, last, back) ==
    IF back \/ last THEN FALSE ELSE IF add THEN TRUE ELSE a.Busy

\* Slip: every word counts as the last of its group.
LastOfOne(a) == a.Counter < NOPCount

LastOfGroup(a) == a.Counter = NOPCount - 1

ACCClock(a, offer, rdy) ==
    LET add  == a.Ready # << >> /\ ~a.Busy
        last == add /\ LastOfGroup(a)
        back == ~last /\ Exit(a.Partials) # Nothing
        sum  == IF add
                THEN <<FPADD(Head(a.Ready), IF a.Counter = 0 THEN Zero ELSE a.Acc)>>
                ELSE Nothing
    IN  [Ready |-> Step(a.Ready, IF ACC_DataInRdy(a) THEN offer ELSE Nothing, add),
         Out |-> Step(a.Out, Exit(a.Sums), ACC_DataOutValid(a) /\ rdy),
         Partials |-> IF last THEN Pipe(ADD_Stages) ELSE Shifted(a.Partials, sum),
         Sums |-> Shifted(a.Sums, IF last THEN sum ELSE Nothing),
         Counter |-> IF last THEN 0 ELSE IF add THEN a.Counter + 1 ELSE a.Counter,
         Acc |-> IF back THEN Exit(a.Partials)[1] ELSE a.Acc,
         Busy |-> AddBusy(a, add, last, back)]
=============================================================================

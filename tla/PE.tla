---------------------------------- MODULE PE ----------------------------------
(***************************************************************************)
(* PE.v with MAC_Pipeline.v: a processing element at the level of its      *)
(* registers.  W_Buffer and I_Buffer are two-reader buffers, O_Buffer has  *)
(* one reader.  A single pointer, HPM, picks the slot at which the masks   *)
(* of all three must show a word before the MAC unit takes one from each.  *)
(* The multiplier, the delay line of the partial output and the adder run  *)
(* freely; NOPreg says which of their results mean anything.               *)
(*                                                                         *)
(* One Clock is one rising edge with clk_en high.                          *)
(***************************************************************************)
EXTENDS FIFO_Buffer_ACC

CONSTANTS
    FPMUL(_, _), FPADD(_, _),
    MUL_Pipeline_Stages, ADD_Pipeline_Stages,
    Inputs              \* what one clock may find at the wires, see Clock

ASSUME PEStagesAssumption ==
    /\ MUL_Pipeline_Stages \in Nat \ {0}
    /\ ADD_Pipeline_Stages \in Nat \ {0}
ASSUME PEWordsAssumption ==
    \A a, b \in Data : FPMUL(a, b) \in Data /\ FPADD(a, b) \in Data
ASSUME PEInputsAssumption ==
    Inputs \subseteq [wv : BOOLEAN, w : Data, wr : BOOLEAN,
                      iv : BOOLEAN, i : Data, ir : BOOLEAN,
                      ov : BOOLEAN, o : Data, or : BOOLEAN]

VARIABLES
    W_Mem, W_TP, W_HPP, W_HPM, W_RoundP, W_RoundM,      \* W_Buffer
    I_Mem, I_TP, I_HPP, I_HPM, I_RoundP, I_RoundM,      \* I_Buffer
    O_Buffer,
    HPM,                \* HPMUnit
    Mul, Delay, Add,    \* FPMUL, OutputDataPipelineUnit, FPADD
    NOPreg

W_Regs == <<W_Mem, W_TP, W_HPP, W_HPM, W_RoundP, W_RoundM>>
I_Regs == <<I_Mem, I_TP, I_HPP, I_HPM, I_RoundP, I_RoundM>>
vars == <<W_Regs, I_Regs, O_Buffer, HPM, Mul, Delay, Add, NOPreg>>

W_Buffer == INSTANCE FIFO_Buffer WITH
    Buffer <- W_Mem, W_Addr <- W_TP, R_Addr1 <- W_HPP, R_Addr2 <- W_HPM,
    RoundP <- W_RoundP, RoundM <- W_RoundM
I_Buffer == INSTANCE FIFO_Buffer WITH
    Buffer <- I_Mem, W_Addr <- I_TP, R_Addr1 <- I_HPP, R_Addr2 <- I_HPM,
    RoundP <- I_RoundP, RoundM <- I_RoundM

Pipeline_Stages == MUL_Pipeline_Stages + ADD_Pipeline_Stages

\* A pipeline of n stages takes its input at stage 1 and shows stage n.
Stages(n) == 1 .. n
Shift(n, reg, in) == [k \in Stages(n) |-> IF k = 1 THEN in ELSE reg[k - 1]]

-----------------------------------------------------------------------------
(***************************************************************************)
(* Wires.                                                                  *)
(***************************************************************************)
ReadyM == W_Buffer!ReadyM \cap I_Buffer!ReadyM \cap FifoReady(O_Buffer)

W_DataInRdy == ~W_Buffer!Full
I_DataInRdy == ~I_Buffer!Full
O_DataInRdy == ~FifoFull(O_Buffer)

W_DataOutValid == ~W_Buffer!Empty
I_DataOutValid == ~I_Buffer!Empty

\* Slip: a product is made before the partial output it belongs to is there.
NOPInWithoutOutput(O_DataOutRdy) ==
    ~(HPM \in W_Buffer!ReadyM \cap I_Buffer!ReadyM /\ O_DataOutRdy)

NOPIn(O_DataOutRdy) == ~(HPM \in ReadyM /\ O_DataOutRdy)

O_DataOutValid == ~NOPreg[Pipeline_Stages]
O_DataOut == Add[ADD_Pipeline_Stages]

-----------------------------------------------------------------------------
Init ==
    /\ W_Buffer!Init
    /\ I_Buffer!Init
    /\ O_Buffer = FifoReset
    /\ HPM = 0
    /\ Mul = [k \in Stages(MUL_Pipeline_Stages) |-> Zero]
    /\ Delay = [k \in Stages(MUL_Pipeline_Stages) |-> Zero]
    /\ Add = [k \in Stages(ADD_Pipeline_Stages) |-> Zero]
    /\ NOPreg = [k \in Stages(Pipeline_Stages) |-> TRUE]

\* MAC_Pipeline: a product meets the partial output that was delayed as long.
MAC_Unit(nop) ==
    /\ Mul' = Shift(MUL_Pipeline_Stages, Mul,
                    FPMUL(W_Buffer!DataOut2, I_Buffer!DataOut2))
    /\ Delay' = Shift(MUL_Pipeline_Stages, Delay, FifoOut(O_Buffer))
    /\ Add' = Shift(ADD_Pipeline_Stages, Add,
                    FPADD(Mul[MUL_Pipeline_Stages], Delay[MUL_Pipeline_Stages]))
    /\ NOPreg' = Shift(Pipeline_Stages, NOPreg, nop)

\* Slip: the PE's own pointer moves although the next cell has no room.
HPMIgnoresPeek(nop) == Pointer(HPM, HPM \in ReadyM)

HPMUnit(nop) == Pointer(HPM, ~nop)

\* in: for W and I the valid and word of the sender and the ready of the next
\* cell (wv, w, wr; iv, i, ir), for O the same (ov, o, or).
Clock(in) ==
    LET nop == NOPIn(in.or)
    IN  /\ W_Buffer!Clock(W_DataInRdy /\ in.wv, in.w,
                          W_DataOutValid /\ in.wr, ~nop)
        /\ I_Buffer!Clock(I_DataInRdy /\ in.iv, in.i,
                          I_DataOutValid /\ in.ir, ~nop)
        /\ O_Buffer' = FifoClock(O_Buffer, O_DataInRdy /\ in.ov, in.o, ~nop)
        /\ HPM' = HPMUnit(nop)
        /\ MAC_Unit(nop)

Reset ==
    /\ W_Buffer!Reset
    /\ I_Buffer!Reset
    /\ O_Buffer' = FifoReset
    /\ HPM' = 0
    /\ Mul' = [k \in Stages(MUL_Pipeline_Stages) |-> Zero]
    /\ Delay' = [k \in Stages(MUL_Pipeline_Stages) |-> Zero]
    /\ Add' = [k \in Stages(ADD_Pipeline_Stages) |-> Zero]
    /\ NOPreg' = [k \in Stages(Pipeline_Stages) |-> TRUE]

Next == (\E in \in Inputs : Clock(in)) \/ Reset

Spec == Init /\ [][Next]_vars

-----------------------------------------------------------------------------
(***************************************************************************)
(* Properties.                                                             *)
(***************************************************************************)
\* Every register holds a value of its width.
TypeOK ==
    /\ W_Buffer!TypeOK
    /\ I_Buffer!TypeOK
    /\ O_Buffer \in Fifo
    /\ HPM \in Slots
    /\ Mul \in [Stages(MUL_Pipeline_Stages) -> Data]
    /\ Delay \in [Stages(MUL_Pipeline_Stages) -> Data]
    /\ Add \in [Stages(ADD_Pipeline_Stages) -> Data]
    /\ NOPreg \in [Stages(Pipeline_Stages) -> BOOLEAN]

\* The four read pointers of the MAC unit, one in each buffer and one in the PE,
\* never part: PE.v looks for a word at its own HPM in the masks of three
\* buffers, but each buffer delivers the word at its own pointer.
Lockstep ==
    /\ W_HPM = HPM
    /\ I_HPM = HPM
    /\ O_Buffer.R = HPM

\* A multiplication can start exactly when each of the three queues has a word:
\* PE.v looks at one bit of the masks, the bit at its own pointer, and would wait
\* for ever on words that are there if that were not where they are.
IssuesWhenReady ==
    HPM \in ReadyM <=>
        /\ Occupancy(W_TP, W_HPM, W_RoundM) > 0
        /\ Occupancy(I_TP, I_HPM, I_RoundM) > 0
        /\ FifoCount(O_Buffer) > 0

\* No reader of any of the three buffers overtakes its writer or is lapped.  The
\* MAC unit pops all three on the word of the PE's own pointer; the buffers do
\* not look.
BuffersInOrder ==
    /\ W_Buffer!BothRingsOK
    /\ I_Buffer!BothRingsOK
    /\ FifoOK(O_Buffer)

\* The queues the registers stand for, and the results in the MAC unit.
W_Words == [P |-> Contents(W_Mem, W_TP, W_HPP, W_RoundP),
            M |-> Contents(W_Mem, W_TP, W_HPM, W_RoundM)]
I_Words == [P |-> Contents(I_Mem, I_TP, I_HPP, I_RoundP),
            M |-> Contents(I_Mem, I_TP, I_HPM, I_RoundM)]
MAC_Words ==
    [k \in 1 .. Pipeline_Stages |->
       IF NOPreg[k] THEN << >>
       ELSE IF k <= MUL_Pipeline_Stages THEN <<FPADD(Mul[k], Delay[k])>>
                                        ELSE <<Add[k - MUL_Pipeline_Stages]>>]

\* The PE takes the n-th weight, image word and partial output together, whatever
\* the order in which they came, hands every weight and image word on once, and
\* lets out one result per issue, Pipeline_Stages clocks later.
Cell == INSTANCE ProcessingElement WITH
    Word <- Data,
    PEBufferSize <- BufferSize,
    MAC_Stages <- Pipeline_Stages,
    ACCBufferSize <- BufferSize,
    ADD_Stages <- ADD_Pipeline_Stages,
    NOPCount <- 1,
    W <- W_Words,
    I <- I_Words,
    O <- FifoWords(O_Buffer),
    MAC <- MAC_Words

ImplementsCell == Cell!Spec
=============================================================================

--------------------------------- MODULE ACC ---------------------------------
(***************************************************************************)
(* ACC.v: the accumulator at the foot of a column.  It adds up groups of   *)
(* NOPCount words with one pipelined adder, feeding each sum back, so a    *)
(* word waits in ReadyData_Buffer until the previous sum has come out of   *)
(* the pipeline (Add_Busy).  The last word of a group frees the adder at   *)
(* once: its sum travels under Validreg to OutData_Buffer, not back.       *)
(*                                                                         *)
(* One Clock is one rising edge with clk_en high; with clk_en low nothing  *)
(* changes.  sclr is tied to the signal that drives aclr                   *)
(* (PE_Instruction.v:235-292), so it never acts by itself.                 *)
(***************************************************************************)
EXTENDS FIFO_Buffer_ACC, FiniteSets

CONSTANTS
    Pipeline_Stages,    \* latency of the adder
    NOPCount,           \* words per group
    CounterRange,       \* 2^NOPCountWidth
    FPADD(_, _),        \* the floating-point addition
    Input               \* the words that arrive at DataIn

ASSUME StagesAssumption == Pipeline_Stages \in Nat /\ Pipeline_Stages >= 1
ASSUME CountAssumption ==
    /\ NOPCount \in Nat /\ NOPCount >= 1
    /\ CounterRange \in Nat /\ NOPCount <= CounterRange
ASSUME AddAssumption == \A a, b \in Data : FPADD(a, b) \in Data
ASSUME InputAssumption == Input \subseteq Data

VARIABLES
    ReadyData_Buffer, OutData_Buffer,
    NOPreg,             \* NOPPipelineUnit: TRUE is "no operation"
    Validreg,           \* OutData_DataInValidPipelineUnit
    Adder,              \* the sums inside FP_AddUnit, one per stage
    NOP_Counter, AccumulatedData, Add_Busy

vars == <<ReadyData_Buffer, OutData_Buffer, NOPreg, Validreg, Adder,
          NOP_Counter, AccumulatedData, Add_Busy>>

Stages == 0 .. Pipeline_Stages - 1
LastStage == Pipeline_Stages - 1

\* A shift register takes its input at stage 0.
Shift(reg, in) == [k \in Stages |-> IF k = 0 THEN in ELSE reg[k - 1]]

-----------------------------------------------------------------------------
(***************************************************************************)
(* Wires.                                                                  *)
(***************************************************************************)
DataInRdy    == ~FifoFull(ReadyData_Buffer)
DataOutValid == ~FifoEmpty(OutData_Buffer)

NOPIn == ~(~FifoEmpty(ReadyData_Buffer) /\ ~Add_Busy)
LastOfGroup == NOP_Counter = NOPCount - 1

\* Slip: the last word of a group is marked only while no sum waits to be read.
ValidWhileNoneWaits == ~NOPIn /\ LastOfGroup /\ ~DataOutValid
Valid == ~NOPIn /\ LastOfGroup

\* Valid drives the asynchronous clear of the NOP pipeline, so it already
\* shows at NOPOut in the same cycle.
NOPOut == Valid \/ NOPreg[LastStage]
Accumulate == ~NOPOut

\* Slip: a new group starts from the last partial sum of the one before.
StartsFromAccumulatedData == AccumulatedData

ReadyDataFromAccumulatedData ==
    IF NOP_Counter = 0 THEN Zero ELSE AccumulatedData

AccumulatedResult == Adder[LastStage]

(***************************************************************************)
(* State: cleared by aclr, then one step per clock.                        *)
(***************************************************************************)
Init ==
    /\ ReadyData_Buffer = FifoReset
    /\ OutData_Buffer = FifoReset
    /\ NOPreg = [k \in Stages |-> TRUE]
    /\ Validreg = [k \in Stages |-> FALSE]
    /\ Adder = [k \in Stages |-> Zero]
    /\ NOP_Counter = 0
    /\ AccumulatedData = Zero
    /\ Add_Busy = FALSE

Counter ==
    IF ~NOPIn /\ LastOfGroup THEN 0
    ELSE IF ~NOPIn
         THEN IF NOP_Counter = CounterRange - 1 THEN 0 ELSE NOP_Counter + 1
         ELSE NOP_Counter

\* Slip: the last word of a group raises Add_Busy like any other.
BusyAfterLast ==
    IF Accumulate THEN FALSE ELSE IF ~NOPIn THEN TRUE ELSE Add_Busy

Busy ==
    IF Accumulate \/ Valid THEN FALSE
    ELSE IF ~NOPIn THEN TRUE ELSE Add_Busy

Clock(DataInValid, DataIn, DataOutRdy) ==
    /\ ReadyData_Buffer' =
          FifoClock(ReadyData_Buffer, DataInValid /\ DataInRdy, DataIn, ~NOPIn)
    /\ OutData_Buffer' =
          FifoClock(OutData_Buffer, Validreg[LastStage], AccumulatedResult,
                    DataOutValid /\ DataOutRdy)
    /\ NOPreg' = IF Valid THEN [k \in Stages |-> TRUE] ELSE Shift(NOPreg, NOPIn)
    /\ Validreg' = Shift(Validreg, Valid)
    /\ Adder' = Shift(Adder, FPADD(FifoOut(ReadyData_Buffer),
                                   ReadyDataFromAccumulatedData))
    /\ NOP_Counter' = Counter
    /\ AccumulatedData' = IF Accumulate THEN AccumulatedResult
                                        ELSE AccumulatedData
    /\ Add_Busy' = Busy

Reset ==
    /\ ReadyData_Buffer' = FifoReset
    /\ OutData_Buffer' = FifoReset
    /\ NOPreg' = [k \in Stages |-> TRUE]
    /\ Validreg' = [k \in Stages |-> FALSE]
    /\ Adder' = [k \in Stages |-> Zero]
    /\ NOP_Counter' = 0
    /\ AccumulatedData' = Zero
    /\ Add_Busy' = FALSE

(***************************************************************************)
(* The program in front of the accelerator (PE_Instruction of              *)
(* hello_world.c) reads every sum of a row before it sends the next row,   *)
(* and a row has at most BufferSize groups for one accumulator.  The       *)
(* buffer of sums relies on it: it is pushed whether or not it is full.    *)
(***************************************************************************)
InFlight == {k \in Stages : Validreg[k]}

Owed == FifoCount(ReadyData_Buffer) + NOP_Counter
            + NOPCount * (Cardinality(InFlight) + FifoCount(OutData_Buffer))

\* Slip: one group more than the buffer of sums can answer for.
CreditOneGroupMore == Owed < NOPCount * (BufferSize + 1)

Credit == Owed < NOPCount * BufferSize

ClockNext ==
    \E DataInValid, DataOutRdy \in BOOLEAN, DataIn \in Input :
        /\ DataInValid => Credit
        /\ Clock(DataInValid, DataIn, DataOutRdy)

Next == ClockNext \/ Reset

Spec == Init /\ [][Next]_vars

\* Under a clock that keeps ticking: the Nios II holds clk_en high while it waits
\* for the done of a read.  Neither neighbour owes anything: only a clock that
\* changes something without them has to come.
QuietClock == Clock(FALSE, Zero, FALSE)

FairSpec == Spec /\ WF_vars(QuietClock)

-----------------------------------------------------------------------------
(***************************************************************************)
(* Properties.                                                             *)
(***************************************************************************)
\* Every register holds a value of its width.
TypeOK ==
    /\ ReadyData_Buffer \in Fifo
    /\ OutData_Buffer \in Fifo
    /\ NOPreg \in [Stages -> BOOLEAN]
    /\ Validreg \in [Stages -> BOOLEAN]
    /\ Adder \in [Stages -> Data]
    /\ NOP_Counter \in 0 .. NOPCount - 1
    /\ AccumulatedData \in Data
    /\ Add_Busy \in BOOLEAN

\* While a partial sum is in the adder, and only then, Add_Busy holds the next
\* word back, and there is never a second one: the next addition would read
\* AccumulatedData before the sum it needs is there.
OneAdditionAtATime ==
    /\ Add_Busy <=> \E k \in Stages : ~NOPreg[k]
    /\ \A j, k \in Stages : ~NOPreg[j] /\ ~NOPreg[k] => j = k

\* Valid clears the NOP pipeline asynchronously, in the middle of a cycle; it
\* never cancels the write-back of a partial sum.
ClearLosesNothing == Valid => \A k \in Stages : NOPreg[k]

\* A finished sum always finds room, although nothing checks for it: the slots
\* of OutData_Buffer cover the sums in flight and the sums not read.
RoomForEverySum ==
    /\ FifoOK(ReadyData_Buffer)
    /\ FifoOK(OutData_Buffer)
    /\ Cardinality(InFlight) + FifoCount(OutData_Buffer) <= BufferSize

\* The sum of the group begun: in the adder, or back in AccumulatedData.
PartialSum ==
    IF Add_Busy THEN Adder[CHOOSE k \in Stages : ~NOPreg[k]]
    ELSE ReadyDataFromAccumulatedData

\* Finished sums, oldest first: those in OutData_Buffer, then those that are
\* still in the adder, of which the i-th is the one with i at its stage or after.
FromStage(k) == {j \in InFlight : j >= k}
SumsInAdder ==
    [i \in 1 .. Cardinality(InFlight) |->
       Adder[CHOOSE k \in InFlight : Cardinality(FromStage(k)) = i]]

\* The accumulator adds up every group in order and hands its sum out once.
Abstract == INSTANCE Accumulator WITH
    Group <- NOPCount,
    Add <- FPADD,
    todo <- FifoWords(ReadyData_Buffer),
    partial <- PartialSum,
    count <- NOP_Counter,
    done <- FifoWords(OutData_Buffer) \o SumsInAdder

ImplementsAccumulator == Abstract!Spec

\* The registers as the cell has them.
Partials == [k \in 1 .. Pipeline_Stages |->
               IF NOPreg[k - 1] THEN << >> ELSE <<Adder[k - 1]>>]
Sums == [k \in 1 .. Pipeline_Stages |->
           IF Validreg[k - 1] THEN <<Adder[k - 1]>> ELSE << >>]
CellNow == [Ready |-> FifoWords(ReadyData_Buffer), Out |-> FifoWords(OutData_Buffer),
            Partials |-> Partials, Sums |-> Sums, Counter |-> NOP_Counter,
            Acc |-> AccumulatedData, Busy |-> Add_Busy]

\* Clock by clock the accumulator is the cell the array is modelled with; its
\* pointers, masks and asynchronous clear show nowhere else.
Cell == INSTANCE AccumulatorCell WITH
    Word <- Input,
    FPMUL <- FPADD, PEBufferSize <- 1, MAC_Stages <- 1,     \* of a PE
    ACCBufferSize <- BufferSize, ADD_Stages <- Pipeline_Stages,
    cell <- CellNow

ImplementsCell == Cell!Spec

\* A word waiting at the adder gets in, if only the clock keeps ticking.
WordGetsIn == []<>(FifoEmpty(ReadyData_Buffer) \/ ~NOPIn)

\* A sum is due: all words of a group have been accepted, or its last one is
\* already in the adder.
SumDue == FifoCount(ReadyData_Buffer) + NOP_Counter >= NOPCount \/ InFlight # {}

\* A sum that is due comes out, whatever sums are read meanwhile: if only the
\* clock keeps ticking it is written into the next slot of OutData_Buffer and
\* can be read, unless a reset has thrown everything away.
SumComesOut ==
    \A slot \in Slots :
        SumDue /\ OutData_Buffer.W = slot
            ~> (DataOutValid /\ OutData_Buffer.W # slot) \/ Init
=============================================================================

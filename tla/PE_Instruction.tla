---------------------------- MODULE PE_Instruction ----------------------------
(***************************************************************************)
(* PE_Instruction.v: the systolic array behind the custom instruction.     *)
(* Rows x Cols processing elements, an accumulator under each column, and  *)
(* four counters that choose which cell the next word goes to or comes     *)
(* from.  Weights enter at column 0 and move right, image words enter at   *)
(* row 0 and at the last column and move down the diagonals, partial       *)
(* outputs enter at row 0 and move down into the accumulators.             *)
(*                                                                         *)
(* One Clock is one rising edge with clk_en high and reset low; with       *)
(* clk_en low nothing changes.  A wire carries <<word>>, or Nothing when   *)
(* its valid is low.                                                       *)
(***************************************************************************)
EXTENDS Cells

CONSTANTS
    Rows, Cols,
    Words           \* the words the array is started with when it runs alone

ASSUME ArrayAssumption == Rows \in Nat \ {0} /\ Cols \in Nat \ {0}

VARIABLES
    pe, acc,
    Kernel_Address, Input_Address, Output_Write_Address, Output_Read_Address

array == <<pe, acc, Kernel_Address, Input_Address, Output_Write_Address,
           Output_Read_Address>>

RowNo == 0 .. Rows - 1
ColNo == 0 .. Cols - 1
LastRow == Rows - 1
LastCol == Cols - 1
Images == Rows + Cols - 1       \* image words of a block, one per diagonal

-----------------------------------------------------------------------------
(***************************************************************************)
(* Wires, given what the instruction sends: the one-word wires send[1] to  *)
(* the weights, send[2] to the image words and send[3] to the outputs.     *)
(***************************************************************************)
To(wire, chosen) == IF chosen THEN wire ELSE Nothing

W_In(r, c, send) ==
    IF c = 0 THEN To(send[1], Kernel_Address = r) ELSE DataOut(pe[<<r, c - 1>>].W)

\* Slip: image words move straight down.
ImagesGoDown(r, c, send) ==
    IF r = 0 \/ c = LastCol THEN To(send[2], Input_Address = r + c)
                            ELSE DataOut(pe[<<r - 1, c>>].I)

I_In(r, c, send) ==
    IF r = 0 \/ c = LastCol THEN To(send[2], Input_Address = r + c)
                            ELSE DataOut(pe[<<r - 1, c + 1>>].I)

O_In(r, c, send) ==
    IF r = 0 THEN To(send[3], Output_Write_Address = c)
             ELSE O_DataOut(pe[<<r - 1, c>>])

\* The last column drops weights, column 0 and the last row drop image words.
W_OutRdy(r, c) == c = LastCol \/ DataInRdy(pe[<<r, c + 1>>].W)

\* Slip: a cell without a neighbour waits for one.
I_OutRdyOfNobody(r, c) ==
    r # LastRow /\ c # 0 /\ DataInRdy(pe[<<r + 1, c - 1>>].I)

I_OutRdy(r, c) == r = LastRow \/ c = 0 \/ DataInRdy(pe[<<r + 1, c - 1>>].I)
O_OutRdy(r, c) ==
    IF r = LastRow THEN ACC_DataInRdy(acc[c]) ELSE O_DataInRdy(pe[<<r + 1, c>>])

PEIn(r, c, send) ==
    [W |-> W_In(r, c, send), WRdy |-> W_OutRdy(r, c),
     I |-> I_In(r, c, send), IRdy |-> I_OutRdy(r, c),
     O |-> O_In(r, c, send), ORdy |-> O_OutRdy(r, c)]

ACC_DataOutRdy(c, getResult) == getResult /\ Output_Read_Address = c

\* done and result.  A send is always done at once; nothing tells the program
\* that the buffer it went to was full.
Result == ACC_DataOut(acc[Output_Read_Address])
Done(n, start) == IF n = 4 THEN Result # Nothing ELSE start /\ n \in 0 .. 3

-----------------------------------------------------------------------------
Init ==
    /\ pe = [rc \in RowNo \X ColNo |-> PEReset]
    /\ acc = [c \in ColNo |-> ACCReset]
    /\ Kernel_Address = 0
    /\ Input_Address = 0
    /\ Output_Write_Address = 0
    /\ Output_Read_Address = 0

Counter(k, en, size) == IF en THEN (k + 1) % size ELSE k

\* Slip: the case of the last accumulator is missing.
ReadAddressForgetsLast(getResult) ==
    Counter(Output_Read_Address,
            /\ getResult
            /\ \E c \in ColNo \ {LastCol} : ACC_DataOutValid(acc[c]),
            Cols)

\* The read address moves when the last accumulator is read or when any other
\* one has a result, be it the one addressed or not.
ReadAddress(getResult) ==
    IF getResult /\ ACC_DataOutValid(acc[LastCol]) /\ Output_Read_Address = LastCol
    THEN 0
    ELSE Counter(Output_Read_Address,
                 /\ getResult
                 /\ \E c \in ColNo \ {LastCol} : ACC_DataOutValid(acc[c]),
                 Cols)

Clock(n, start, dataa) ==
    LET INSTRUCTION(k) == n = k /\ (start \/ k = 4)
        send == [k \in 1 .. 3 |-> To(<<dataa>>, INSTRUCTION(k))]
    IN  /\ pe' = [rc \in RowNo \X ColNo |->
                    PEClock(pe[rc], PEIn(rc[1], rc[2], send))]
        /\ acc' = [c \in ColNo |->
                    ACCClock(acc[c], O_DataOut(pe[<<LastRow, c>>]),
                             ACC_DataOutRdy(c, INSTRUCTION(4)))]
        /\ Kernel_Address' = Counter(Kernel_Address, INSTRUCTION(1), Rows)
        /\ Input_Address' = Counter(Input_Address, INSTRUCTION(2), Images)
        /\ Output_Write_Address' =
              Counter(Output_Write_Address, INSTRUCTION(3), Cols)
        /\ Output_Read_Address' = ReadAddress(INSTRUCTION(4))

\* A reset edge with clk_en high.
Reset ==
    /\ pe' = [rc \in RowNo \X ColNo |-> PEReset]
    /\ acc' = [c \in ColNo |-> ACCReset]
    /\ Kernel_Address' = 0
    /\ Input_Address' = 0
    /\ Output_Write_Address' = 0
    /\ Output_Read_Address' = 0

-----------------------------------------------------------------------------
(***************************************************************************)
(* Properties of the wires between the cells.                              *)
(***************************************************************************)
\* A result that leaves a MAC unit finds room in the cell below, although that
\* was looked at only when the multiplication began.
ResultsFindRoom ==
    \A r \in RowNo, c \in ColNo :
        O_DataOut(pe[<<r, c>>]) # Nothing => O_OutRdy(r, c)

\* A finished sum finds a free slot in its accumulator, which does not look.
SumsFindRoom ==
    \A c \in ColNo : Exit(acc[c].Sums) # Nothing => Len(acc[c].Out) < ACCBufferSize
=============================================================================

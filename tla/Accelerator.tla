----------------------------- MODULE Accelerator -----------------------------
(***************************************************************************)
(* hello_world.c and PE_Instruction.v together: one call of PE_Instruction *)
(* for a tile of one filter (M = 1, as main calls it) and N columns.  The  *)
(* tile is cut into groups of Cols columns.  For each group the program    *)
(* sends NOPCount blocks of weights, image words and partial outputs,      *)
(* interleaved as PE_Instruction_Block does; when all groups are sent it   *)
(* reads one sum per column.  Columns that do not fill a group are sent    *)
(* and read last, the surplus sums thrown away.                            *)
(*                                                                         *)
(* A send takes one clock.  A read keeps n = 4 until done.  Between two    *)
(* instructions the array may see idle clocks, or none when clk_en is low. *)
(***************************************************************************)
EXTENDS PE_Instruction, SequencesExt

CONSTANTS
    N,                              \* columns of the tile
    Tile_Weight(_), Tile_Img2Col(_), Output0(_),    \* the program's arrays
    IdleClocks                      \* how many idle clocks; negative: any number

ASSUME ProgramAssumption == N \in Nat /\ N >= Cols /\ IdleClocks \in Int

VARIABLES
    pc,             \* the next instruction of Program
    Tile_Output,
    idle            \* idle clocks left

vars == <<array, pc, Tile_Output, idle>>

Groups == N \div Cols
Edge == N % Cols

-----------------------------------------------------------------------------
(***************************************************************************)
(* The instructions of a call, in order: n as in the custom instruction,   *)
(* and the index in Tile_Weight, Tile_Img2Col or Tile_Output of the word.  *)
(***************************************************************************)
Zeros == -1     \* a cleared PE_Output; a sum that is thrown away

\* PE_Instruction_Block: weight, image word and output k, as far as there are.
PE_Instruction_Block(weight, image, output) ==
    FlattenSeq([k \in 1 .. Images |->
        (IF k <= Rows THEN <<[n |-> 1, at |-> weight[k - 1]]>> ELSE << >>)
        \o <<[n |-> 2, at |-> image[k - 1]]>>
        \o (IF k <= Cols THEN <<[n |-> 3, at |-> output[k - 1]]>> ELSE << >>)])

\* The words of block p of group j, of which width columns are used.  What a
\* narrow group does not fill keeps the image words of the block before it.
Block(j, p, width) ==
    LET at(g, q, index) == g * Images * NOPCount + q * Images + index
    IN  PE_Instruction_Block(
          [index \in 0 .. Rows - 1 |-> p * Rows + index],
          [index \in 0 .. Images - 1 |->
             IF index < width + Rows - 1 THEN at(j, p, index)
                                         ELSE at(j - 1, NOPCount - 1, index)],
          [index \in 0 .. Cols - 1 |->
             IF p = 0 /\ index < width THEN j * Cols + index ELSE Zeros])

\* Slip: the weights of a group are sent after everything else, all at once.
GroupWeightsLast(j, width) ==
    LET sent == FlattenSeq([q \in 1 .. NOPCount |-> Block(j, q - 1, width)])
    IN  SelectSeq(sent, LAMBDA instr : instr.n # 1)
        \o SelectSeq(sent, LAMBDA instr : instr.n = 1)

Group(j, width) ==
    FlattenSeq([q \in 1 .. NOPCount |-> Block(j, q - 1, width)])

\* Slip: the surplus sums of a narrow group stay in their accumulators.
ReadsOfTheTileOnly(j, width) ==
    [k \in 1 .. width |-> [n |-> 4, at |-> j * Cols + k - 1]]

Reads(j, width) ==
    [k \in 1 .. Cols |->
       [n |-> 4, at |-> IF k <= width THEN j * Cols + k - 1 ELSE Zeros]]

Program ==
    FlattenSeq([j \in 1 .. Groups |-> Group(j - 1, Cols)])
    \o FlattenSeq([j \in 1 .. Groups |-> Reads(j - 1, Cols)])
    \o (IF Edge = 0 THEN << >> ELSE Group(Groups, Edge) \o Reads(Groups, Edge))

Finished == pc > Len(Program)

dataa ==
    LET instr == Program[pc]
    IN  CASE instr.n = 1 -> Tile_Weight(instr.at)
          [] instr.n = 2 -> Tile_Img2Col(instr.at)
          [] instr.n = 3 -> IF instr.at = Zeros THEN Zero
                                                ELSE Tile_Output[instr.at]

-----------------------------------------------------------------------------
Start ==
    /\ Init
    /\ pc = 1
    /\ Tile_Output = [k \in 0 .. N - 1 |-> Output0(k)]
    /\ idle = IdleClocks

Send ==
    /\ ~Finished
    /\ Program[pc].n # 4
    /\ Clock(Program[pc].n, TRUE, dataa)
    /\ pc' = pc + 1
    /\ UNCHANGED <<Tile_Output, idle>>

\* A clock of a read: while done is low the program waits.
Read ==
    /\ ~Finished
    /\ Program[pc].n = 4
    /\ Clock(4, FALSE, Zero)
    /\ IF Done(4, FALSE)
       THEN /\ pc' = pc + 1
            /\ Tile_Output' =
                  IF Program[pc].at = Zeros THEN Tile_Output
                  ELSE [Tile_Output EXCEPT ![Program[pc].at] = Result[1]]
       ELSE UNCHANGED <<pc, Tile_Output>>
    /\ UNCHANGED idle

\* A clock between two instructions.
Idle ==
    /\ idle # 0
    /\ Clock(0, FALSE, Zero)
    /\ idle' = IF idle > 0 THEN idle - 1 ELSE idle
    /\ UNCHANGED <<pc, Tile_Output>>

\* A reset of the system, with clk_en high: array and program start over.
Restart ==
    /\ Reset
    /\ pc' = 1
    /\ Tile_Output' = [k \in 0 .. N - 1 |-> Output0(k)]
    /\ UNCHANGED idle

Instruction == Send \/ Read

Next == Instruction \/ Idle \/ Restart

Spec == Start /\ [][Next]_vars

\* The processor executes the program, whatever idle clocks come between.
FairSpec == Spec /\ WF_vars(Instruction)

-----------------------------------------------------------------------------
(***************************************************************************)
(* What the tile should hold: for each column the products of its window,  *)
(* added down the array and then over the blocks, in that order, for       *)
(* FPADD is not associative.                                               *)
(***************************************************************************)
ColumnWord(j, p, c) ==
    LET mac[r \in RowNo] ==
          FPADD(FPMUL(Tile_Weight(p * Rows + r),
                      Tile_Img2Col((j * NOPCount + p) * Images + r + c)),
                IF r > 0 THEN mac[r - 1]
                ELSE IF p = 0 THEN Output0(j * Cols + c) ELSE Zero)
    IN  mac[LastRow]

ColumnSum(j, c) ==
    LET sum[p \in 0 .. NOPCount - 1] ==
          FPADD(ColumnWord(j, p, c), IF p = 0 THEN Zero ELSE sum[p - 1])
    IN  sum[NOPCount - 1]

Convolution == [k \in 0 .. N - 1 |-> ColumnSum(k \div Cols, k % Cols)]

\* How many instructions of a kind come before the one at x.
Before(kind, x) == Cardinality({y \in 1 .. x - 1 : Program[y].n = kind})
ReadsBefore == [x \in 1 .. Len(Program) + 1 |-> Before(4, x)]

-----------------------------------------------------------------------------
(***************************************************************************)
(* Properties.                                                             *)
(***************************************************************************)
\* The k-th sum the program has read is in element k of the tile and is the
\* convolution of that column, added in the order of the array; no element whose
\* sum has not been read has changed.
ResultsCorrect ==
    \A k \in 0 .. N - 1 :
        Tile_Output[k] = IF k < ReadsBefore[pc] THEN Convolution[k] ELSE Output0(k)

\* No send is lost: the buffer it goes to has room, although done is raised
\* whether it has or not (PE_Instruction.v:446-457).
SendsFindRoom ==
    /\ Program[pc].n = 1 => DataInRdy(pe[<<Kernel_Address, 0>>].W)
    /\ Program[pc].n = 2 =>
          DataInRdy(pe[IF Input_Address < Cols THEN <<0, Input_Address>>
                       ELSE <<Input_Address - LastCol, LastCol>>].I)
    /\ Program[pc].n = 3 => O_DataInRdy(pe[<<0, Output_Write_Address>>])
NoSendIsLost == Finished \/ SendsFindRoom

\* The read address never runs ahead of the program: while a read waits for its
\* column it stays, whatever results the other columns have meanwhile.
ReadAddressInStep == Output_Read_Address = ReadsBefore[pc] % Cols

\* A finished call leaves nothing behind that the next one would add up or read;
\* what the last column and the last row still hold is dropped.
NothingLeftBehind ==
    Finished =>
        /\ \A r \in RowNo, c \in ColNo :
              /\ pe[<<r, c>>].O = << >> /\ pe[<<r, c>>].MAC = Pipe(MAC_Stages)
              /\ pe[<<r, c>>].W.M = << >> /\ pe[<<r, c>>].I.M = << >>
              /\ c # LastCol => pe[<<r, c>>].W.P = << >>
              /\ r # LastRow /\ c # 0 => pe[<<r, c>>].I.P = << >>
        /\ \A c \in ColNo :
              /\ acc[c].Ready = << >> /\ acc[c].Counter = 0
              /\ acc[c].Sums = Pipe(ADD_Stages) /\ acc[c].Out = << >>
        /\ Kernel_Address = 0 /\ Input_Address = 0
        /\ Output_Write_Address = 0 /\ Output_Read_Address = 0

\* The program is not left waiting for a result that never comes, in whatever
\* state of the array the last restart has found it.
Terminates == <>[][~Restart]_vars => <>[]Finished
=============================================================================

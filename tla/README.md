# A specification of the Nios II convolution engine

The repository holds a convolution accelerator for a Nios II soft processor: a
systolic array of floating-point processing elements behind one custom
instruction (`PE_Group_Instruction/`), and the program that cuts a convolution
into tiles and drives the array (`software/PE_Group_34_Edge/hello_world.c`). Around them
is the generated system they run in. Of that, the parts of the board support package
(`software/PE_Group_34_Edge_bsp/`) that keep state and are entered from more than one
side are specified too: interrupts and the heap, the driver of the JTAG UART, alarms
and the wall clock, the DMA driver, file descriptors and the file system of the host.
The processor, its interconnect and the memory controller are not.

This directory holds TLA+ modules of the hardware and of the program in front of
it, TLC configurations that check them on small instances (and on the real sizes
where that is feasible), and TLAPS proofs of what holds for every size.

## Inventory

| Part | State | Operations | What makes it correct |
|---|---|---|---|
| `Pointer.v`, `Round.v`, `Ready_16.v`, `Ready_4.v`, `Buffer.v` | a pointer; a wrap bit; a memory | count, set/clear on wrap, mask of unread slots, write | the mask is the set of unread slots, also in the clock in which both pointers wrap |
| `FIFO_Buffer.v` (weights, image words of a PE) | memory, write pointer, two read pointers, two wrap bits | push, pop by the neighbour (`Pop1`), pop by the MAC unit (`Pop2`), reset | a queue to each reader; `Full` is that of the slower reader, `Empty` that of the neighbour |
| `FIFO_Buffer2.v`, `FIFO_Buffer_ACC.v` | memory, two pointers, wrap bit | push, pop, reset | a queue, as long as the user does not push when full or pop when empty |
| `PE.v`, `MAC_Pipeline.v`, `OutputDataPipeline.v`, `NOPPipeline.v` | three buffers, `HPM`, multiplier, delay line, adder, `NOPreg` | receive and forward weights and image words, issue a multiplication, deliver a result, reset | the n-th weight, image word and partial output meet; nothing is issued twice or lost; four pointers stay equal |
| `ACC.v`, `NOPPipeline.v`, `ValidPipeline.v` | two buffers, adder pipeline, two shift registers, `NOP_Counter`, `AccumulatedData`, `Add_Busy` | accept a word, add it, finish a group, hand a sum out, reset | groups of `NOPCount` words added in order, one addition at a time, no sum pushed into a full buffer, no deadlock |
| `PE_Instruction.v` | 3x4 PEs, 4 accumulators, four address counters | instructions 1-3 (send a word), 4 (read a sum), 0, reset | a result finds room below, the n-th word goes to the n-th cell, a read returns the sum of its column |
| `hello_world.c`: `PE_Instruction`, `PE_Instruction_Block` | position in the loops, `Tile_Output` | send blocks, read sums, narrow last group | the tile holds the convolution; nothing is left in the array; the call returns |
| `hello_world.c`: `im2col`, `main`, `gemm_*` | DDR3 memory, tile arrays | layout, tile loop, software reference | the array gets the words `im2col` laid out for each column |
| `alt_irq_handler.c`, `alt_iic*.c`, `alt_legacy_irq.h`, `alt_irq.h`, `alt_sbrk.c` | `alt_irq`, `alt_irq_active`, `alt_priority_mask`, PIE and IENABLE of the processor, `heap_end`, a stack of interrupted contexts | take and dispatch an interrupt, (non-)interruptible routines, register, enable, disable, critical sections, `sbrk` | routines nest by priority, get their own context, sections end where they should; no memory is given out twice; the most urgent interrupt is served |
| `altera_avalon_jtag_uart_*.c` | two rings, `irq_enable`, `host_inactive`, `timeout`; FIFOs and pause bit of the core | write, read, close, ioctl, interrupt routine, timeout alarm | a queue of characters each way; neither direction goes to sleep; calls return |
| `alt_alarm_start.c`, `alt_tick.c`, `alt_llist.h` | list of alarms, `_alt_nticks`, `_alt_tick_rate` | start, stop, tick with callbacks | an alarm executes in the tick it is due, also across a wrap of the counter; every tick ends |
| `alt_gettod.c`, `alt_settod.c`, `alt_times.c` | `alt_resettime`, `alt_timezone` | set and get the time of day | the clock shows the time set and the ticks since |
| `altera_avalon_dma.c` | four slots and two indices per channel, `flags`, `launch`, `active`; registers of the controller | send, prepare, space, ioctl, interrupt routine, callbacks | one transfer at a time; requests carried out in order, each followed by its own callback; none slept on |
| `alt_open.c`, `alt_close.c`, `alt_get_fd.c`, `alt_fd_lock.c` and the other calls on descriptors; `altera_hostfs.c` | `alt_fd_list`, `alt_max_fd`, lists of devices and file systems; files open at the host | open, close, read, write, lseek, fcntl, fstat, isatty, ioctl, lock and unlock, redirection of the streams at the start | no descriptor is leaked or shared, on any failure; a held one has its own open file; no file of the host stays open unclaimed but one the host refused to close; a lock keeps others out |
| `Single_PE_Instruction.v`, `PE_Group.v`, `PE_Controller.v`, wrappers `*_Instruction.v`, `PE_31/37/94_Instruction.v` | - | other ways to put the same cells behind an instruction | see "Not modelled" |

How the parts interact: everything in the hardware moves on one clock with one
enable (`clk_en`, driven by the processor). Cells exchange words over
valid/ready wires. In one clock every cell computes its wires from its registers, and all
registers change together; there is no other message or shared state. The
program acts on the array through the five instructions only. A send takes one
clock and is `done` at once; a read holds the processor until the addressed accumulator
has a sum.

In the board support package the thread, the interrupt routines and the devices
share memory without locks other than disabling interrupts. The timer's interrupt
calls `alt_tick`, which walks the list of alarms and calls them; one of them is the
timeout alarm of the JTAG UART, which counts up `host_inactive`. The drivers of
UART, DMA and timer register their routines with `alt_ic_isr_register` when
`alt_sys_init` starts them. `alt_main` then opens `/dev/jtag_uart` for the three
streams, and a `write` on a descriptor ends in that driver; names below
`/mnt/host` go to the debugger on the host.

What is hard in the hardware and its program: several readers and writers of one ring in the same clock;
room looked at when a multiplication starts and used twelve clocks later; a sum fed
back into a seven-stage adder; an asynchronous clear of the adder's valid bits
by the adder's own input; unguarded pushes that rely on what the program
sends; a read address that moves on the results of other columns; sends that are
dropped without notice when a buffer is full; and a narrow last group
whose surplus must be read off. What is hard in the board support package: indices
read by the thread and moved by an interrupt routine before they are used; interrupts
a driver turns off on one side and on again on the other; masks and critical
sections that nest; callbacks that change the list being walked; two places that
launch a transfer; a host that stops polling, or comes back between two looks; counters
that wrap; an `open` that fails half way. `PROJECT.json` lists the hazards of most weight, each at its line, with the
properties that cover it or the reason why none does; "Assumptions and limits" names the rest.

## Modules

Components, bottom up:

* **Ring** - the registers and masks of every buffer as operators on values: `Pointer`,
  `Round`, `Write`, `Ready`. Bit vectors are sets of indices. `Occupancy`,
  `Contents`, `RingOK` say what the registers stand for; only properties use them.
* **FIFO_Buffer** - the two-reader buffer. `Clock` is one rising edge; `Handshake` puts the
  gates of `PE.v` in front of it. **TwoReaderQueue** is its abstract
  specification, a queue per reader.
* **FIFO_Buffer_ACC** - the one-reader buffers, operators on the record of registers.
* **ACC** - the accumulator, every register. `Credit` is the assumption on the
  program: it never has more than `BufferSize` groups unread. **Accumulator** is the
  abstract specification, in which additions take no time; **AccumulatorCell** is the
  clock-accurate one.
* **PE** - a processing element, every register. **ProcessingElement** is its abstract
  specification, clock-accurate over queues.
* **Cells** - one clock of a PE (`PEClock`) and of an accumulator (`ACCClock`)
  as functions of queue-valued registers and of the input wires. ProcessingElement
  and AccumulatorCell are the same functions run on their own, so that `PE` implementing
  the one and `ACC` the other justifies building the array from Cells.
* **PE_Instruction** - the array: the wiring of `PE_Instruction.v`, cell by cell, for any
  `Rows` x `Cols`; the four address counters; `Done` and `Result`. `Clock(n, start, dataa)`
  is one rising edge with `clk_en` high and `reset` low.
* **Accelerator** - a call of `PE_Instruction(1, N, Rows * NOPCount, ...)` of the program
  against the array. `Program` is the sequence of instructions the nested loops of the C function make;
  `Send`, `Read`, `Idle` and `Restart` run it.
* **Tiling** - `main` around that call: `Im2col` lays out one row of the matrix, `GemmTile` and
  `PETile` add one tile of outputs in software and with the accelerator. Main runs both loops over
  the same outputs, so an output ends at twice the convolution. `b_Address` is
  the diagonal reuse: the array gets only `PE_SIZE_X + PE_SIZE_Y - 1` words of
  each block of `PE_SIZE_Y` rows. What the accelerator makes of a tile is taken as its mathematical
  value; `Accelerator`, with `Accelerator_CallAddsTheProduct`, is the argument for that.

The registers and wires have the source's names. A wire that carries a word when
valid is `<<word>>`, and `Nothing` otherwise. A definition that carries a comment
"Slip: ..." is not used by the model; it is a plausible mistake in the
definition after it, kept to show that the properties notice it.

The board support package. In each module a step is one access to shared state (or a
run of accesses nobody else can come between), so that interrupts fall wherever
they can:

* **Interrupts** - the processor's interrupt enables, the table of routines and the heap.
  `contexts` is the stack: the thread below, above it one handler per interrupt
  taken and not returned from; the one on top advances. A routine may let more urgent
  interrupts in (`alt_irq_interruptible`), call `sbrk`, or, with `IsrEnables`, enable and disable interrupts.
* **JtagUart** - the interrupt-driven driver on the FIFOs and interrupt conditions of the
  core. `call` holds the local variables of the call in progress, `isr` those of
  the routine. Interrupts are disabled only where the code does it. **SerialPort** is
  its abstract specification, two queues of numbered characters.
* **Alarm** - alarms and ticks, on the doubly linked list of `alt_llist.h`. A tick is
  a walk, `walk` the alarm it stands at; a callback starts or stops alarms within it.
  **AlarmClock** is the abstract specification, counters of ticks until due. `Freq`,
  `Word` stand for the frequency of the timer and 2^32. **TimeOfDay** adds
  the wall clock.
* **Dma** - the driver on the registers of `NiosIISystem_dma.v`; **DmaChannels** is its
  abstract specification, two queues of requests carried out in pairs, or one by one when a stream mode fixes
  the other side to a register.
* **Files** - the table of descriptors, the lists of devices and file systems, the start in
  `alt_main`, and the files open at the host, which may refuse any call. A file it
  refuses to close may be open afterwards or not: the code cannot tell and
  releases the descriptor either way. `stranded` remembers those left open.

Proof modules: **Ring_proofs** (masks and queues of a ring, and the buffer with one
reader), **Engine_proofs** (the buffer with two readers, and Tiling), **ACC_proofs**, **PE_proofs**,
**Accelerator_proofs** (the array and its program), **JtagUart_proofs**, **Dma_proofs**, **Hal_proofs** (files,
interrupts and heap, alarms and the wall clock).

## Runs

| Run | Instance | Shows |
|---|---|---|
| `two_reader_buffer` | 4 slots, two words | `FIFO_Buffer` implements `TwoReaderQueue` under any timing of push, pops and reset; masks and flags are exact in every combination of pointers |
| `accumulator` | latency 2, groups of 3, 2 slots, words that remember what was added | sums are right, in order and handed out once (`ImplementsAccumulator`); `Add_Busy` admits one partial sum at a time; ACC is the array's cell; with the program's credit no sum meets a full buffer; a waiting word gets in (`WordGetsIn`), and every sum that is due takes the next slot of the buffer and can be read, unless a reset comes first (`SumComesOut`) |
| `processing_element` | 2 slots, latencies 1+1, arithmetic modulo 2 | `PE` implements `ProcessingElement` under any timing at its six interfaces, and looks at the mask bit that tells whether all three words are there |
| `accelerator` | the 3x4 array of the source with its sizes, N = 14 as in `main`, up to two idle clocks, restarts | the tile is the convolution; no send, result or sum is dropped; the read address stays with the program; nothing is left behind; under fairness the call returns |
| `tiling` | images of 1 and 2 channels, 1 and 3 rows of 4 to 10 pixels, 1 and 2 filters, tiles that end where image rows do | software and accelerator add the convolution once each, to every output |
| `interrupts` | 3 interrupts, a heap of 8 bytes | routines nest by priority, get their own context, masks are exact; `sbrk` from everywhere gives no byte out twice; the most urgent interrupt is served |
| `jtag_uart` | rings of 3 slots, FIFOs of 1, 4 characters both ways together, calls of up to 3 | driver and core implement `SerialPort`; neither direction sleeps (`InterruptsResume`, `HostIsServed`); calls return |
| `hal_time` | 3 alarms, a counter that wraps every 8 ticks, shortest and longest delays and periods | the list is a circle of the running alarms; alarms implement `AlarmClock`; every tick ends; the wall clock shows what it should |
| `dma` | 4 slots, 5 requests per channel, of different length on the two sides | transfers do not overlap; a callback finds its slot; driver and controller implement `DmaChannels`; requests proceed |
| `files` | 5 descriptors, one device, one host file, three handles: two files in use and one stranded | descriptors are neither leaked nor shared, whatever fails; every held one has its own open file, and the only other files open are those whose close the host refused; a lock keeps later opens out |
| `tiling_across` (violation) | rows of 6 pixels, tiles of 4 outputs | finding: a group of outputs across the end of an image row gets words of the wrong pixels |
| `tiling_memory` (violation) | 3 channels of 10x10 pixels, 16 filters, `main`'s distances scaled | finding: the matrix of `im2col` ends behind the first cleared outputs |

Bounds of the hardware, and why they are enough. A ring behaves alike in every position; 4
slots give every combination of wraps, and the proofs cover every size. The
accumulator needs a latency above 1 and a group above 2 for a partial sum to be
under way while a word waits, and two groups for the first word of one to meet the last sum of another.
The array runs with its real sizes, latencies and buffers: every kind of cell (corner,
edge, last row, last column), three whole groups that wait in the result buffers together, and a
narrow last one. Words are numbers modulo 9973 under
operations that are neither commutative nor associative, and every element of the program's arrays is different,
so a wrong word or order changes the result. `IdleClocks` bounds how many clocks
may pass between instructions; a restart may come at any of them.

The images of `tiling` have rows and columns at every border, groups with and without a narrow
one after them, and one or two tiles of weights; the zones of memory lie end to end, so a word written
or read outside its zone is seen. `main`'s own sizes are outside TLC's reach, 838144
words in every state: `tiling_memory` keeps the distance of 400000 words that `main` has between matrix
and outputs in proportion to the number of pixels, 2687 for 100 of them. The proof of `Tiling_OutputCorrect` covers
sizes like `main`'s, with zones that lie apart and tiles that divide a row. These three programs are sequential
and end; that is why they run without the deadlock check.

Bounds of the board support package. Three interrupts are the fewest with one that
interrupts a routine that has itself interrupted one; a critical section opened inside
another arises with one registration. The heap has room for two blocks of three bytes,
with alignment between, and not for a third. Rings of three slots hold two characters:
empty, full, part full and wrapped all occur, and a call of three needs to wait.
FIFOs of one are full after a character, which gives the most
interrupts per character; their real depth of 64 is covered by the proof of `InterruptsResume`. `INT_MAX`
of 4 lets `host_inactive` reach its end in two ticks. A counter of eight ticks wraps
several times in the life of three alarms, periods of 7 reach the longest
distance that can still be told apart from the past, and three alarms are the fewest with one before and one
behind the alarm that executes. The DMA driver runs with its own four slots, of which three are
used, and five requests, so that both indices wrap. Requests are bounded (`MaxPosts`),
and a request without a partner waits rightly for ever: that is why the run has no deadlock check. Five
descriptors are the three streams and two more, of which the program runs out; three handles are one for
each of these and one that a refused close has left open. `SumComesOut` names the slot the sum goes to, so that a sum read earlier
or still unread does not pass for it; a reset shows as the initial state.

Fairness. `FairSpec` of ACC assumes that a clock edge that changes something without help of the neighbours comes
eventually (`QuietClock`), that of Accelerator that the program's next instruction does. The processor is stalled inside a
custom instruction until `done` and keeps `clk_en` high meanwhile, so a read cannot
be starved of clocks; between instructions it executes straight-line code. Nothing is assumed of
the timing of the wires of a PE or of the readers of a buffer. In Interrupts the
processor runs on (`Step`), in JtagUart the call, the interrupt routine and the timer's
ticks do, in TimeOfDay a tick that has begun goes on, in Dma the call, the
routine and the transfer go on. Nothing makes the thread start a call, a
device raise its interrupt or the host do anything: what `CallsReturn` and `HostIsServed` need
of the host stands in them as a hypothesis (`HostStays`, `HostStaysAway`), in terms of what the host can see and do.

## Proofs

All for every value of the constants the ASSUMEs allow (sizes at least 1 or 2, words
closed under the arithmetic).

* **Ring_proofs**: the mask computed by `Ready` is the set of slots from the
  read to the write pointer (`ReadyMember`); it is empty or full exactly when the
  occupancy is 0 or `BufferSize` (`ReadyFlags`); a guarded push and pop in the same clock move the
  occupancy as they should (`RingStep`) and the contents as a queue (`ContentsStep`).
* **FIFO_Buffer**: `TypeCorrect`, `RingsInOrder`, `FlagsAreExact`, `BufferIsQueue`. The
  inductive invariant is `TypeOK /\ BothRingsOK`: the gates of `PE.v` look at masks, so they are only
  known to be right if both wrap bits are.
* **ACC**: `ACC_TypeCorrect`, `ACC_OneAddition`, `ACC_ClearLosesNothing`,
  `ACC_RoomForEverySum`, and the refinements of `AccumulatorCell` and of `Accumulator`
  (`ACC_ImplementsCell`, `ACC_ImplementsAccumulator`). The invariant
  joins the one-hot valid bits of the adder with
  `Add_Busy`, and counts the words owed to the program against the slots of the
  result buffer. In the first refinement `Add_Busy` says which valid bit the cell's count
  of clocks stands for, so that both cells the array is built from are the modules of the
  source, clock by clock, for every value of the constants. In the second the sums in the adder are
  read as a queue, ranked by stage (`Ranks`, `SumsStep`), in front of the result buffer, and the
  two queues in a row step as one (`TailOfConcat`, `Regroup`); the invariant adds
  that a group with a partial sum in the adder has begun (`GroupBegun`): the first word of a group
  waits for no addition.
* **PE**: `PE_TypeCorrect`, `PE_PointersTogether`, `PE_IssuesWhenReady`,
  `PE_BuffersInOrder` and `PE_ImplementsCell`, the refinement of `ProcessingElement`. The PE
  looks at the mask bits at its own pointer while each buffer pops at its own, so
  the invariant holds the four pointers together: that makes the bit the
  one of the heads of the three queues, and a PE never waits on words that are there. The MAC unit's three shift
  registers are mapped to one pipeline of results.
* **Accelerator**: `Accelerator_SumsFindRoom`, under `Groups <= ACCBufferSize`: the program sends all whole
  groups before it reads the first sum, so a result buffer must take one sum of each; `main`'s 14 columns are 3
  whole groups, for 4 slots, and a narrow one that is sent after the reads. `Accelerator_NothingLeftBehind`: when a call has read its sums in step
  (`ReadAddressInStep`), no word is left in any buffer, pipeline or adder, except the weights in the last column
  and the image words in the last row and on the left-hand edge, which nobody forwards. Nothing is assumed
  of latencies, sizes of buffers, idle clocks or restarts.
  The program is read as four streams, of weights, image words, partial outputs and
  reads, of which every sequence of instructions carries a stretch (`Carries`, `ProgramWalks`, `BeforeIs`).
  The invariant `ArrayInv` counts what each cell has multiplied (`iss`) and what was popped from each
  column (`popped`), and says that every buffer has been given at most what its sender has
  handed on, and has handed on what it was given and does not hold. These are inequalities, since a
  push into a full buffer loses its word; the program sends no more than it reads back, so
  that once every sum is read all of them are equations (`FinishedArray`) and nothing is on the way.

  `Accelerator_ResultsCorrect`, `Accelerator_NoSendIsLost`, `Accelerator_ResultsFindRoom`,
  `Accelerator_ReadAddressInStep`, and from the last `Accelerator_CallsStartClean` (`NothingLeftBehind` outright):
  nothing is held back between cells, so they are about time and need a relation between the sizes,
  `Fits`. With the source's numbers and main's tiles of 14:
  - `ACCBufferSize >= 2` (4), for a word on its way to the adder;
  - `ADD_Stages < BlockLen` (7 < 13): the words of a block are sent in `BlockLen` instructions, 3 weights,
    6 image words and 4 outputs, and an addition has to end before the next word of its group comes;
  - `(PEBufferSize - 1) * BlockLen > LastRow * Delay + LastCol` (15 * 13 > 2 * 13 + 3; `Delay` is
    `MAC_Stages + 1`): a cell of the last row starts on a block so much later than its weight came, and its
    buffer must not fill until then;
  - `Groups <= ACCBufferSize` (3 <= 4), as above.

  Nothing else is assumed: any array and tile, any arithmetic, also one that is neither associative nor
  commutative, any number of clocks between two instructions, any restart. The invariant `CallInv` gives the clock of
  everything. If `sent[q]` is the clock of the program's send number q, then the clock at which a cell multiplies
  its words of block b follows by recursion down the rows (`Schedule`, which exists by `ScheduleExists`): the
  last of weight, image word and result from above has come. All these timelines keep the distance of
  the sends of a block (`Paced`, `RowsOnTime`), and a word is taken before the one that would find the buffer
  full comes (`CellTimes`). `ArrayShows` says that at clock t every register of every cell
  and accumulator holds what the schedule has there, and `ArrayOnTime` that one clock keeps it so: each cell
  by `CellOnTime`, each accumulator by `SumOnTime`, the wires between them by `WiresOnTime` and `ReadyOnTime`.
  What is still to be sent has no clock yet. `OnTime` therefore speaks of all continuations of the
  past, of which one that goes on without a pause (`History`) is a witness; an idle clock or a read that waits moves
  only the rest (`HistoryPauses`, `Follows`). The n-th words that meet are then those of the same
  block, and the results are chains of additions whose ends are the terms of the convolution (`Chain`, `ColumnWordIs`,
  `ColumnSumIs`).
  The read address is right because the columns finish their sums from left to right (`SumsInOrder`): if the column to
  be read has none, no other has one that could move the address (`ReadFinds`).

  `Accelerator_CallAddsTheProduct` says what that means: if the words are whole numbers (`WholeNumbers`: `FPADD` and `FPMUL` are + and *),
  a finished call has added to each element of the tile the sum, over blocks and rows, of weight times image word, which is the term
  of Tiling's `PE_Instruction`, word for word. A chain of additions adds its words to its base (`ChainAdds`), first
  down a column, then over the blocks.
* **Tiling**: `Tiling_OutputCorrect`, under `Layout`: the zones of memory lie apart (`ZonesApart`), tiles end where
  image rows end and cover the weights in whole blocks (`WholeTiles`), and a block of the array is a row of
  the filter (`SameSize`). `main`'s own literals satisfy neither of the first two: `tiling_memory` and `tiling_across`
  show that the outputs are wrong without them. The invariant `TilingInv` says where the loops are,
  that the words of weights and image are still those of the files, and that the first rows of
  the matrix hold the pixel each weight meets (`MatrixOK`). A row of `im2col` disturbs no other zone. A tile adds, to its own outputs only, the product
  of a row of weights and a column of the matrix, tile by tile of weights (`PartsAddUp`,
  `TotalOfBlocks`), which are the three nested sums of the convolution (`ConvolutionIs`). The
  accelerator reads most of these words in another place, on the diagonal of a block: one row of the
  matrix further down and one column to the left is the same pixel while the columns lie in one
  image row (`Diagonal`, `SameWord`), which is what `WholeTiles` is for. Sums are recursive
  functions; that they exist, are unique and split (`SumsExist`, `SumsUnique`, `TotalSplit`) is shown by
  induction over sets of numbers (`Induction`, from the well-foundedness of `<` on the naturals).
* **Files**: `Files_TypeCorrect`, `Files_TableIsExact`, `Files_HandlesAreExact`,
  `Files_LockKeepsOthersOut` (an action property), with a host that may refuse any call and leave the file of a
  refused close open. The invariant adds `Marks`: every descriptor in use
  is at or below `alt_max_fd`, where the search for locks ends, and locks are on devices only.
* **Interrupts**: `Interrupts_HandlersMatch` and `Interrupts_BlocksDisjoint` for every
  routine; `Interrupts_NestByPriority` and `Interrupts_MasksExact` under `~IsrEnables`, without
  which they are false, see below. The invariant `IrqIInv` is about every context on the stack, not
  only the one that runs: one that waits was interrupted with interrupts on, so it is in
  no critical section, and what it will put back when it goes on (`alt_priority_mask`, the enables)
  is what its own level needs (`PriorityOK`). A registration settles the table entry
  and its enable in two writes, between which no interrupt falls. For the heap it says that
  blocks lie below `heap_end`, and that whoever is inside `sbrk` is alone there.
* **Dma**: `Dma_OneTransferAtATime`, also with callbacks that post while the thread is posting. The
  invariant adds `Alone`: an idle device neither runs nor has an interrupt pending, and
  the interrupt routine has it counted as active until it has launched.
  Under `~Reentrant`, without which they are false: `Dma_TypeCorrect`,
  `Dma_CallbackFindsItsSlot` and `Dma_ImplementsChannels`, the refinement of `DmaChannels`. A queue is
  read as the sequence of its requests (`RingOf`); `PostQueue`, `AdvanceQueue` and `RingTail` say what
  moving an index does to it. The invariant `DInv` has the requests numbered without a gap
  (`Numbered`); callbacks made up to the first request of the queue, but for the one whose slot
  the routine holds, which lies before the queue and is not free yet (`CalledOK`); what
  the thread has read while posting, since when the routine can only have made room
  (`CallOK`); and the registers of a running controller, which are those of the first requests (`Told`).
  The moment at which the abstract transfer happens is that of the controller, before
  the driver knows of it: `Served` is the request that is done and still in its slot.
* **JtagUart**: `JtagUart_TypeCorrect`, `JtagUart_InterruptsResume` and
  `JtagUart_ImplementsPort`, the refinement of `SerialPort`. For the interrupts the invariant
  adds that a read call that copies has something to copy and goes by an index inside the ring,
  whatever the routine does to its own meanwhile. For the streams (`PortInv`) it adds what makes
  the unlocked copies safe: a copying call works on the end of the ring that only it moves, so what
  it found free or filled there still is (`WriteCopyOK`, `ReadCopyOK`), and the space
  the routine read from the core is still free (`SpaceOK`). A ring is read as
  the sequence it holds; `RingAppend` and `RingDrop` say what moving a pointer past
  characters does to it, over the end of the array too, and every step is then one of the
  port or none: a character moved between ring and FIFO changes neither stream.
* **TimeOfDay**: `TimeOfDay_ListOK` and `TimeOfDay_ImplementsAlarmClock`, both under
  `~CallbackStops`: no callback stops another alarm. With it they are false, see
  below. The invariant has the list as a circle without a proper part closed under `next`
  (`Linked`); the time of every alarm as the ticks until it is due, on a counter that
  wraps, with `rollover` set exactly when the wrap comes first (`TimesOK`); and that the
  alarms a walk has passed are not due (`AllPassedOK`). "Passed" is what a walk along
  `next` cannot reach any more; that a removal or an insertion keeps
  it so is most of the proof.
  `TimeOfDay_WallClockSetEarly` has the hypothesis `ALT_US % Freq = 0` and no other: a tick is a
  whole number of microseconds, as with the 1000 ticks per second of `system.h:453`. Without it the
  property is false (TLC, with 3 ticks in a second of 7 units, finds the clock going back), since the code
  counts seconds in ticks and the rest in rounded microseconds. Seconds and microseconds are then
  the quotient and remainder of one number (`TicksInTime`), and those are unique (`SameTime`), which
  settles borrow and carry in all cases (`InOrder`).

Checked by TLC only:

* All liveness (`EveryTickEnds`, `MostUrgentIsServed`, `CallsReturn`, `HostIsServed`, `RequestsProceed`
  `Terminates`, `WordGetsIn`, `SumComesOut`): liveness and ENABLED are out of the provers' reach.
* That no word is lost, and the sums are right, if the sizes do not fit: nothing is claimed. `Fits` is a
  sufficient condition; no run looks for the least sizes.

Not a theorem is the last step, to `main` end to end: Tiling's `PE_Instruction` and
`Accelerator_CallAddsTheProduct` have the same sum of products, of the words `b_Address` chooses, but in two
modules with different words and variables for them, and no module composes both.

## Assumptions and limits

* `FPMUL` and `FPADD` are external: operators with the declared latency. Rounding and special
  values do not matter to the properties, only which operands meet in which order.
* Timing inside a clock is not modelled: the asynchronous clear in ACC is applied at
  the settled value of `Valid`, and a glitch on that wire before it settles is outside the model.
* The comments "whether the ADD Unit is busy" (`ACC.v:20`) and "reset" for instruction 0
  (`PE_Instruction.v:23`) are not to be taken literally: `Add_Busy` is low while the last
  addition of a group is under way, and instruction 0 clears nothing.
* `Reset` is an edge with `clk_en` high. With `clk_en` low the cells are cleared
  (`aclr`) and the address counters of `PE_Instruction.v` are not; whether the
  processor system can produce that is not decided by this code.
* An idle clock has `start` low and `n` other than 4. Decoding 4 does
  not look at `start` (`PE_Instruction.v:27`), so a core that left `n = 4` on the wires after a
  read would lose a sum.
* `M = 1`, the only value `main` uses. With more, results of all filters are stored at
  the place of the first (`hello_world.c:245`).
* The matrix has the three taps of an image row in consecutive rows, so a block of the
  array must be a row of the filter: `Ksize = PE_SIZE_Y`, `Stride = 1`, as in `main`. A tile of
  weights must be a group of the accumulators, `Tile_k_size = PE_SIZE_Y * NOPCount`; `main` has 27 = 3 * 9. Tiles that do
  not fit into the outputs whole are left out by `main`; `OutputCorrect` says so. `main` reads image words from a constant; the model
  gives every pixel its own value.
* A narrow group assumes a whole group before it (`N >= Cols`), so that `PE_Img2Col` is initialised.


What the models of the board support package take for granted, and what was seen there
that no run of this program's calls reaches:

* Interrupts: IENABLE is written from `alt_irq_active` without `alt_priority_mask`
  (`alt_legacy_irq.h:98`, `:118`). A routine that lets more urgent interrupts in and then
  calls `alt_ic_irq_enable` opens its own interrupt again. No driver of this program does;
  with `IsrEnables = TRUE`, TLC finds `NestsByPriority` and `MasksExact` violated, which is
  why their theorems assume `~IsrEnables`. Devices keep
  their request up until served; one that withdrew it would leave `alt_irq_handler.c:141` looping.
* Alarms: a callback that stops the very next alarm leaves the walk at an alarm that
  points to itself (`alt_tick.c:140`). No callback here does; with `CallbackStops = TRUE`, TLC finds
  `EveryTickEnds` and `ImplementsAlarmClock` violated. An alarm that is running is not started again.
* Wall clock: `settimeofday` multiplies in 32 bits what `gettimeofday` multiplies in 64,
  so a clock set more than 71 minutes after the start is off at once, and after 49 days the
  clock falls back with the tick counter. `WallClockSetEarly` says up to where it is right.
* Heap: the comment at `alt_sbrk.c:46` says that nothing is checked and that memory is given out
  even beyond the physical memory. That is out of date: `alt_sbrk.c:88` refuses a block that would
  pass `__alt_heap_limit`, and `BlocksDisjoint` has it so. The stack is not modelled: whether
  the limit stays clear of it is the linker's and the stack checker's business. Requests
  (`Incrs`) are sizes of blocks (`alt_sbrk.c:44`), natural numbers; the argument is an `int`, and a negative one,
  which would take `heap_end` back over blocks given out, is outside the model.
* Alarms: one that was never started points to itself in the model (`AlarmInit`); in C its links are whatever
  its memory holds, so the model says nothing of stopping it, which would follow them. The longest delay
  modelled is `Word - 2`; with one of 2^32 - 1 the `time` of the alarm would wrap to the current tick.
* JTAG UART: one thread, no operating system (the semaphores are empty macros). The timer is
  started before the driver, so the branch for a driver without a timeout alarm is not reached. In the core, RVALID is
  latched a clock before the count is sampled (`NiosIISystem_jtag_uart.v:511`, `:520`): with a character arriving in
  that clock the routine sees RVALID low and RAVAIL above zero, and `init.c:156` turns the
  receive interrupt off although the ring is not full, until the next `read` turns it on. The model takes RVALID low for an empty FIFO.
* DMA: with `Reentrant = TRUE`, a callback that posts between the thread's look at `tx_end` and its
  store, TLC finds `ImplementsChannels` violated: the driver leaves that to the caller. The
  program turns off only the stream that is on, posts lengths above zero, and a unit the
  controller was not generated for gets safety only. In `TX_STREAM` mode a send never
  gets its callback, since the receive side alone is launched.
* Files: a close the host refuses gives the descriptor back all the same (`alt_close.c:88`), so the file may stay
  open with nothing left that could close it. `HandlesAreExact` says that no other file is left behind.
  In this system only `/dev/null` can be locked: the three streams hold the UART for good, so
  `TIOCEXCL` on another descriptor of it is refused. The run has the same devices; `Files_LockKeepsOthersOut` is proved for any.
  The program closes what it holds, or a stream. A number that is not open
  still finds an entry, with a NULL device that is looked into (`alt_close.c:84`); the streams are closed but never released. The search for other users of a device
  ends before `alt_max_fd` (`alt_fd_lock.c:61`), so a lock is granted while the highest
  descriptor has the device open; it still keeps later opens out. `alt_isatty.c` reads
  a status that a device without `fstat` has not written, and `altera_hostfs.c:97` reads a
  name that is just the mount point past its end; names and data are not modelled.
* Not modelled, seen while reading: `alt_busy_sleep` of an exact multiple of its loop
  (`alt_busy_sleep.c:104`), and one line too many discarded by `alt_dcache_flush_no_writeback.c:65`.

## Not modelled

The components of `PROJECT.json` with status `not_modelled`, each with its reason. The map covers about
17 % of the lines of the C sources, which are those of the board support package and of
the program. Of their 17306 lines some 6200 are code; the rest are licence headers, comments and
blank lines. What is left of the code are formatting (`alt_log_printf`, `alt_printf`, the
profile and performance reports), register macros and constants (`system.h`, `nios2.h`, `*_regs.h`, `termios.h`), declarations, cache and start-up loops of one
instruction, and system calls that set `errno` and return -1: no state, or none that two
actors share, so a model would repeat the text. The hardware, of which all
modules on the path from the custom instruction to the adder are modelled, is not
part of that count.

## Plan

1. (done) Buffers, accumulator, processing element, each against its abstract
   specification; array and program on top of the cells; proofs of the
   buffers, of the accumulator's safety and of the PE's refinement.
2. (done) The rest of the program: the tile loops of `main`, `im2col`, the diagonal
   reuse and the memory layout. Left: the loops over `M > 1` filters per call.
3. (done) The board support package where several actors share state, with abstract
   specifications of serial port, alarms and DMA channels, and the proofs above.
4. `Single_PE_Instruction` (one PE behind the instruction) on top of `Cells`; `PE_Group`
   with `PE_Controller`.
5. (done) Proofs of the cells, the drivers, Interrupts, the program's `OutputCorrect`, and of every invariant
   of the array. Left: a module that composes Tiling's loops with a call of the array, tile by tile.

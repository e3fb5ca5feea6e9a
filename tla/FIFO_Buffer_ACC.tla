--------------------------- MODULE FIFO_Buffer_ACC ---------------------------
(***************************************************************************)
(* FIFO_Buffer_ACC.v and FIFO_Buffer2.v: a buffer with one reader, as      *)
(* operators on the record of its registers.  The two differ in size (4    *)
(* and 16) and in which flags they bring out.  Neither guards itself: a    *)
(* push into a full buffer and a pop from an empty one move the pointers.  *)
(***************************************************************************)
EXTENDS Ring

Fifo == [buf : [Slots -> Data], W : Slots, R : Slots, round : BOOLEAN]

FifoReset == [buf |-> Cleared, W |-> 0, R |-> 0, round |-> FALSE]

FifoReady(f) == Ready(f.W, f.R, f.round)
FifoFull(f)  == FifoReady(f) = Slots
FifoEmpty(f) == FifoReady(f) = {}
FifoOut(f)   == f.buf[f.R]

FifoClock(f, push, d, pop) ==
    [buf   |-> Write(f.buf, push, f.W, d),
     W     |-> Pointer(f.W, push),
     R     |-> Pointer(f.R, pop),
     round |-> Round(f.round, push, pop, f.W, f.R)]

-----------------------------------------------------------------------------
\* Not in the code: the words the buffer holds for its reader.
FifoOK(f)    == RingOK(f.W, f.R, f.round)
FifoCount(f) == Occupancy(f.W, f.R, f.round)
FifoWords(f) == Contents(f.buf, f.W, f.R, f.round)
=============================================================================

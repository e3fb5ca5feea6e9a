-------------------------------- MODULE Ring --------------------------------
(***************************************************************************)
(* The combinational and registered pieces every buffer of the accelerator *)
(* is made of (Pointer.v, Round.v, Ready_16.v / Ready_4.v, Buffer.v), as   *)
(* operators on the values of their registers.  A buffer has one write     *)
(* pointer and one or two read pointers; for each reader a wrap bit Round  *)
(* tells a full ring from an empty one, and Ready turns the two pointers   *)
(* and the bit into the set of slots that hold an unread word.             *)
(*                                                                         *)
(* Ready_16 and Ready_4 are the same circuit at BufferSize 16 and 4.  Bit  *)
(* vectors are the sets of the indices whose bit is 1.                     *)
(***************************************************************************)
EXTENDS Integers, Sequences

CONSTANTS
    BufferSize,     \* slots of the ring: 2^BufferWidth
    Data,           \* the words that flow through the accelerator
    Zero            \* the word a cleared register holds

ASSUME BufferSizeAssumption == BufferSize \in Nat /\ BufferSize >= 2
ASSUME ZeroAssumption == Zero \in Data

Slots == 0 .. BufferSize - 1

(***************************************************************************)
(* Registers.                                                              *)
(***************************************************************************)
\* Pointer: +1 when enabled, in BufferWidth bits.
Pointer(p, en) ==
    IF ~en THEN p ELSE IF p = BufferSize - 1 THEN 0 ELSE p + 1

\* Round: set by the push that wraps the write pointer (it wins), cleared by
\* the pop that wraps the read pointer.
Round(round, push, pop, W, R) ==
    \/ W = BufferSize - 1 /\ push
    \/ round /\ ~(R = BufferSize - 1 /\ pop)

\* Buffer: the word under the write pointer is replaced when enabled.
Write(buf, en, W, d) == IF en THEN [buf EXCEPT ![W] = d] ELSE buf

Cleared == [s \in Slots |-> Zero]

(***************************************************************************)
(* Ready: which slots hold an unread word.                                 *)
(***************************************************************************)
\* A subtraction in BufferWidth + 1 bits.
Distance(W, R, round) ==
    LET d == (IF round THEN W + BufferSize ELSE W) - R
    IN  IF d < 0 THEN d + 2 * BufferSize ELSE d

\* The case table stops at BufferSize; its default is no bit at all.
Pattern(distance) ==
    IF distance <= BufferSize THEN {k \in Slots : k < distance} ELSE {}

\* Slip: the shift is not rotated when round is set (the header of Ready_16.v
\* remembers that it once was not).
ReadyCutOff(W, R, round) ==
    Slots \cap {R + k : k \in Pattern(Distance(W, R, round))}

\* Pattern << R_Addr, folded back into BufferSize bits: rotated when round is
\* set, cut off otherwise.
Ready(W, R, round) ==
    LET TmpReady == {R + k : k \in Pattern(Distance(W, R, round))}
    IN  IF round
        THEN {s \in Slots : IF s >= R THEN s \in TmpReady
                                      ELSE s + BufferSize \in TmpReady}
        ELSE Slots \cap TmpReady

-----------------------------------------------------------------------------
(***************************************************************************)
(* What the registers stand for: the queue of unread words of one reader.  *)
(* These operators are not in the code; properties and proofs use them.    *)
(***************************************************************************)
Occupancy(W, R, round) == (IF round THEN W + BufferSize ELSE W) - R

\* The slot k places after slot R, going round.
After(R, k) == IF R + k < BufferSize THEN R + k ELSE R + k - BufferSize

\* The pointers and the wrap bit are those of a ring with 0 .. BufferSize
\* unread words.
RingOK(W, R, round) ==
    /\ W \in Slots
    /\ R \in Slots
    /\ round \in BOOLEAN
    /\ Occupancy(W, R, round) \in 0 .. BufferSize

Contents(buf, W, R, round) ==
    [k \in 1 .. Occupancy(W, R, round) |-> buf[After(R, k - 1)]]

\* A queue after one clock in which it may lose its head and gain a tail.
QueueStep(q, push, d, pop) ==
    LET rest == IF pop THEN Tail(q) ELSE q
    IN  IF push THEN Append(rest, d) ELSE rest
=============================================================================

----------------------------- MODULE FIFO_Buffer -----------------------------
(***************************************************************************)
(* FIFO_Buffer.v: the weight (W) and image (I) buffer of a processing      *)
(* element.  One writer, two readers: Pop1 hands the word on to the        *)
(* neighbouring PE, Pop2 feeds it to the MAC unit.  The buffer itself has  *)
(* no guard; PE.v asks for a push, a pop1 or a pop2 only under the         *)
(* handshakes that Next states.  A clock with clk_en low changes nothing   *)
(* (a stuttering step); aclr is Reset.                                     *)
(***************************************************************************)
EXTENDS Ring

VARIABLES
    Buffer,         \* the memory
    W_Addr,         \* TP, write pointer
    R_Addr1,        \* HPP, read pointer of the neighbour
    R_Addr2,        \* HPM, read pointer of the MAC unit
    RoundP, RoundM  \* wrap bits of the two readers

vars == <<Buffer, W_Addr, R_Addr1, R_Addr2, RoundP, RoundM>>

ReadyP == Ready(W_Addr, R_Addr1, RoundP)
ReadyM == Ready(W_Addr, R_Addr2, RoundM)

\* Slip: Full looks at the MAC unit's reader only.
FullOfMac == ReadyM = Slots

Full  == ReadyP \cup ReadyM = Slots
Empty == ReadyP = {}

DataOut1 == Buffer[R_Addr1]
DataOut2 == Buffer[R_Addr2]

Init ==
    /\ Buffer = Cleared
    /\ W_Addr = 0
    /\ R_Addr1 = 0
    /\ R_Addr2 = 0
    /\ RoundP = FALSE
    /\ RoundM = FALSE

Clock(push, d, pop1, pop2) ==
    /\ Buffer' = Write(Buffer, push, W_Addr, d)
    /\ W_Addr' = Pointer(W_Addr, push)
    /\ R_Addr1' = Pointer(R_Addr1, pop1)
    /\ R_Addr2' = Pointer(R_Addr2, pop2)
    /\ RoundP' = Round(RoundP, push, pop1, W_Addr, R_Addr1)
    /\ RoundM' = Round(RoundM, push, pop2, W_Addr, R_Addr2)

\* One clock inside a PE: the handshakes of PE.v gate the three requests.
Handshake(valid, d, rdy, issue) ==
    LET Rec_Handshaking  == ~Full /\ valid
        Send_Handshaking == ~Empty /\ rdy
        Not_NOPIn        == R_Addr2 \in ReadyM /\ issue
    IN  Clock(Rec_Handshaking, d, Send_Handshaking, Not_NOPIn)

Reset ==
    /\ Buffer' = Cleared
    /\ W_Addr' = 0
    /\ R_Addr1' = 0
    /\ R_Addr2' = 0
    /\ RoundP' = FALSE
    /\ RoundM' = FALSE

Next ==
    \/ \E valid, rdy, issue \in BOOLEAN, d \in Data :
          Handshake(valid, d, rdy, issue)
    \/ Reset

Spec == Init /\ [][Next]_vars

-----------------------------------------------------------------------------
(***************************************************************************)
(* Properties.                                                             *)
(***************************************************************************)
\* Every register holds a value of its width.
TypeOK ==
    /\ Buffer \in [Slots -> Data]
    /\ W_Addr \in Slots
    /\ R_Addr1 \in Slots
    /\ R_Addr2 \in Slots
    /\ RoundP \in BOOLEAN
    /\ RoundM \in BOOLEAN

\* The two wrap bits always say how many words each reader has still to read:
\* neither reader overtakes the writer, the writer laps neither reader, although
\* the bits are set and cleared by different pointers in the same clock.
BothRingsOK ==
    /\ RingOK(W_Addr, R_Addr1, RoundP)
    /\ RingOK(W_Addr, R_Addr2, RoundM)

\* Full, computed from the union of the two readers' masks, is raised exactly
\* when the slower reader is BufferSize words behind; Empty exactly when the
\* neighbour has read everything.  A wrong mask would stall the systolic array
\* or let a push overwrite an unread word.
FlagsExact ==
    /\ Full <=> \/ Occupancy(W_Addr, R_Addr1, RoundP) = BufferSize
                \/ Occupancy(W_Addr, R_Addr2, RoundM) = BufferSize
    /\ Empty <=> Occupancy(W_Addr, R_Addr1, RoundP) = 0
    /\ R_Addr2 \in ReadyM <=> Occupancy(W_Addr, R_Addr2, RoundM) > 0

\* The buffer is a queue to each of its two readers (Buffer.v read at the two
\* read pointers, under the handshakes of PE.v).
Queue == INSTANCE TwoReaderQueue WITH
    Capacity <- BufferSize,
    toP <- Contents(Buffer, W_Addr, R_Addr1, RoundP),
    toM <- Contents(Buffer, W_Addr, R_Addr2, RoundM)

ImplementsQueue == Queue!Spec
=============================================================================

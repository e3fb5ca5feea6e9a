------------------------------ MODULE PE_proofs ------------------------------
(***************************************************************************)
(* For every buffer size, every latency and any words and timing at the    *)
(* wires: the registers of a PE stay in range, its four MAC pointers stay  *)
(* together, its three buffers stay in order, and the whole implements the *)
(* cell of the array (ProcessingElement).                                  *)
(***************************************************************************)
EXTENDS PE, Ring_proofs

\* A two-reader buffer with a word in every slot and both rings in order.
Rings(buf, W, P, M, roundP, roundM) ==
    /\ buf \in [Slots -> Data]
    /\ RingOK(W, P, roundP)
    /\ RingOK(W, M, roundM)

W_Rings == Rings(W_Mem, W_TP, W_HPP, W_HPM, W_RoundP, W_RoundM)
I_Rings == Rings(I_Mem, I_TP, I_HPP, I_HPM, I_RoundP, I_RoundM)
O_Ring == O_Buffer \in Fifo /\ FifoOK(O_Buffer)

PipesOK ==
    /\ Mul \in [Stages(MUL_Pipeline_Stages) -> Data]
    /\ Delay \in [Stages(MUL_Pipeline_Stages) -> Data]
    /\ Add \in [Stages(ADD_Pipeline_Stages) -> Data]
    /\ NOPreg \in [Stages(Pipeline_Stages) -> BOOLEAN]

\* The inductive invariant.  The three buffers are popped on the mask bits at HPM,
\* each at a pointer of its own; Lockstep makes that bit the one of their heads.
IInv == W_Rings /\ I_Rings /\ O_Ring /\ HPM \in Slots /\ Lockstep /\ PipesOK

-----------------------------------------------------------------------------
(***************************************************************************)
(* The two-reader buffers of the PE, in the terms of Ring.                 *)
(***************************************************************************)
LEMMA W_Terms ==
    /\ W_Buffer!TypeOK /\ W_Buffer!BothRingsOK <=> W_Rings
    /\ W_Buffer!ReadyM = Ready(W_TP, W_HPM, W_RoundM)
    /\ W_Buffer!Empty <=> Ready(W_TP, W_HPP, W_RoundP) = {}
    /\ W_Buffer!Full <=> Ready(W_TP, W_HPP, W_RoundP)
                           \cup Ready(W_TP, W_HPM, W_RoundM) = Slots
<1>1. /\ W_Buffer!ReadyM = Ready(W_TP, W_HPM, W_RoundM)
      /\ W_Buffer!ReadyP = Ready(W_TP, W_HPP, W_RoundP)
      /\ W_Buffer!Slots = Slots
  BY DEF W_Buffer!ReadyM, W_Buffer!ReadyP, W_Buffer!Ready, Ready,
         W_Buffer!Distance, Distance, W_Buffer!Pattern, Pattern,
         W_Buffer!Slots, Slots
<1>2. W_Buffer!TypeOK /\ W_Buffer!BothRingsOK <=> W_Rings
  BY <1>1 DEF W_Buffer!TypeOK, W_Buffer!BothRingsOK, W_Buffer!RingOK, RingOK,
              W_Buffer!Occupancy, Occupancy, W_Rings, Rings
<1> QED BY <1>1, <1>2 DEF W_Buffer!Empty, W_Buffer!Full

LEMMA I_Terms ==
    /\ I_Buffer!TypeOK /\ I_Buffer!BothRingsOK <=> I_Rings
    /\ I_Buffer!ReadyM = Ready(I_TP, I_HPM, I_RoundM)
    /\ I_Buffer!Empty <=> Ready(I_TP, I_HPP, I_RoundP) = {}
    /\ I_Buffer!Full <=> Ready(I_TP, I_HPP, I_RoundP)
                           \cup Ready(I_TP, I_HPM, I_RoundM) = Slots
<1>1. /\ I_Buffer!ReadyM = Ready(I_TP, I_HPM, I_RoundM)
      /\ I_Buffer!ReadyP = Ready(I_TP, I_HPP, I_RoundP)
      /\ I_Buffer!Slots = Slots
  BY DEF I_Buffer!ReadyM, I_Buffer!ReadyP, I_Buffer!Ready, Ready,
         I_Buffer!Distance, Distance, I_Buffer!Pattern, Pattern,
         I_Buffer!Slots, Slots
<1>2. I_Buffer!TypeOK /\ I_Buffer!BothRingsOK <=> I_Rings
  BY <1>1 DEF I_Buffer!TypeOK, I_Buffer!BothRingsOK, I_Buffer!RingOK, RingOK,
              I_Buffer!Occupancy, Occupancy, I_Rings, Rings
<1> QED BY <1>1, <1>2 DEF I_Buffer!Empty, I_Buffer!Full

\* The flags of a two-reader buffer in order, as in Engine_proofs.
LEMMA SideFlags ==
    ASSUME NEW buf, NEW W, NEW P, NEW M, NEW roundP, NEW roundM,
           Rings(buf, W, P, M, roundP, roundM)
    PROVE  /\ Ready(W, P, roundP) = {} <=> Occupancy(W, P, roundP) = 0
           /\ M \in Ready(W, M, roundM) <=> Occupancy(W, M, roundM) > 0
           /\ Ready(W, P, roundP) \cup Ready(W, M, roundM) = Slots <=>
                 \/ Occupancy(W, P, roundP) = BufferSize
                 \/ Occupancy(W, M, roundM) = BufferSize
           /\ Occupancy(W, P, roundP) \in 0 .. BufferSize
           /\ Occupancy(W, M, roundM) \in 0 .. BufferSize
<1>1. RingOK(W, P, roundP) /\ RingOK(W, M, roundM)
  BY DEF Rings
<1>2. /\ W \in Slots
      /\ Occupancy(W, P, roundP) \in 0 .. BufferSize
      /\ Occupancy(W, M, roundM) \in 0 .. BufferSize
  BY <1>1 DEF RingOK
<1>3. /\ Ready(W, P, roundP) \subseteq Slots
      /\ Ready(W, P, roundP) = {} <=> Occupancy(W, P, roundP) = 0
      /\ Ready(W, P, roundP) = Slots <=> Occupancy(W, P, roundP) = BufferSize
      /\ W \in Ready(W, P, roundP) <=> Occupancy(W, P, roundP) = BufferSize
  BY <1>1, ReadyFlags
<1>4. /\ Ready(W, M, roundM) \subseteq Slots
      /\ Ready(W, M, roundM) = Slots <=> Occupancy(W, M, roundM) = BufferSize
      /\ M \in Ready(W, M, roundM) <=> Occupancy(W, M, roundM) > 0
      /\ W \in Ready(W, M, roundM) <=> Occupancy(W, M, roundM) = BufferSize
  BY <1>1, ReadyFlags
<1>5. Ready(W, P, roundP) \cup Ready(W, M, roundM) = Slots <=>
         \/ Occupancy(W, P, roundP) = BufferSize
         \/ Occupancy(W, M, roundM) = BufferSize
  BY <1>2, <1>3, <1>4
<1> QED BY <1>2, <1>3, <1>4, <1>5

\* A granted clock keeps such a buffer in order and steps both its queues.
LEMMA SideStep ==
    ASSUME NEW buf, NEW W, NEW P, NEW M, NEW roundP, NEW roundM,
           Rings(buf, W, P, M, roundP, roundM),
           NEW push \in BOOLEAN, NEW pop1 \in BOOLEAN, NEW pop2 \in BOOLEAN,
           NEW d \in Data,
           push => ~(Ready(W, P, roundP) \cup Ready(W, M, roundM) = Slots),
           pop1 => Ready(W, P, roundP) # {},
           pop2 => M \in Ready(W, M, roundM),
           NEW buf2, buf2 = Write(buf, push, W, d),
           NEW W2, W2 = Pointer(W, push),
           NEW P2, P2 = Pointer(P, pop1),
           NEW M2, M2 = Pointer(M, pop2),
           NEW roundP2, roundP2 = Round(roundP, push, pop1, W, P),
           NEW roundM2, roundM2 = Round(roundM, push, pop2, W, M)
    PROVE  /\ Rings(buf2, W2, P2, M2, roundP2, roundM2)
           /\ Contents(buf2, W2, P2, roundP2) =
                 QueueStep(Contents(buf, W, P, roundP), push, d, pop1)
           /\ Contents(buf2, W2, M2, roundM2) =
                 QueueStep(Contents(buf, W, M, roundM), push, d, pop2)
<1>1. /\ RingOK(W, P, roundP) /\ RingOK(W, M, roundM)
      /\ buf \in [Slots -> Data]
  BY DEF Rings
<1>2. /\ push => Occupancy(W, P, roundP) < BufferSize
      /\ push => Occupancy(W, M, roundM) < BufferSize
      /\ pop1 => Occupancy(W, P, roundP) > 0
      /\ pop2 => Occupancy(W, M, roundM) > 0
  BY SideFlags, BufferSizeAssumption
<1>3. RingOK(W2, P2, roundP2)
  BY <1>1, <1>2, RingStep
<1>4. RingOK(W2, M2, roundM2)
  BY <1>1, <1>2, RingStep
<1>5. buf2 \in [Slots -> Data]
  BY <1>1 DEF Write, RingOK
<1>6. Contents(buf2, W2, P2, roundP2) =
         QueueStep(Contents(buf, W, P, roundP), push, d, pop1)
  BY <1>1, <1>2, ContentsStep
<1>7. Contents(buf2, W2, M2, roundM2) =
         QueueStep(Contents(buf, W, M, roundM), push, d, pop2)
  BY <1>1, <1>2, ContentsStep
<1> QED BY <1>3, <1>4, <1>5, <1>6, <1>7 DEF Rings

-----------------------------------------------------------------------------
(***************************************************************************)
(* The invariant.                                                          *)
(***************************************************************************)
\* What one clock asks of the three buffers.
WPush(in) == W_DataInRdy /\ in.wv
WPop(in)  == W_DataOutValid /\ in.wr
IPush(in) == I_DataInRdy /\ in.iv
IPop(in)  == I_DataOutValid /\ in.ir
OPush(in) == O_DataInRdy /\ in.ov
Mac(in)   == ~NOPIn(in.or)

\* Every request of a clock is granted by the flag it depends on.
LEMMA Granted ==
    ASSUME IInv, NEW in \in Inputs
    PROVE  /\ WPush(in) \in BOOLEAN /\ WPop(in) \in BOOLEAN
           /\ IPush(in) \in BOOLEAN /\ IPop(in) \in BOOLEAN
           /\ OPush(in) \in BOOLEAN /\ Mac(in) \in BOOLEAN
           /\ in.w \in Data /\ in.i \in Data /\ in.o \in Data
           /\ WPush(in) => ~(Ready(W_TP, W_HPP, W_RoundP)
                               \cup Ready(W_TP, W_HPM, W_RoundM) = Slots)
           /\ IPush(in) => ~(Ready(I_TP, I_HPP, I_RoundP)
                               \cup Ready(I_TP, I_HPM, I_RoundM) = Slots)
           /\ WPop(in) => Ready(W_TP, W_HPP, W_RoundP) # {}
           /\ IPop(in) => Ready(I_TP, I_HPP, I_RoundP) # {}
           /\ OPush(in) => FifoCount(O_Buffer) < BufferSize
           /\ Mac(in) => /\ W_HPM \in Ready(W_TP, W_HPM, W_RoundM)
                         /\ I_HPM \in Ready(I_TP, I_HPM, I_RoundM)
                         /\ FifoCount(O_Buffer) > 0
<1>1. /\ in.wv \in BOOLEAN /\ in.wr \in BOOLEAN /\ in.iv \in BOOLEAN
      /\ in.ir \in BOOLEAN /\ in.ov \in BOOLEAN /\ in.or \in BOOLEAN
      /\ in.w \in Data /\ in.i \in Data /\ in.o \in Data
  BY PEInputsAssumption
<1>2. FifoOK(O_Buffer) /\ W_HPM = HPM /\ I_HPM = HPM /\ O_Buffer.R = HPM
  BY DEF IInv, O_Ring, Lockstep
<1>3. OPush(in) => FifoCount(O_Buffer) < BufferSize
  BY <1>2, FifoFlags, BufferSizeAssumption DEF OPush, O_DataInRdy
<1>4. Mac(in) => /\ W_HPM \in W_Buffer!ReadyM
                 /\ I_HPM \in I_Buffer!ReadyM
                 /\ O_Buffer.R \in FifoReady(O_Buffer)
  BY <1>2 DEF Mac, NOPIn, ReadyM
<1>5. O_Buffer.R \in FifoReady(O_Buffer) => FifoCount(O_Buffer) > 0
  BY <1>2, ReadyFlags DEF FifoReady, FifoCount, FifoOK
<1>6. Mac(in) => /\ W_HPM \in Ready(W_TP, W_HPM, W_RoundM)
                 /\ I_HPM \in Ready(I_TP, I_HPM, I_RoundM)
                 /\ FifoCount(O_Buffer) > 0
  BY <1>4, <1>5, W_Terms, I_Terms
<1>7. /\ WPush(in) \in BOOLEAN /\ WPop(in) \in BOOLEAN
      /\ IPush(in) \in BOOLEAN /\ IPop(in) \in BOOLEAN
      /\ OPush(in) \in BOOLEAN /\ Mac(in) \in BOOLEAN
  BY <1>1 DEF WPush, WPop, IPush, IPop, OPush, Mac, W_DataInRdy, W_DataOutValid,
              I_DataInRdy, I_DataOutValid, O_DataInRdy, NOPIn
<1>8. /\ WPush(in) => ~(Ready(W_TP, W_HPP, W_RoundP)
                          \cup Ready(W_TP, W_HPM, W_RoundM) = Slots)
      /\ WPop(in) => Ready(W_TP, W_HPP, W_RoundP) # {}
  BY W_Terms DEF WPush, WPop, W_DataInRdy, W_DataOutValid
<1>9. /\ IPush(in) => ~(Ready(I_TP, I_HPP, I_RoundP)
                          \cup Ready(I_TP, I_HPM, I_RoundM) = Slots)
      /\ IPop(in) => Ready(I_TP, I_HPP, I_RoundP) # {}
  BY I_Terms DEF IPush, IPop, I_DataInRdy, I_DataOutValid
<1> QED BY <1>1, <1>3, <1>6, <1>7, <1>8, <1>9

\* One clock, with the buffers in the terms of Ring.
LEMMA ClockTerms ==
    ASSUME NEW in, Clock(in)
    PROVE  /\ W_Mem' = Write(W_Mem, WPush(in), W_TP, in.w)
           /\ W_TP' = Pointer(W_TP, WPush(in))
           /\ W_HPP' = Pointer(W_HPP, WPop(in))
           /\ W_HPM' = Pointer(W_HPM, Mac(in))
           /\ W_RoundP' = Round(W_RoundP, WPush(in), WPop(in), W_TP, W_HPP)
           /\ W_RoundM' = Round(W_RoundM, WPush(in), Mac(in), W_TP, W_HPM)
           /\ I_Mem' = Write(I_Mem, IPush(in), I_TP, in.i)
           /\ I_TP' = Pointer(I_TP, IPush(in))
           /\ I_HPP' = Pointer(I_HPP, IPop(in))
           /\ I_HPM' = Pointer(I_HPM, Mac(in))
           /\ I_RoundP' = Round(I_RoundP, IPush(in), IPop(in), I_TP, I_HPP)
           /\ I_RoundM' = Round(I_RoundM, IPush(in), Mac(in), I_TP, I_HPM)
           /\ O_Buffer' = FifoClock(O_Buffer, OPush(in), in.o, Mac(in))
           /\ HPM' = Pointer(HPM, Mac(in))
           /\ MAC_Unit(NOPIn(in.or))
<1> DEFINE mac == Mac(in)
<1>1. /\ W_Buffer!Clock(WPush(in), in.w, WPop(in), mac)
      /\ I_Buffer!Clock(IPush(in), in.i, IPop(in), mac)
      /\ O_Buffer' = FifoClock(O_Buffer, OPush(in), in.o, mac)
      /\ HPM' = Pointer(HPM, mac)
      /\ MAC_Unit(NOPIn(in.or))
  BY DEF Clock, WPush, WPop, IPush, IPop, OPush, Mac, HPMUnit
<1> HIDE DEF mac
<1>2. /\ W_Mem' = Write(W_Mem, WPush(in), W_TP, in.w)
      /\ W_TP' = Pointer(W_TP, WPush(in))
      /\ W_HPP' = Pointer(W_HPP, WPop(in))
      /\ W_HPM' = Pointer(W_HPM, mac)
      /\ W_RoundP' = Round(W_RoundP, WPush(in), WPop(in), W_TP, W_HPP)
      /\ W_RoundM' = Round(W_RoundM, WPush(in), mac, W_TP, W_HPM)
  BY <1>1 DEF W_Buffer!Clock, W_Buffer!Write, Write, W_Buffer!Pointer, Pointer,
              W_Buffer!Round, Round
<1>3. /\ I_Mem' = Write(I_Mem, IPush(in), I_TP, in.i)
      /\ I_TP' = Pointer(I_TP, IPush(in))
      /\ I_HPP' = Pointer(I_HPP, IPop(in))
      /\ I_HPM' = Pointer(I_HPM, mac)
      /\ I_RoundP' = Round(I_RoundP, IPush(in), IPop(in), I_TP, I_HPP)
      /\ I_RoundM' = Round(I_RoundM, IPush(in), mac, I_TP, I_HPM)
  BY <1>1 DEF I_Buffer!Clock, I_Buffer!Write, Write, I_Buffer!Pointer, Pointer,
              I_Buffer!Round, Round
<1> QED BY <1>1, <1>2, <1>3 DEF mac

\* The cleared buffers are in order.
LEMMA Empties ==
    /\ Cleared \in [Slots -> Data]
    /\ 0 \in Slots
    /\ Rings(Cleared, 0, 0, 0, FALSE, FALSE)
    /\ FifoReset \in Fifo /\ FifoOK(FifoReset) /\ FifoReset.R = 0
    /\ W_Buffer!Cleared = Cleared /\ I_Buffer!Cleared = Cleared
<1>1. 0 \in Slots /\ Cleared \in [Slots -> Data]
  BY BufferSizeAssumption, ZeroAssumption DEF Slots, Cleared
<1>2. RingOK(0, 0, FALSE)
  BY <1>1, BufferSizeAssumption DEF RingOK, Occupancy
<1>3. W_Buffer!Cleared = Cleared /\ I_Buffer!Cleared = Cleared
  BY DEF W_Buffer!Cleared, I_Buffer!Cleared, Cleared, W_Buffer!Slots,
         I_Buffer!Slots, Slots
<1> QED BY <1>1, <1>2, <1>3, FifoResetOK DEF Rings, FifoReset

LEMMA InitIInv == Init => IInv
<1> SUFFICES ASSUME Init PROVE IInv
  OBVIOUS
<1>1. W_Rings /\ I_Rings
  BY Empties DEF Init, W_Buffer!Init, I_Buffer!Init, W_Rings, I_Rings
<1>2. O_Ring /\ HPM \in Slots
  BY Empties DEF Init, O_Ring
<1>3. Lockstep
  BY Empties DEF Init, W_Buffer!Init, I_Buffer!Init, Lockstep
<1>4. PipesOK
  BY ZeroAssumption DEF Init, PipesOK
<1> QED BY <1>1, <1>2, <1>3, <1>4 DEF IInv

LEMMA ResetIInv == Reset => IInv'
<1> SUFFICES ASSUME Reset PROVE IInv'
  OBVIOUS
<1>1. (W_Rings /\ I_Rings)'
  BY Empties DEF Reset, W_Buffer!Reset, I_Buffer!Reset, W_Rings, I_Rings
<1>2. O_Ring' /\ HPM' \in Slots
  BY Empties DEF Reset, O_Ring
<1>3. Lockstep'
  BY Empties DEF Reset, W_Buffer!Reset, I_Buffer!Reset, Lockstep
<1>4. PipesOK'
  BY ZeroAssumption DEF Reset, PipesOK
<1> QED BY <1>1, <1>2, <1>3, <1>4 DEF IInv

LEMMA ClockIInv ==
    ASSUME IInv, NEW in \in Inputs, Clock(in)
    PROVE  IInv'
<1>1. W_Rings'
  <2>1. Rings(W_Mem, W_TP, W_HPP, W_HPM, W_RoundP, W_RoundM)
    BY DEF IInv, W_Rings
  <2>2. Rings(W_Mem', W_TP', W_HPP', W_HPM', W_RoundP', W_RoundM')
    BY <2>1, Granted, ClockTerms, SideStep
  <2> QED BY <2>2 DEF W_Rings
<1>2. I_Rings'
  <2>1. Rings(I_Mem, I_TP, I_HPP, I_HPM, I_RoundP, I_RoundM)
    BY DEF IInv, I_Rings
  <2>2. Rings(I_Mem', I_TP', I_HPP', I_HPM', I_RoundP', I_RoundM')
    BY <2>1, Granted, ClockTerms, SideStep
  <2> QED BY <2>2 DEF I_Rings
<1>3. O_Ring'
  BY Granted, ClockTerms, FifoType, FifoStep DEF IInv, O_Ring
<1>4. HPM' \in Slots /\ Lockstep'
  <2>1. O_Buffer'.R = Pointer(O_Buffer.R, Mac(in))
    BY ClockTerms DEF FifoClock
  <2> QED BY <2>1, Granted, ClockTerms, PointerInSlots DEF IInv, Lockstep
<1>5. PipesOK'
  <2>1. /\ W_Buffer!DataOut2 \in Data
        /\ I_Buffer!DataOut2 \in Data
        /\ FifoOut(O_Buffer) \in Data
    BY DEF IInv, W_Rings, I_Rings, Rings, RingOK, O_Ring, Fifo, FifoOut,
           W_Buffer!DataOut2, I_Buffer!DataOut2
  <2>2. /\ MUL_Pipeline_Stages \in Stages(MUL_Pipeline_Stages)
        /\ \A k \in Stages(MUL_Pipeline_Stages) :
              k # 1 => k - 1 \in Stages(MUL_Pipeline_Stages)
        /\ \A k \in Stages(ADD_Pipeline_Stages) :
              k # 1 => k - 1 \in Stages(ADD_Pipeline_Stages)
        /\ \A k \in Stages(Pipeline_Stages) :
              k # 1 => k - 1 \in Stages(Pipeline_Stages)
    BY PEStagesAssumption DEF Stages, Pipeline_Stages
  <2>3. MAC_Unit(NOPIn(in.or)) /\ NOPIn(in.or) \in BOOLEAN /\ PipesOK
    BY ClockTerms DEF IInv, NOPIn
  <2>4. Mul' \in [Stages(MUL_Pipeline_Stages) -> Data]
    BY <2>1, <2>2, <2>3, PEWordsAssumption DEF MAC_Unit, Shift, PipesOK
  <2>5. Delay' \in [Stages(MUL_Pipeline_Stages) -> Data]
    BY <2>1, <2>2, <2>3 DEF MAC_Unit, Shift, PipesOK
  <2>6. Add' \in [Stages(ADD_Pipeline_Stages) -> Data]
    <3>1. FPADD(Mul[MUL_Pipeline_Stages], Delay[MUL_Pipeline_Stages]) \in Data
      BY <2>2, <2>3, PEWordsAssumption DEF PipesOK
    <3> QED BY <2>2, <2>3, <3>1 DEF MAC_Unit, Shift, PipesOK
  <2>7. NOPreg' \in [Stages(Pipeline_Stages) -> BOOLEAN]
    BY <2>2, <2>3 DEF MAC_Unit, Shift, PipesOK
  <2> QED BY <2>4, <2>5, <2>6, <2>7 DEF PipesOK
<1> QED BY <1>1, <1>2, <1>3, <1>4, <1>5 DEF IInv

LEMMA NextIInv == IInv /\ [Next]_vars => IInv'
<1> SUFFICES ASSUME IInv, [Next]_vars PROVE IInv'
  OBVIOUS
<1>1. CASE \E in \in Inputs : Clock(in)
  BY <1>1, ClockIInv
<1>2. CASE Reset
  BY <1>2, ResetIInv
<1>3. CASE UNCHANGED vars
  BY <1>3 DEF vars, W_Regs, I_Regs, IInv, W_Rings, I_Rings, O_Ring, Lockstep,
              PipesOK
<1> QED BY <1>1, <1>2, <1>3 DEF Next

\* What the invariant says, in the words of PE.
LEMMA IInvGives == IInv => TypeOK /\ Lockstep /\ BuffersInOrder
BY W_Terms, I_Terms DEF IInv, TypeOK, BuffersInOrder, O_Ring, PipesOK

LEMMA IssueFromRings == IInv => IssuesWhenReady
<1> SUFFICES ASSUME IInv PROVE IssuesWhenReady
  OBVIOUS
<1>1. W_HPM = HPM /\ I_HPM = HPM /\ O_Buffer.R = HPM
  BY DEF IInv, Lockstep
<1>2. W_HPM \in W_Buffer!ReadyM <=> Occupancy(W_TP, W_HPM, W_RoundM) > 0
  BY W_Terms, SideFlags DEF IInv, W_Rings
<1>3. I_HPM \in I_Buffer!ReadyM <=> Occupancy(I_TP, I_HPM, I_RoundM) > 0
  BY I_Terms, SideFlags DEF IInv, I_Rings
<1>4. O_Buffer.R \in FifoReady(O_Buffer) <=> FifoCount(O_Buffer) > 0
  BY ReadyFlags DEF IInv, O_Ring, FifoOK, FifoReady, FifoCount
<1> QED BY <1>1, <1>2, <1>3, <1>4 DEF IssuesWhenReady, ReadyM

\* Every register of a PE holds a value of its width (PE.v and its buffers).
THEOREM PE_TypeCorrect == Spec => []TypeOK
BY IInvGives, InitIInv, NextIInv, PTL DEF Spec

\* The pointer of the PE and those of its three buffers never part (PE.v:66-85).
THEOREM PE_PointersTogether == Spec => []Lockstep
BY IInvGives, InitIInv, NextIInv, PTL DEF Spec

\* The bit a PE looks at before it multiplies says exactly whether each of its
\* three queues has a word (PE.v:69-85).
THEOREM PE_IssuesWhenReady == Spec => []IssuesWhenReady
BY IssueFromRings, InitIInv, NextIInv, PTL DEF Spec

\* No buffer of a PE is overrun or read when empty, for every buffer size.
THEOREM PE_BuffersInOrder == Spec => []BuffersInOrder
BY IInvGives, InitIInv, NextIInv, PTL DEF Spec

-----------------------------------------------------------------------------
(***************************************************************************)
(* The PE implements the cell of the array.                                *)
(***************************************************************************)
\* A queue steps as in Cells: it loses its head, then takes what is offered.
LEMMA QueueSteps ==
    ASSUME NEW q \in Seq(Data), NEW push \in BOOLEAN, NEW pop \in BOOLEAN,
           NEW d \in Data, pop => q # << >>
    PROVE  QueueStep(q, push, d, pop) =
              Cell!Step(q, IF push THEN <<d>> ELSE Cell!Nothing, pop)
<1> DEFINE rest == IF pop THEN Tail(q) ELSE q
<1>1. rest \in Seq(Data)
  OBVIOUS
<1> HIDE DEF rest
<1>2. rest \o <<d>> = Append(rest, d) /\ rest \o << >> = rest
  BY <1>1
<1> QED BY <1>2 DEF QueueStep, Cell!Step, Cell!Nothing, rest

\* One side of a PE, weights or image words, steps as the side of the cell.
LEMMA SideImplements ==
    ASSUME NEW qP \in Seq(Data), NEW qM \in Seq(Data),
           NEW valid \in BOOLEAN, NEW rdy \in BOOLEAN, NEW mac \in BOOLEAN,
           NEW d \in Data, mac => qM # << >>,
           NEW push, push = (Len(qP) < BufferSize /\ Len(qM) < BufferSize /\ valid),
           NEW pop, pop = (qP # << >> /\ rdy)
    PROVE  Cell!Side([P |-> qP, M |-> qM],
                     [P |-> QueueStep(qP, push, d, pop),
                      M |-> QueueStep(qM, push, d, mac)], mac)
<1> DEFINE offer == IF valid THEN <<d>> ELSE Cell!Nothing
           side  == [P |-> qP, M |-> qM]
           taken == IF push THEN <<d>> ELSE Cell!Nothing
<1>1. offer \in Cell!Offers
  BY DEF Cell!Offers
<1>2. /\ QueueStep(qP, push, d, pop) = Cell!Step(qP, taken, pop)
      /\ QueueStep(qM, push, d, mac) = Cell!Step(qM, taken, mac)
  BY QueueSteps
<1>3. taken = IF Cell!DataInRdy(side) THEN offer ELSE Cell!Nothing
  BY DEF Cell!DataInRdy
<1>4. [P |-> Cell!Step(qP, taken, pop), M |-> Cell!Step(qM, taken, mac)] =
         Cell!SideClock(side, offer, rdy, mac)
  BY <1>3 DEF Cell!SideClock
<1> QED BY <1>1, <1>2, <1>4 DEF Cell!Side

\* What the queues of a PE in order are: sequences as long as the rings say.
LEMMA Queues ==
    ASSUME IInv
    PROVE  /\ W_Words.P \in Seq(Data) /\ W_Words.M \in Seq(Data)
           /\ I_Words.P \in Seq(Data) /\ I_Words.M \in Seq(Data)
           /\ FifoWords(O_Buffer) \in Seq(Data)
           /\ Len(W_Words.P) = Occupancy(W_TP, W_HPP, W_RoundP)
           /\ Len(W_Words.M) = Occupancy(W_TP, W_HPM, W_RoundM)
           /\ Len(I_Words.P) = Occupancy(I_TP, I_HPP, I_RoundP)
           /\ Len(I_Words.M) = Occupancy(I_TP, I_HPM, I_RoundM)
           /\ Len(FifoWords(O_Buffer)) = FifoCount(O_Buffer)
<1>1. /\ W_Mem \in [Slots -> Data] /\ I_Mem \in [Slots -> Data]
      /\ RingOK(W_TP, W_HPP, W_RoundP) /\ RingOK(W_TP, W_HPM, W_RoundM)
      /\ RingOK(I_TP, I_HPP, I_RoundP) /\ RingOK(I_TP, I_HPM, I_RoundM)
  BY DEF IInv, W_Rings, I_Rings, Rings
<1>2. /\ O_Buffer.buf \in [Slots -> Data]
      /\ RingOK(O_Buffer.W, O_Buffer.R, O_Buffer.round)
  BY DEF IInv, O_Ring, Fifo, FifoOK
<1>3. /\ W_Words.P \in Seq(Data) /\ W_Words.M \in Seq(Data)
      /\ Len(W_Words.P) = Occupancy(W_TP, W_HPP, W_RoundP)
      /\ Len(W_Words.M) = Occupancy(W_TP, W_HPM, W_RoundM)
  BY <1>1, ContentsSeq DEF W_Words
<1>4. /\ I_Words.P \in Seq(Data) /\ I_Words.M \in Seq(Data)
      /\ Len(I_Words.P) = Occupancy(I_TP, I_HPP, I_RoundP)
      /\ Len(I_Words.M) = Occupancy(I_TP, I_HPM, I_RoundM)
  BY <1>1, ContentsSeq DEF I_Words
<1>5. /\ FifoWords(O_Buffer) \in Seq(Data)
      /\ Len(FifoWords(O_Buffer)) = FifoCount(O_Buffer)
  BY <1>2, ContentsSeq DEF FifoWords, FifoCount
<1> QED BY <1>3, <1>4, <1>5

\* The requests of a clock, in terms of the queues.
LEMMA Requests ==
    ASSUME IInv, NEW in \in Inputs
    PROVE  /\ WPush(in) = (/\ Len(W_Words.P) < BufferSize
                           /\ Len(W_Words.M) < BufferSize /\ in.wv)
           /\ WPop(in) = (W_Words.P # << >> /\ in.wr)
           /\ IPush(in) = (/\ Len(I_Words.P) < BufferSize
                           /\ Len(I_Words.M) < BufferSize /\ in.iv)
           /\ IPop(in) = (I_Words.P # << >> /\ in.ir)
           /\ OPush(in) = (Len(FifoWords(O_Buffer)) < BufferSize /\ in.ov)
           /\ Mac(in) => /\ W_Words.M # << >> /\ I_Words.M # << >>
                         /\ FifoWords(O_Buffer) # << >>
<1>1. /\ in.wv \in BOOLEAN /\ in.wr \in BOOLEAN /\ in.iv \in BOOLEAN
      /\ in.ir \in BOOLEAN /\ in.ov \in BOOLEAN
  BY PEInputsAssumption
<1>2. /\ Rings(W_Mem, W_TP, W_HPP, W_HPM, W_RoundP, W_RoundM)
      /\ Rings(I_Mem, I_TP, I_HPP, I_HPM, I_RoundP, I_RoundM)
      /\ FifoOK(O_Buffer)
  BY DEF IInv, W_Rings, I_Rings, O_Ring
<1>3. /\ W_DataInRdy <=> Len(W_Words.P) < BufferSize /\ Len(W_Words.M) < BufferSize
      /\ W_DataOutValid <=> W_Words.P # << >>
  <2>1. /\ Ready(W_TP, W_HPP, W_RoundP) = {} <=> Len(W_Words.P) = 0
        /\ Ready(W_TP, W_HPP, W_RoundP) \cup Ready(W_TP, W_HPM, W_RoundM) = Slots
              <=> Len(W_Words.P) = BufferSize \/ Len(W_Words.M) = BufferSize
        /\ Len(W_Words.P) \in 0 .. BufferSize /\ Len(W_Words.M) \in 0 .. BufferSize
    <3>1. /\ Ready(W_TP, W_HPP, W_RoundP) = {} <=>
                Occupancy(W_TP, W_HPP, W_RoundP) = 0
          /\ Ready(W_TP, W_HPP, W_RoundP)
                \cup Ready(W_TP, W_HPM, W_RoundM) = Slots <=>
                \/ Occupancy(W_TP, W_HPP, W_RoundP) = BufferSize
                \/ Occupancy(W_TP, W_HPM, W_RoundM) = BufferSize
          /\ Occupancy(W_TP, W_HPP, W_RoundP) \in 0 .. BufferSize
          /\ Occupancy(W_TP, W_HPM, W_RoundM) \in 0 .. BufferSize
      BY <1>2, SideFlags
    <3> QED BY <3>1, Queues
  <2>2. W_Words.P # << >> <=> Len(W_Words.P) # 0
    BY Queues
  <2> QED BY <2>1, <2>2, W_Terms, BufferSizeAssumption
             DEF W_DataInRdy, W_DataOutValid
<1>4. /\ I_DataInRdy <=> Len(I_Words.P) < BufferSize /\ Len(I_Words.M) < BufferSize
      /\ I_DataOutValid <=> I_Words.P # << >>
  <2>1. /\ Ready(I_TP, I_HPP, I_RoundP) = {} <=> Len(I_Words.P) = 0
        /\ Ready(I_TP, I_HPP, I_RoundP) \cup Ready(I_TP, I_HPM, I_RoundM) = Slots
              <=> Len(I_Words.P) = BufferSize \/ Len(I_Words.M) = BufferSize
        /\ Len(I_Words.P) \in 0 .. BufferSize /\ Len(I_Words.M) \in 0 .. BufferSize
    <3>1. /\ Ready(I_TP, I_HPP, I_RoundP) = {} <=>
                Occupancy(I_TP, I_HPP, I_RoundP) = 0
          /\ Ready(I_TP, I_HPP, I_RoundP)
                \cup Ready(I_TP, I_HPM, I_RoundM) = Slots <=>
                \/ Occupancy(I_TP, I_HPP, I_RoundP) = BufferSize
                \/ Occupancy(I_TP, I_HPM, I_RoundM) = BufferSize
          /\ Occupancy(I_TP, I_HPP, I_RoundP) \in 0 .. BufferSize
          /\ Occupancy(I_TP, I_HPM, I_RoundM) \in 0 .. BufferSize
      BY <1>2, SideFlags
    <3> QED BY <3>1, Queues
  <2>2. I_Words.P # << >> <=> Len(I_Words.P) # 0
    BY Queues
  <2> QED BY <2>1, <2>2, I_Terms, BufferSizeAssumption
             DEF I_DataInRdy, I_DataOutValid
<1>5. O_DataInRdy <=> Len(FifoWords(O_Buffer)) < BufferSize
  BY <1>2, Queues, FifoFlags, BufferSizeAssumption DEF O_DataInRdy
<1>6. Mac(in) => /\ Len(W_Words.M) > 0 /\ Len(I_Words.M) > 0
                 /\ Len(FifoWords(O_Buffer)) > 0
  BY <1>2, Granted, Queues, SideFlags
<1>7. /\ W_Words.M # << >> <=> Len(W_Words.M) > 0
      /\ I_Words.M # << >> <=> Len(I_Words.M) > 0
      /\ FifoWords(O_Buffer) # << >> <=> Len(FifoWords(O_Buffer)) > 0
  BY Queues
<1>8. /\ WPush(in) = (/\ Len(W_Words.P) < BufferSize
                      /\ Len(W_Words.M) < BufferSize /\ in.wv)
      /\ WPop(in) = (W_Words.P # << >> /\ in.wr)
  BY <1>1, <1>3 DEF WPush, WPop
<1>9. /\ IPush(in) = (/\ Len(I_Words.P) < BufferSize
                      /\ Len(I_Words.M) < BufferSize /\ in.iv)
      /\ IPop(in) = (I_Words.P # << >> /\ in.ir)
  BY <1>1, <1>4 DEF IPush, IPop
<1>10. OPush(in) = (Len(FifoWords(O_Buffer)) < BufferSize /\ in.ov)
  BY <1>1, <1>5 DEF OPush
<1> QED BY <1>6, <1>7, <1>8, <1>9, <1>10

\* The words the MAC unit takes are the heads of its three queues.
LEMMA HeadsMultiplied ==
    ASSUME IInv, NEW in \in Inputs, Mac(in)
    PROVE  Cell!MACResult(Cell!cell) =
              <<FPADD(FPMUL(W_Buffer!DataOut2, I_Buffer!DataOut2),
                      FifoOut(O_Buffer))>>
<1>1. /\ Rings(W_Mem, W_TP, W_HPP, W_HPM, W_RoundP, W_RoundM)
      /\ Rings(I_Mem, I_TP, I_HPP, I_HPM, I_RoundP, I_RoundM)
      /\ O_Buffer.buf \in [Slots -> Data]
      /\ RingOK(O_Buffer.W, O_Buffer.R, O_Buffer.round)
  BY DEF IInv, W_Rings, I_Rings, O_Ring, Fifo, FifoOK
<1>2. /\ Occupancy(W_TP, W_HPM, W_RoundM) > 0
      /\ Occupancy(I_TP, I_HPM, I_RoundM) > 0
      /\ Occupancy(O_Buffer.W, O_Buffer.R, O_Buffer.round) > 0
  BY <1>1, Granted, SideFlags DEF FifoCount
<1>3. Head(W_Words.M) = W_Mem[W_HPM]
  BY <1>1, <1>2, HeadAtPointer DEF Rings, W_Words
<1>4. Head(I_Words.M) = I_Mem[I_HPM]
  BY <1>1, <1>2, HeadAtPointer DEF Rings, I_Words
<1>5. Head(FifoWords(O_Buffer)) = O_Buffer.buf[O_Buffer.R]
  BY <1>1, <1>2, HeadAtPointer DEF FifoWords
<1> QED BY <1>3, <1>4, <1>5
           DEF Cell!MACResult, Cell!cell, W_Buffer!DataOut2, I_Buffer!DataOut2,
               FifoOut

\* The pipelines of MAC_Pipeline.v move as one: a product meets the partial
\* output that was delayed as long, and NOPreg goes along with them.
LEMMA MACStep ==
    ASSUME IInv, NEW in \in Inputs, Clock(in)
    PROVE  MAC_Words' = Cell!Shifted(MAC_Words,
              IF Mac(in) THEN Cell!MACResult(Cell!cell) ELSE Cell!Nothing)
<1> DEFINE entry == IF Mac(in) THEN Cell!MACResult(Cell!cell) ELSE Cell!Nothing
           product == FPMUL(W_Buffer!DataOut2, I_Buffer!DataOut2)
<1>1. /\ MUL_Pipeline_Stages \in Nat /\ MUL_Pipeline_Stages >= 1
      /\ ADD_Pipeline_Stages \in Nat /\ ADD_Pipeline_Stages >= 1
      /\ Pipeline_Stages = MUL_Pipeline_Stages + ADD_Pipeline_Stages
  BY PEStagesAssumption DEF Pipeline_Stages
<1>2. /\ Mul' = Shift(MUL_Pipeline_Stages, Mul, product)
      /\ Delay' = Shift(MUL_Pipeline_Stages, Delay, FifoOut(O_Buffer))
      /\ Add' = Shift(ADD_Pipeline_Stages, Add,
                      FPADD(Mul[MUL_Pipeline_Stages], Delay[MUL_Pipeline_Stages]))
      /\ NOPreg' = Shift(Pipeline_Stages, NOPreg, NOPIn(in.or))
  BY ClockTerms DEF MAC_Unit
<1>3. Mac(in) \in BOOLEAN /\ (NOPIn(in.or) <=> ~Mac(in))
  BY DEF Mac, NOPIn
<1>4. Mac(in) => entry = <<FPADD(product, FifoOut(O_Buffer))>>
  BY HeadsMultiplied
<1> HIDE DEF entry, product
<1>5. \A k \in 1 .. Pipeline_Stages :
         MAC_Words'[k] = IF k = 1 THEN entry ELSE MAC_Words[k - 1]
  <2> SUFFICES ASSUME NEW k \in 1 .. Pipeline_Stages
               PROVE  MAC_Words'[k] = IF k = 1 THEN entry ELSE MAC_Words[k - 1]
    OBVIOUS
  <2>1. MAC_Words'[k] =
           IF NOPreg'[k] THEN << >>
           ELSE IF k <= MUL_Pipeline_Stages THEN <<FPADD(Mul'[k], Delay'[k])>>
                                            ELSE <<Add'[k - MUL_Pipeline_Stages]>>
    BY DEF MAC_Words
  <2>2. NOPreg'[k] = IF k = 1 THEN NOPIn(in.or) ELSE NOPreg[k - 1]
    BY <1>2 DEF Shift, Stages
  <2>3. CASE k = 1
    <3>1. /\ k <= MUL_Pipeline_Stages /\ k \in Stages(MUL_Pipeline_Stages)
      BY <1>1, <2>3 DEF Stages
    <3>2. Mul'[k] = product /\ Delay'[k] = FifoOut(O_Buffer)
      BY <1>2, <2>3, <3>1 DEF Shift
    <3> QED BY <1>3, <1>4, <2>1, <2>2, <2>3, <3>1, <3>2 DEF entry, Cell!Nothing
  <2>4. CASE k # 1 /\ k <= MUL_Pipeline_Stages
    <3>1. /\ k \in Stages(MUL_Pipeline_Stages)
          /\ k - 1 \in 1 .. Pipeline_Stages /\ k - 1 <= MUL_Pipeline_Stages
      BY <1>1, <2>4 DEF Stages
    <3>2. Mul'[k] = Mul[k - 1] /\ Delay'[k] = Delay[k - 1]
      BY <1>2, <2>4, <3>1 DEF Shift
    <3>3. MAC_Words[k - 1] = IF NOPreg[k - 1] THEN << >>
                             ELSE <<FPADD(Mul[k - 1], Delay[k - 1])>>
      BY <3>1 DEF MAC_Words
    <3> QED BY <2>1, <2>2, <2>4, <3>2, <3>3
  <2>5. CASE k = MUL_Pipeline_Stages + 1
    <3>1. /\ k - MUL_Pipeline_Stages = 1 /\ k - 1 = MUL_Pipeline_Stages
          /\ k # 1 /\ ~(k <= MUL_Pipeline_Stages)
          /\ k - 1 \in 1 .. Pipeline_Stages
          /\ 1 \in Stages(ADD_Pipeline_Stages)
      BY <1>1, <2>5 DEF Stages
    <3>2. Add'[1] = FPADD(Mul[k - 1], Delay[k - 1])
      BY <1>2, <3>1 DEF Shift
    <3>3. MAC_Words[k - 1] = IF NOPreg[k - 1] THEN << >>
                             ELSE <<FPADD(Mul[k - 1], Delay[k - 1])>>
      BY <1>1, <3>1 DEF MAC_Words
    <3> QED BY <2>1, <2>2, <3>1, <3>2, <3>3
  <2>6. CASE k > MUL_Pipeline_Stages + 1
    <3> DEFINE j == k - MUL_Pipeline_Stages
    <3>1. /\ j \in Stages(ADD_Pipeline_Stages) /\ j # 1
          /\ (k - 1) - MUL_Pipeline_Stages = j - 1
          /\ k # 1 /\ ~(k <= MUL_Pipeline_Stages)
          /\ k - 1 \in 1 .. Pipeline_Stages /\ ~(k - 1 <= MUL_Pipeline_Stages)
      BY <1>1, <2>6 DEF Stages
    <3>2. Add'[j] = Add[j - 1]
      BY <1>2, <3>1 DEF Shift
    <3>3. MAC_Words[k - 1] = IF NOPreg[k - 1] THEN << >> ELSE <<Add[j - 1]>>
      BY <3>1 DEF MAC_Words
    <3> QED BY <2>1, <2>2, <3>1, <3>2, <3>3
  <2> QED BY <1>1, <2>3, <2>4, <2>5, <2>6
<1>6. DOMAIN MAC_Words = 1 .. Pipeline_Stages
  BY DEF MAC_Words
<1>7. MAC_Words' = [k \in 1 .. Pipeline_Stages |-> MAC_Words'[k]]
  BY DEF MAC_Words
<1> QED BY <1>5, <1>6, <1>7 DEF Cell!Shifted, entry

\* A clock of the PE is a clock of the cell.
LEMMA ClockImplements ==
    ASSUME IInv, NEW in \in Inputs, Clock(in)
    PROVE  Cell!Clock
<1> DEFINE mac == Mac(in)
<1>1. mac \in BOOLEAN
  BY Granted
<1>2. mac => Cell!Issue(Cell!cell, TRUE)
  BY Requests DEF Cell!Issue, Cell!cell
<1>3. MAC_Words' = Cell!Shifted(MAC_Words,
         IF mac THEN Cell!MACResult(Cell!cell) ELSE Cell!Nothing)
  BY MACStep
<1>4. Cell!Side(W_Words, W_Words', mac)
  <2>1. Rings(W_Mem, W_TP, W_HPP, W_HPM, W_RoundP, W_RoundM)
    BY DEF IInv, W_Rings
  <2>2. /\ W_Words'.P = QueueStep(W_Words.P, WPush(in), in.w, WPop(in))
        /\ W_Words'.M = QueueStep(W_Words.M, WPush(in), in.w, mac)
    BY <2>1, Granted, ClockTerms, SideStep DEF W_Words
  <2>3. /\ W_Words = [P |-> W_Words.P, M |-> W_Words.M]
        /\ W_Words' = [P |-> W_Words'.P, M |-> W_Words'.M]
    BY DEF W_Words
  <2>4. in.wv \in BOOLEAN /\ in.wr \in BOOLEAN /\ in.w \in Data
    BY PEInputsAssumption
  <2>5. Cell!Side([P |-> W_Words.P, M |-> W_Words.M],
                  [P |-> QueueStep(W_Words.P, WPush(in), in.w, WPop(in)),
                   M |-> QueueStep(W_Words.M, WPush(in), in.w, mac)], mac)
    <3>1. W_Words.P \in Seq(Data) /\ W_Words.M \in Seq(Data)
      BY Queues
    <3>2. mac => W_Words.M # << >>
      BY Requests
    <3>3. /\ WPush(in) = (/\ Len(W_Words.P) < BufferSize
                         /\ Len(W_Words.M) < BufferSize /\ in.wv)
          /\ WPop(in) = (W_Words.P # << >> /\ in.wr)
      BY Requests
    <3> HIDE DEF mac
    <3> QED BY <1>1, <2>4, <3>1, <3>2, <3>3, SideImplements
  <2> QED BY <2>2, <2>3, <2>5
<1>5. Cell!Side(I_Words, I_Words', mac)
  <2>1. Rings(I_Mem, I_TP, I_HPP, I_HPM, I_RoundP, I_RoundM)
    BY DEF IInv, I_Rings
  <2>2. /\ I_Words'.P = QueueStep(I_Words.P, IPush(in), in.i, IPop(in))
        /\ I_Words'.M = QueueStep(I_Words.M, IPush(in), in.i, mac)
    BY <2>1, Granted, ClockTerms, SideStep DEF I_Words
  <2>3. /\ I_Words = [P |-> I_Words.P, M |-> I_Words.M]
        /\ I_Words' = [P |-> I_Words'.P, M |-> I_Words'.M]
    BY DEF I_Words
  <2>4. in.iv \in BOOLEAN /\ in.ir \in BOOLEAN /\ in.i \in Data
    BY PEInputsAssumption
  <2>5. Cell!Side([P |-> I_Words.P, M |-> I_Words.M],
                  [P |-> QueueStep(I_Words.P, IPush(in), in.i, IPop(in)),
                   M |-> QueueStep(I_Words.M, IPush(in), in.i, mac)], mac)
    <3>1. I_Words.P \in Seq(Data) /\ I_Words.M \in Seq(Data)
      BY Queues
    <3>2. mac => I_Words.M # << >>
      BY Requests
    <3>3. /\ IPush(in) = (/\ Len(I_Words.P) < BufferSize
                         /\ Len(I_Words.M) < BufferSize /\ in.iv)
          /\ IPop(in) = (I_Words.P # << >> /\ in.ir)
      BY Requests
    <3> HIDE DEF mac
    <3> QED BY <1>1, <2>4, <3>1, <3>2, <3>3, SideImplements
  <2> QED BY <2>2, <2>3, <2>5
<1>6. \E offer \in Cell!Offers :
         FifoWords(O_Buffer)' =
            Cell!Step(FifoWords(O_Buffer),
                      IF Cell!O_DataInRdy(Cell!cell) THEN offer ELSE Cell!Nothing,
                      mac)
  <2> DEFINE offer == IF in.ov THEN <<in.o>> ELSE Cell!Nothing
             q == FifoWords(O_Buffer)
  <2>1. in.ov \in BOOLEAN /\ in.o \in Data
    BY PEInputsAssumption
  <2>2. offer \in Cell!Offers
    BY <2>1 DEF Cell!Offers
  <2>3. FifoWords(O_Buffer)' = QueueStep(q, OPush(in), in.o, mac)
    BY Granted, ClockTerms, FifoQueue DEF IInv, O_Ring
  <2>4. QueueStep(q, OPush(in), in.o, mac) =
           Cell!Step(q, IF OPush(in) THEN <<in.o>> ELSE Cell!Nothing, mac)
    BY <1>1, <2>1, Queues, Requests, Granted, QueueSteps
  <2>5. (IF OPush(in) THEN <<in.o>> ELSE Cell!Nothing) =
           IF Cell!O_DataInRdy(Cell!cell) THEN offer ELSE Cell!Nothing
    BY <2>1, Requests DEF Cell!O_DataInRdy, Cell!cell
  <2> HIDE DEF offer, q
  <2> QED BY <2>2, <2>3, <2>4, <2>5 DEF q
<1> HIDE DEF mac
<1> QED BY <1>1, <1>2, <1>3, <1>4, <1>5, <1>6 DEF Cell!Clock

LEMMA InitImplements == Init => Cell!Init
<1> SUFFICES ASSUME Init PROVE Cell!Init
  OBVIOUS
<1>1. W_Words = [P |-> << >>, M |-> << >>] /\ I_Words = [P |-> << >>, M |-> << >>]
  BY FreshQueues, Empties DEF Init, W_Buffer!Init, I_Buffer!Init, W_Words, I_Words
<1>2. FifoWords(O_Buffer) = << >>
  BY FreshQueues DEF Init
<1>3. MAC_Words = [k \in 1 .. Pipeline_Stages |-> << >>]
  BY DEF Init, MAC_Words, Stages
<1> QED BY <1>1, <1>2, <1>3
           DEF Cell!Init, Cell!SideReset, Cell!Pipe, Cell!Nothing

LEMMA ResetImplements == Reset => Cell!Reset
<1> SUFFICES ASSUME Reset PROVE Cell!Reset
  OBVIOUS
<1>1. W_Words' = [P |-> << >>, M |-> << >>] /\ I_Words' = [P |-> << >>, M |-> << >>]
  BY FreshQueues, Empties
     DEF Reset, W_Buffer!Reset, I_Buffer!Reset, W_Words, I_Words
<1>2. FifoWords(O_Buffer)' = << >>
  BY FreshQueues DEF Reset
<1>3. MAC_Words' = [k \in 1 .. Pipeline_Stages |-> << >>]
  BY DEF Reset, MAC_Words, Stages
<1> QED BY <1>1, <1>2, <1>3
           DEF Cell!Reset, Cell!SideReset, Cell!Pipe, Cell!Nothing

\* Every step of the PE is a step of the cell or leaves it as it is.
LEMMA NextImplements ==
    IInv /\ [Next]_vars =>
        [Cell!Next]_<<W_Words, I_Words, FifoWords(O_Buffer), MAC_Words>>
<1> SUFFICES ASSUME IInv, [Next]_vars
             PROVE  [Cell!Next]_<<W_Words, I_Words, FifoWords(O_Buffer), MAC_Words>>
  OBVIOUS
<1>1. CASE \E in \in Inputs : Clock(in)
  BY <1>1, ClockImplements DEF Cell!Next
<1>2. CASE Reset
  BY <1>2, ResetImplements DEF Cell!Next
<1>3. CASE UNCHANGED vars
  BY <1>3 DEF vars, W_Regs, I_Regs, W_Words, I_Words, MAC_Words, FifoWords
<1> QED BY <1>1, <1>2, <1>3 DEF Next

\* The registers of PE.v implement the queues of the cell: words are taken in
\* threes, in order, none twice and none lost, for every size and latency.
THEOREM PE_ImplementsCell == Spec => ImplementsCell
BY InitIInv, NextIInv, InitImplements, NextImplements, PTL
   DEF Spec, ImplementsCell, Cell!Spec
=============================================================================

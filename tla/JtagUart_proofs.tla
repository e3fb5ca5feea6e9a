-------------------------- MODULE JtagUart_proofs --------------------------
(***************************************************************************)
(* For every length of the rings, depth of the FIFOs, threshold, timeout   *)
(* and call: neither direction of the UART goes to sleep, and driver and   *)
(* core together are a queue of characters each way (SerialPort).  The     *)
(* first part has the invariant of the interrupts, the second reads a ring *)
(* as a sequence, the third has the invariant of the two streams and the   *)
(* step of each action.                                                    *)
(***************************************************************************)
EXTENDS JtagUart, SequenceTheorems, TLAPS

-----------------------------------------------------------------------------
(* The inductive invariant *)

\* What the records are made of.
Shapes ==
    /\ sp = [timeout |-> sp.timeout, irq_enable |-> sp.irq_enable,
             host_inactive |-> sp.host_inactive,
             rx_in |-> sp.rx_in, rx_out |-> sp.rx_out,
             tx_in |-> sp.tx_in, tx_out |-> sp.tx_out,
             rx_buf |-> sp.rx_buf, tx_buf |-> sp.tx_buf]
    /\ call = [op |-> call.op, pc |-> call.pc, count |-> call.count,
               nonblock |-> call.nonblock, done |-> call.done, in |-> call.in,
               out |-> call.out, n |-> call.n, got |-> call.got]
    /\ isr = [pc |-> isr.pc, wi |-> isr.wi, space |-> isr.space, avail |-> isr.avail]

\* A read call that copies has something to copy, and no more than it may.
Copies ==
    /\ call.op = "read" => call.count \in Nat /\ call.done \in Nat
    /\ call.op = "read" /\ call.pc = "copy" =>
         call.n \in 1..call.count /\ call.out \in Slots

IInv ==
    /\ Shapes /\ Copies
    /\ sp.rx_in \in Slots /\ sp.rx_out \in Slots
    /\ InterruptsResume

LEMMA InitIInv == Init => IInv
<1> SUFFICES ASSUME Init PROVE IInv
  OBVIOUS
<1>1. 0 \in Slots
  BY SizesAssumption DEF Slots
<1>2. sp.rx_in = 0 /\ sp.rx_out = 0 /\ sp.tx_in = 0 /\ sp.tx_out = 0
      /\ sp.irq_enable = {"RE"}
  BY DEF Init
<1>3. call.count = 0 /\ call.done = 0 /\ call.op = "none"
  BY DEF Init, Idle
<1>4. Shapes
  BY DEF Init, Shapes, Idle, Off
<1> QED BY <1>1, <1>2, <1>3, <1>4 DEF IInv, Copies, InterruptsResume, Drained

-----------------------------------------------------------------------------
(* The rings *)

LEMMA ModInSlots == \A i \in Int : i % BUF_LEN \in Slots
BY SizesAssumption DEF Slots

\* A full ring is not an empty one.
LEMMA FullHasSome ==
    ASSUME sp.rx_in \in Slots, RxFull
    PROVE  sp.rx_in # sp.rx_out
<1>1. CASE sp.rx_in + 1 = BUF_LEN
  <2>1. (sp.rx_in + 1) % BUF_LEN = 0
    BY <1>1, SizesAssumption DEF Slots
  <2> QED BY <1>1, <2>1, SizesAssumption DEF RxFull, Slots
<1>2. CASE sp.rx_in + 1 # BUF_LEN
  <2>1. (sp.rx_in + 1) % BUF_LEN = sp.rx_in + 1
    BY <1>2, SizesAssumption DEF Slots
  <2> QED BY <2>1 DEF RxFull, Slots
<1> QED BY <1>1, <1>2

-----------------------------------------------------------------------------
(* Steps of the thread *)

CallShape(c) ==
    c = [op |-> c.op, pc |-> c.pc, count |-> c.count, nonblock |-> c.nonblock,
         done |-> c.done, in |-> c.in, out |-> c.out, n |-> c.n, got |-> c.got]

\* A step that moves the thread on and leaves the driver's state alone.
LEMMA CallStep ==
    ASSUME IInv, UNCHANGED <<sp, isr>>, CallShape(call'), Copies',
           call.op = "read" /\ call.done # 0 => call'.op = "read" /\ call'.done # 0,
           call.op = "write" /\ call.pc \in {"look", "copy", "enable"} =>
             call'.op = "write" /\ call'.pc \in {"look", "copy", "enable"}
    PROVE  IInv'
BY DEF IInv, Shapes, CallShape, InterruptsResume, Drained, Slots

LEMMA BeginIInv == ASSUME IInv, Begin PROVE IInv'
<1>1. PICK op \in {"write", "read", "close"}, count \in 0..MaxCount, nonblock \in BOOLEAN :
        call' = [Idle EXCEPT !.op = op, !.pc = "look", !.count = count, !.nonblock = nonblock]
  BY DEF Begin
<1>2. call' = [op |-> op, pc |-> "look", count |-> count, nonblock |-> nonblock,
               done |-> 0, in |-> 0, out |-> 0, n |-> 0, got |-> <<>>]
  BY <1>1 DEF Idle
<1>3. CallShape(call') /\ Copies'
  BY <1>2, SizesAssumption DEF CallShape, Copies
<1>4. UNCHANGED <<sp, isr>> /\ call.op = "none"
  BY DEF Begin, At
<1> QED BY <1>3, <1>4, CallStep

\* A step to another point of the same call, between which no counter moves.
LEMMA GoOn ==
    ASSUME IInv, UNCHANGED <<sp, isr>>, CallShape(call'),
           call'.op = call.op, call'.done = call.done, call'.count = call.count,
           call.op = "read" /\ call'.pc = "copy" =>
             call'.n \in 1..call.count /\ call'.out \in Slots,
           call.op = "write" /\ call.pc \in {"look", "copy", "enable"} =>
             call'.pc \in {"look", "copy", "enable"}
    PROVE  IInv'
<1>1. Copies'
  BY DEF IInv, Copies, Slots
<1> QED BY <1>1, CallStep

LEMMA WriteSteps ==
    ASSUME IInv, WriteLook \/ WriteWait \/ WriteCheck \/ WriteReturn \/ CloseReturn
    PROVE  IInv'
<1>1. UNCHANGED <<sp, isr>>
  BY DEF WriteLook, WriteWait, WriteCheck, WriteReturn, CloseReturn
<1>2. CASE WriteLook
  <2>1. call.op = "write" /\ CallShape(call)
    BY <1>2 DEF WriteLook, At, IInv, Shapes, CallShape
  <2>2. \/ call' = [call EXCEPT !.pc = "enable"]
        \/ call' = [call EXCEPT !.pc = "enable", !.out = sp.tx_out]
        \/ \E n : call' = [call EXCEPT !.pc = "copy", !.in = sp.tx_in, !.n = n]
    BY <1>2 DEF WriteLook
  <2>3. CallShape(call') /\ call'.op = call.op /\ call'.done = call.done
        /\ call'.count = call.count /\ call'.pc \in {"enable", "copy"}
    BY <2>1, <2>2 DEF CallShape
  <2> QED BY <1>1, <2>1, <2>3, GoOn
<1>3. CASE WriteWait \/ WriteCheck
  <2>1. call.op = "write" /\ CallShape(call) /\ call.pc \in {"wait", "check"}
    BY <1>3 DEF WriteWait, WriteCheck, At, IInv, Shapes, CallShape
  <2>2. \E pc : call' = [call EXCEPT !.pc = pc]
    BY <1>3 DEF WriteWait, WriteCheck
  <2>3. CallShape(call') /\ call'.op = call.op /\ call'.done = call.done
        /\ call'.count = call.count
    BY <2>1, <2>2 DEF CallShape
  <2> QED BY <1>1, <2>1, <2>3, GoOn
<1>4. CASE WriteReturn \/ CloseReturn
  <2>1. call.op # "read" /\ ~(call.op = "write" /\ call.pc \in {"look", "copy", "enable"})
    BY <1>4 DEF WriteReturn, CloseReturn, At
  <2>2. CallShape(call') /\ Copies'
    BY <1>4 DEF WriteReturn, CloseReturn, Idle, CallShape, Copies
  <2> QED BY <1>1, <2>1, <2>2, CallStep
<1> QED BY <1>2, <1>3, <1>4

LEMMA WriteCopyIInv == ASSUME IInv, WriteCopy PROVE IInv'
<1>1. \E buf, in : sp' = [sp EXCEPT !.tx_buf = buf, !.tx_in = in]
  BY DEF WriteCopy
<1>2. PICK buf, in :
        sp' = [timeout |-> sp.timeout, irq_enable |-> sp.irq_enable,
               host_inactive |-> sp.host_inactive,
               rx_in |-> sp.rx_in, rx_out |-> sp.rx_out,
               tx_in |-> in, tx_out |-> sp.tx_out,
               rx_buf |-> sp.rx_buf, tx_buf |-> buf]
  BY <1>1 DEF IInv, Shapes
<1>3. call.op = "write" /\ CallShape(call)
  BY DEF WriteCopy, At, IInv, Shapes, CallShape
<1>4. \E d, c : call' = [call EXCEPT !.pc = "look", !.done = d, !.count = c, !.in = 0, !.n = 0]
  BY DEF WriteCopy
<1>5. CallShape(call') /\ call'.op = "write" /\ call'.pc = "look"
  BY <1>3, <1>4 DEF CallShape
<1>6. isr' = isr
  BY DEF WriteCopy
<1> QED BY <1>2, <1>3, <1>5, <1>6 DEF IInv, Shapes, CallShape, Copies, InterruptsResume, Slots

LEMMA WriteEnableIInv == ASSUME IInv, WriteEnable PROVE IInv'
<1>1. sp' = [timeout |-> sp.timeout, irq_enable |-> sp.irq_enable \cup {"WE"},
             host_inactive |-> sp.host_inactive,
             rx_in |-> sp.rx_in, rx_out |-> sp.rx_out,
             tx_in |-> sp.tx_in, tx_out |-> sp.tx_out,
             rx_buf |-> sp.rx_buf, tx_buf |-> sp.tx_buf]
  BY DEF WriteEnable, IInv, Shapes
<1>2. call.op = "write" /\ CallShape(call)
  BY DEF WriteEnable, At, IInv, Shapes, CallShape
<1>3. \E pc : call' = [call EXCEPT !.pc = pc]
  BY DEF WriteEnable
<1>4. CallShape(call') /\ call'.op = "write"
  BY <1>2, <1>3 DEF CallShape
<1>5. isr' = isr
  BY DEF WriteEnable
<1> QED BY <1>1, <1>2, <1>4, <1>5
        DEF IInv, Shapes, CallShape, Copies, InterruptsResume, Slots

LEMMA ReadSteps ==
    ASSUME IInv, ReadLook \/ ReadWait \/ ReadCheck PROVE IInv'
<1>1. UNCHANGED <<sp, isr>> /\ call.op = "read" /\ CallShape(call)
  BY DEF ReadLook, ReadWait, ReadCheck, At, IInv, Shapes, CallShape
<1>2. CASE ReadLook
  <2> DEFINE run == ReadRun(sp.rx_in, sp.rx_out)
             n == Least(run, call.count)
  <2>1. run \in Nat /\ call.count \in Nat
    BY <1>1, SizesAssumption DEF IInv, Copies, ReadRun, Slots
  <2>2. call.count # 0 /\ run # 0 => n \in 1..call.count
    BY <2>1 DEF Least
  <2>3. \/ call.count # 0 /\ run # 0
           /\ call' = [call EXCEPT !.pc = "copy", !.out = sp.rx_out, !.n = n]
        \/ call' = [call EXCEPT !.pc = "return"]
        \/ call' = [call EXCEPT !.pc = "wait", !.in = sp.rx_in]
    BY <1>2 DEF ReadLook
  <2> HIDE DEF run, n
  <2>4. CASE call.count # 0 /\ run # 0
             /\ call' = [call EXCEPT !.pc = "copy", !.out = sp.rx_out, !.n = n]
    <3>1. CallShape(call') /\ call'.op = call.op /\ call'.done = call.done
          /\ call'.count = call.count /\ call'.n = n /\ call'.out = sp.rx_out
      BY <1>1, <2>4 DEF CallShape
    <3>2. sp.rx_out \in Slots
      BY DEF IInv
    <3> QED BY <1>1, <2>2, <2>4, <3>1, <3>2, GoOn
  <2>5. ASSUME NEW pc \in {"return", "wait"}, NEW in,
               \/ call' = [call EXCEPT !.pc = pc]
               \/ call' = [call EXCEPT !.pc = pc, !.in = in]
        PROVE  IInv'
    <3>1. CallShape(call') /\ call'.op = call.op /\ call'.done = call.done
          /\ call'.count = call.count /\ call'.pc = pc
      BY <1>1, <2>5 DEF CallShape
    <3>2. pc # "copy" /\ call.op # "write"
      BY <1>1
    <3> QED BY <1>1, <3>1, <3>2, GoOn
  <2> QED BY <2>3, <2>4, <2>5
<1>3. CASE ReadWait \/ ReadCheck
  <2>1. \E pc \in {"check", "return", "look"} : call' = [call EXCEPT !.pc = pc]
    BY <1>3 DEF ReadWait, ReadCheck
  <2>2. CallShape(call') /\ call'.op = call.op /\ call'.done = call.done
        /\ call'.count = call.count /\ call'.pc # "copy"
    BY <1>1, <2>1 DEF CallShape
  <2> QED BY <1>1, <2>2, GoOn
<1> QED BY <1>2, <1>3

\* What has been read lets the receive interrupt wait until the call returns.
LEMMA ReadCopyIInv == ASSUME IInv, ReadCopy PROVE IInv'
<1>1. call.op = "read" /\ call.pc = "copy" /\ CallShape(call) /\ isr' = isr
  BY DEF ReadCopy, At, IInv, Shapes, CallShape
<1>2. call.count \in Nat /\ call.done \in Nat /\ call.n \in 1..call.count /\ call.out \in Slots
  BY <1>1 DEF IInv, Copies
<1>3. sp' = [timeout |-> sp.timeout, irq_enable |-> sp.irq_enable,
             host_inactive |-> sp.host_inactive,
             rx_in |-> sp.rx_in, rx_out |-> (call.out + call.n) % BUF_LEN,
             tx_in |-> sp.tx_in, tx_out |-> sp.tx_out,
             rx_buf |-> sp.rx_buf, tx_buf |-> sp.tx_buf]
  BY DEF ReadCopy, IInv, Shapes
<1>4. (call.out + call.n) % BUF_LEN \in Slots
  BY <1>2, ModInSlots DEF Slots
<1>5. \E pc \in {"return", "look"} : \E got :
        call' = [call EXCEPT !.pc = pc, !.done = call.done + call.n,
                             !.count = call.count - call.n, !.out = 0, !.n = 0, !.got = got]
  BY DEF ReadCopy
<1>6. CallShape(call') /\ call'.op = "read" /\ call'.pc # "copy"
      /\ call'.done = call.done + call.n /\ call'.count = call.count - call.n
  BY <1>1, <1>5 DEF CallShape
<1>7. call'.done \in Nat /\ call'.done # 0 /\ call'.count \in Nat
  BY <1>2, <1>6
<1> QED BY <1>1, <1>3, <1>4, <1>6, <1>7
        DEF IInv, Shapes, CallShape, Copies, InterruptsResume, Slots, Drained

LEMMA ReadReturnIInv == ASSUME IInv, ReadReturn PROVE IInv'
<1>1. call.op = "read" /\ isr' = isr /\ call' = Idle
  BY DEF ReadReturn, At
<1>2. CallShape(call') /\ Copies'
  BY <1>1 DEF Idle, CallShape, Copies
<1>3. CASE call.done = 0
  <2>1. sp' = sp
    BY <1>3 DEF ReadReturn
  <2> QED BY <1>1, <1>2, <1>3, <2>1, CallStep
<1>4. CASE call.done # 0
  <2>1. sp' = [timeout |-> sp.timeout, irq_enable |-> sp.irq_enable \cup {"RE"},
               host_inactive |-> sp.host_inactive,
               rx_in |-> sp.rx_in, rx_out |-> sp.rx_out,
               tx_in |-> sp.tx_in, tx_out |-> sp.tx_out,
               rx_buf |-> sp.rx_buf, tx_buf |-> sp.tx_buf]
    BY <1>4 DEF ReadReturn, IInv, Shapes
  <2> QED BY <1>1, <1>2, <2>1 DEF IInv, Shapes, CallShape, InterruptsResume, Slots, Drained
<1> QED BY <1>3, <1>4

-----------------------------------------------------------------------------
(* The interrupt routine, the tick and the host *)

\* A step after which the driver's state is as before, but for what is named.
Driver(irqs, inactive, in, out, rx, timeout) ==
    [timeout |-> timeout, irq_enable |-> irqs, host_inactive |-> inactive,
     rx_in |-> in, rx_out |-> sp.rx_out, tx_in |-> sp.tx_in, tx_out |-> out,
     rx_buf |-> rx, tx_buf |-> sp.tx_buf]

IsrShape(i) == i = [pc |-> i.pc, wi |-> i.wi, space |-> i.space, avail |-> i.avail]

\* Neither the ring pointers nor the enabled interrupts change.
LEMMA Elsewhere ==
    ASSUME IInv, call' = call, IsrShape(isr'),
           \/ sp' = sp
           \/ \E timeout : sp' = [sp EXCEPT !.timeout = timeout]
           \/ \E inactive : sp' = [sp EXCEPT !.host_inactive = inactive]
    PROVE  IInv'
<1>1. \E timeout, inactive :
        sp' = Driver(sp.irq_enable, inactive, sp.rx_in, sp.tx_out, sp.rx_buf, timeout)
  BY DEF IInv, Shapes, Driver
<1> QED BY <1>1 DEF IInv, Shapes, IsrShape, Copies, InterruptsResume, Slots, Drained, Driver

LEMMA OtherSteps ==
    ASSUME IInv, \/ SetTimeout \/ TimeoutTick \/ IsrControl
                 \/ HostSends \/ HostPolls \/ HostTakes
    PROVE  IInv'
<1>1. call' = call
  BY DEF SetTimeout, TimeoutTick, IsrControl, HostSends, HostPolls, HostTakes
<1>2. IsrShape(isr')
  BY DEF SetTimeout, TimeoutTick, IsrControl, HostSends, HostPolls, HostTakes,
         IInv, Shapes, IsrShape, Off
<1>3. \/ sp' = sp
      \/ \E timeout : sp' = [sp EXCEPT !.timeout = timeout]
      \/ \E inactive : sp' = [sp EXCEPT !.host_inactive = inactive]
  <2>1. CASE SetTimeout
    BY <2>1 DEF SetTimeout
  <2>2. CASE TimeoutTick
    BY <2>2 DEF TimeoutTick
  <2>3. CASE IsrControl \/ HostSends \/ HostPolls \/ HostTakes
    BY <2>3 DEF IsrControl, HostSends, HostPolls, HostTakes
  <2> QED BY <2>1, <2>2, <2>3
<1> QED BY <1>1, <1>2, <1>3, Elsewhere

LEMMA IsrReadIInv == ASSUME IInv, IsrRead PROVE IInv'
<1>1. call' = call /\ ~RxFull
  BY DEF IsrRead
<1>2. \E rx : sp' = Driver(sp.irq_enable, sp.host_inactive, (sp.rx_in + 1) % BUF_LEN,
                           sp.tx_out, rx, sp.timeout)
  <2>1. \E rx : sp' = [sp EXCEPT !.rx_buf = rx, !.rx_in = (sp.rx_in + 1) % BUF_LEN]
    BY DEF IsrRead
  <2> QED BY <2>1 DEF IInv, Shapes, Driver
<1>3. \E a : isr' = [isr EXCEPT !.avail = a]
  BY DEF IsrRead
<1>4. IsrShape(isr')
  BY <1>3 DEF IInv, Shapes, IsrShape
<1>5. (sp.rx_in + 1) % BUF_LEN \in Slots
  BY ModInSlots DEF IInv, Slots
<1> QED BY <1>1, <1>2, <1>4, <1>5
        DEF IInv, Shapes, IsrShape, Copies, InterruptsResume, Slots, Drained, Driver, RxFull

LEMMA IsrReadEndIInv == ASSUME IInv, IsrReadEnd PROVE IInv'
<1>1. call' = call
  BY DEF IsrReadEnd
<1>2. \E pc : isr' = [isr EXCEPT !.pc = pc, !.avail = FALSE]
  BY DEF IsrReadEnd
<1>3. IsrShape(isr')
  BY <1>2 DEF IInv, Shapes, IsrShape
<1>4. CASE sp' = sp
  BY <1>1, <1>3, <1>4, Elsewhere
<1>5. CASE RxFull /\ sp' = [sp EXCEPT !.irq_enable = @ \ {"RE"}]
  <2>1. sp' = Driver(sp.irq_enable \ {"RE"}, sp.host_inactive, sp.rx_in, sp.tx_out,
                     sp.rx_buf, sp.timeout)
    BY <1>5 DEF IInv, Shapes, Driver
  <2>2. sp.rx_in # sp.rx_out
    BY <1>5, FullHasSome DEF IInv
  <2> QED BY <1>1, <1>3, <2>1, <2>2
          DEF IInv, Shapes, IsrShape, Copies, InterruptsResume, Slots, Drained, Driver
<1> QED BY <1>4, <1>5 DEF IsrReadEnd

LEMMA IsrWriteIInv == ASSUME IInv, IsrWrite PROVE IInv'
<1>1. call' = call /\ ~Drained
  BY DEF IsrWrite
<1>2. \E out : sp' = Driver(sp.irq_enable, sp.host_inactive, sp.rx_in, out,
                            sp.rx_buf, sp.timeout)
  <2>1. \E out : sp' = [sp EXCEPT !.tx_out = out]
    BY DEF IsrWrite
  <2> QED BY <2>1 DEF IInv, Shapes, Driver
<1>3. \E n : isr' = [isr EXCEPT !.space = n]
  BY DEF IsrWrite
<1>4. IsrShape(isr')
  BY <1>3 DEF IInv, Shapes, IsrShape
<1> QED BY <1>1, <1>2, <1>4
        DEF IInv, Shapes, IsrShape, Copies, InterruptsResume, Slots, Driver

\* The transmit interrupt is turned off when the ring is empty.
LEMMA IsrWriteEndIInv == ASSUME IInv, IsrWriteEnd PROVE IInv'
<1>1. call' = call
  BY DEF IsrWriteEnd
<1>2. isr' = [isr EXCEPT !.pc = "control", !.wi = FALSE, !.space = 0]
  BY DEF IsrWriteEnd
<1>3. IsrShape(isr')
  BY <1>2 DEF IInv, Shapes, IsrShape
<1>4. CASE sp' = sp
  BY <1>1, <1>3, <1>4, Elsewhere
<1>5. CASE isr.space > 0 /\ sp' = [sp EXCEPT !.irq_enable = @ \ {"WE"}]
  <2>1. sp' = Driver(sp.irq_enable \ {"WE"}, sp.host_inactive, sp.rx_in, sp.tx_out,
                     sp.rx_buf, sp.timeout)
    BY <1>5 DEF IInv, Shapes, Driver
  <2>2. Drained
    BY <1>5 DEF IsrWriteEnd
  <2> QED BY <1>1, <1>3, <2>1, <2>2
          DEF IInv, Shapes, IsrShape, Copies, InterruptsResume, Slots, Drained, Driver
<1> QED BY <1>4, <1>5 DEF IsrWriteEnd

LEMMA NextIInv == ASSUME IInv, [Next]_vars PROVE IInv'
<1>1. CASE UNCHANGED vars
  BY <1>1 DEF vars, IInv, Shapes, Copies, InterruptsResume, Slots, Drained
<1>2. CASE Begin
  BY <1>2, BeginIInv
<1>3. CASE SetTimeout \/ TimeoutTick \/ HostSends \/ HostPolls \/ HostTakes
  BY <1>3, OtherSteps
<1>4. CASE Thread
  BY <1>4, WriteSteps, WriteCopyIInv, WriteEnableIInv, ReadSteps, ReadCopyIInv,
     ReadReturnIInv DEF Thread
<1>5. CASE Isr
  BY <1>5, OtherSteps, IsrReadIInv, IsrReadEndIInv, IsrWriteIInv, IsrWriteEndIInv DEF Isr
<1> QED BY <1>1, <1>2, <1>3, <1>4, <1>5 DEF Next

-----------------------------------------------------------------------------
(* Characters in a ring *)

Used(in, out) == (in + BUF_LEN - out) % BUF_LEN

\* The n characters from one slot on.
Piece(buf, from, n) == [i \in 1..n |-> buf[from + i - 1]]

SlotAt(k) == IF k < BUF_LEN THEN k ELSE k - BUF_LEN

\* % BUF_LEN of what is less than two rings takes one ring off at most.
LEMMA ModOnce ==
    ASSUME NEW x \in 0..(2 * BUF_LEN - 1)
    PROVE  x % BUF_LEN = SlotAt(x) /\ SlotAt(x) \in Slots
<1>1. CASE x < BUF_LEN
  BY <1>1, SizesAssumption DEF SlotAt, Slots
<1>2. CASE x >= BUF_LEN
  BY <1>2, SizesAssumption DEF SlotAt, Slots
<1> QED BY <1>1, <1>2, SizesAssumption

\* How many characters a ring holds, without the %.
LEMMA UsedIs ==
    ASSUME NEW in \in Slots, NEW out \in Slots
    PROVE  /\ Used(in, out) = IF in >= out THEN in - out ELSE in + BUF_LEN - out
           /\ Used(in, out) \in Slots /\ Used(in, out) \in Nat
<1>1. in + BUF_LEN - out \in 0..(2 * BUF_LEN - 1)
  BY SizesAssumption DEF Slots
<1>2. Used(in, out) = SlotAt(in + BUF_LEN - out)
  BY <1>1, ModOnce DEF Used
<1> QED BY <1>2, SizesAssumption DEF Slots, SlotAt

\* The slots of the characters a ring holds.
LEMMA SlotsOfRing ==
    ASSUME NEW in \in Slots, NEW out \in Slots, NEW i \in 1..Used(in, out)
    PROVE  /\ (out + i - 1) % BUF_LEN = SlotAt(out + i - 1)
           /\ SlotAt(out + i - 1) \in Slots
<1>1. out + i - 1 \in 0..(2 * BUF_LEN - 1)
  BY UsedIs, SizesAssumption DEF Slots
<1> QED BY <1>1, ModOnce

\* The sequence a ring stands for, without the %.
LEMMA RingIs ==
    ASSUME NEW in \in Slots, NEW out \in Slots, NEW buf
    PROVE  RingOf(buf, in, out) = [i \in 1..Used(in, out) |-> buf[SlotAt(out + i - 1)]]
<1>1. \A i \in 1..Used(in, out) : (out + i - 1) % BUF_LEN = SlotAt(out + i - 1)
  BY SlotsOfRing
<1> QED BY <1>1 DEF RingOf, Used

LEMMA RingAt ==
    ASSUME NEW in \in Slots, NEW out \in Slots, NEW buf, NEW i \in 1..Used(in, out)
    PROVE  RingOf(buf, in, out)[i] = buf[SlotAt(out + i - 1)]
<1>1. RingOf(buf, in, out) = [j \in 1..Used(in, out) |-> buf[SlotAt(out + j - 1)]]
  BY RingIs
<1> QED BY <1>1

\* The characters of a ring are a sequence as long as the ring says.
LEMMA RingSeq ==
    ASSUME NEW in \in Slots, NEW out \in Slots, NEW buf \in [Slots -> Numbers]
    PROVE  /\ RingOf(buf, in, out) \in Seq(Numbers)
           /\ Len(RingOf(buf, in, out)) = Used(in, out)
<1>1. Used(in, out) \in Nat
  BY UsedIs
<1>2. \A i \in 1..Used(in, out) : buf[SlotAt(out + i - 1)] \in Numbers
  BY SlotsOfRing
<1>3. RingOf(buf, in, out) \in [1..Used(in, out) -> Numbers]
  BY <1>2, RingIs
<1> QED BY <1>1, <1>3

\* Characters put behind the last one.
LEMMA RingAppend ==
    ASSUME NEW in \in Slots, NEW out \in Slots, NEW n \in Nat,
           NEW buf \in [Slots -> Numbers], NEW new \in [Slots -> Numbers],
           in + n <= BUF_LEN, Used(in, out) + n <= BUF_LEN - 1,
           \A s \in Slots : s \notin in..(in + n - 1) => new[s] = buf[s]
    PROVE  /\ (in + n) % BUF_LEN \in Slots
           /\ Used((in + n) % BUF_LEN, out) = Used(in, out) + n
           /\ RingOf(new, (in + n) % BUF_LEN, out) =
                RingOf(buf, in, out) \o Piece(new, in, n)
<1> DEFINE in2 == (in + n) % BUF_LEN
           Old == RingOf(buf, in, out)
           More == Piece(new, in, n)
           New == RingOf(new, in2, out)
<1>1. in2 = SlotAt(in + n) /\ in2 \in Slots
  <2>1. in + n \in 0..(2 * BUF_LEN - 1)
    BY SizesAssumption DEF Slots
  <2> QED BY <2>1, ModOnce
<1>2. in2 = IF in + n < BUF_LEN THEN in + n ELSE 0
  BY <1>1, SizesAssumption DEF Slots, SlotAt
<1> HIDE DEF in2
<1>3. Used(in2, out) = Used(in, out) + n
  <2>1. Used(in2, out) = IF in2 >= out THEN in2 - out ELSE in2 + BUF_LEN - out
    BY <1>1, UsedIs
  <2>2. Used(in, out) = IF in >= out THEN in - out ELSE in + BUF_LEN - out
    BY UsedIs
  <2>3. Used(in, out) + n <= BUF_LEN - 1
    OBVIOUS
  <2> QED BY <1>1, <1>2, <2>1, <2>2, <2>3, SizesAssumption DEF Slots
<1>4. Old \in Seq(Numbers) /\ Len(Old) = Used(in, out) /\ New \in Seq(Numbers) /\ Len(New) = Used(in, out) + n
  BY <1>1, <1>3, RingSeq
<1>5. More \in Seq(Numbers) /\ Len(More) = n
  <2>1. \A i \in 1..n : in + i - 1 \in Slots
    BY SizesAssumption DEF Slots
  <2>2. More \in [1..n -> Numbers]
    BY <2>1 DEF Piece
  <2> QED BY <2>2
<1>6. ASSUME NEW i \in 1..(Used(in, out) + n)
      PROVE  New[i] = (Old \o More)[i]
  <2> DEFINE slot == SlotAt(out + i - 1)
             u == Used(in, out)
  <2>1. /\ u \in Slots
        /\ u = IF in >= out THEN in - out ELSE in + BUF_LEN - out
    BY UsedIs
  <2>2. u \in Nat /\ BUF_LEN \in Nat /\ in \in Nat /\ out \in Nat /\ i \in 1..(u + n)
        /\ in < BUF_LEN /\ out < BUF_LEN /\ in + n <= BUF_LEN /\ u + n <= BUF_LEN - 1
    BY <2>1, SizesAssumption DEF Slots
  <2> HIDE DEF u, Old, More
  <2>3. New[i] = new[slot]
    <3>1. i \in 1..Used(in2, out)
      BY <1>3 DEF u
    <3> QED BY <1>1, <3>1, RingAt
  <2>4. slot \in Slots
    BY <2>2, SizesAssumption DEF SlotAt, Slots
  <2>5. CASE i <= u
    <3>1. i \in 1..u
      BY <2>2, <2>5
    <3>2. Old[i] = buf[slot]
      BY <3>1, RingAt DEF u, Old
    <3>3. slot \notin in..(in + n - 1)
      BY <2>1, <2>2, <3>1 DEF SlotAt
    <3>4. (Old \o More)[i] = Old[i]
      BY <1>4, <1>5, <2>2, <3>1 DEF u
    <3> QED BY <2>3, <2>4, <3>2, <3>3, <3>4
  <2>6. CASE i > u
    <3>1. i - u \in 1..n
      BY <2>2, <2>6
    <3>2. slot = in + (i - u) - 1
      BY <2>1, <2>2, <2>6 DEF SlotAt
    <3>3. (Old \o More)[i] = More[i - u]
      <4>1. Old \in Seq(Numbers) /\ Len(Old) = u /\ More \in Seq(Numbers) /\ Len(More) = n
        BY <1>4, <1>5 DEF u
      <4>2. i \in 1..(u + n) /\ ~(i <= u)
        BY <2>2, <2>6
      <4> QED BY <4>1, <4>2, ConcatProperties
    <3>4. More[i - u] = new[in + (i - u) - 1]
      BY <3>1 DEF More, Piece
    <3> QED BY <2>3, <3>2, <3>3, <3>4
  <2>7. i <= u \/ i > u
    BY <2>2
  <2> QED BY <2>5, <2>6, <2>7
<1>7. Old \o More \in Seq(Numbers) /\ Len(Old \o More) = Used(in, out) + n
  BY <1>4, <1>5
<1>8. New = Old \o More
  <2> HIDE DEF New, Old, More
  <2> QED BY <1>4, <1>6, <1>7, SeqEqual
<1> QED BY <1>1, <1>3, <1>8 DEF in2

\* Characters taken from the front.
LEMMA RingDrop ==
    ASSUME NEW in \in Slots, NEW out \in Slots, NEW n \in Nat,
           NEW buf \in [Slots -> Numbers],
           out + n <= BUF_LEN, n <= Used(in, out)
    PROVE  /\ (out + n) % BUF_LEN \in Slots
           /\ Used(in, (out + n) % BUF_LEN) = Used(in, out) - n
           /\ RingOf(buf, in, out) =
                Piece(buf, out, n) \o RingOf(buf, in, (out + n) % BUF_LEN)
<1> DEFINE out2 == (out + n) % BUF_LEN
           Old == RingOf(buf, in, out)
           First == Piece(buf, out, n)
           Rest == RingOf(buf, in, out2)
<1>1. out2 = SlotAt(out + n) /\ out2 \in Slots
  <2>1. out + n \in 0..(2 * BUF_LEN - 1)
    BY SizesAssumption DEF Slots
  <2> QED BY <2>1, ModOnce
<1>2. out2 = IF out + n < BUF_LEN THEN out + n ELSE 0
  BY <1>1, SizesAssumption DEF Slots, SlotAt
<1> HIDE DEF out2
<1>3. Used(in, out2) = Used(in, out) - n
  <2>1. Used(in, out2) = IF in >= out2 THEN in - out2 ELSE in + BUF_LEN - out2
    BY <1>1, UsedIs
  <2>2. Used(in, out) = IF in >= out THEN in - out ELSE in + BUF_LEN - out
    BY UsedIs
  <2>3. n <= Used(in, out) /\ out + n <= BUF_LEN
    OBVIOUS
  <2> QED BY <1>1, <1>2, <2>1, <2>2, <2>3, SizesAssumption DEF Slots
<1>4. Old \in Seq(Numbers) /\ Len(Old) = Used(in, out) /\ Rest \in Seq(Numbers) /\ Len(Rest) = Used(in, out) - n
  BY <1>1, <1>3, RingSeq
<1>5. First \in Seq(Numbers) /\ Len(First) = n
  <2>1. \A i \in 1..n : out + i - 1 \in Slots
    BY SizesAssumption DEF Slots
  <2>2. First \in [1..n -> Numbers]
    BY <2>1 DEF Piece
  <2> QED BY <2>2
<1>6. ASSUME NEW i \in 1..Used(in, out)
      PROVE  Old[i] = (First \o Rest)[i]
  <2> DEFINE slot == SlotAt(out + i - 1)
             u == Used(in, out)
  <2>1. /\ u \in Slots
        /\ u = IF in >= out THEN in - out ELSE in + BUF_LEN - out
    BY UsedIs
  <2>2. u \in Nat /\ BUF_LEN \in Nat /\ in \in Nat /\ out \in Nat /\ i \in 1..u
        /\ in < BUF_LEN /\ out < BUF_LEN /\ out + n <= BUF_LEN /\ n <= u
    BY <2>1, SizesAssumption DEF Slots
  <2>3. Old[i] = buf[slot]
    BY RingAt
  <2> HIDE DEF u, First, Rest
  <2>4. CASE i <= n
    <3>1. slot = out + i - 1 /\ i \in 1..n
      BY <2>2, <2>4 DEF SlotAt
    <3>2. (First \o Rest)[i] = First[i]
      BY <1>4, <1>5, <2>2, <3>1 DEF u
    <3>3. First[i] = buf[out + i - 1]
      BY <3>1 DEF First, Piece
    <3> QED BY <2>3, <3>1, <3>2, <3>3
  <2>5. CASE i > n
    <3>1. (First \o Rest)[i] = Rest[i - n]
      BY <1>4, <1>5, <2>2, <2>5 DEF u
    <3>2. i - n \in 1..Used(in, out2)
      BY <1>3, <2>2, <2>5 DEF u
    <3>3. Rest[i - n] = buf[SlotAt(out2 + (i - n) - 1)]
      BY <1>1, <3>2, RingAt DEF Rest
    <3>4. SlotAt(out2 + (i - n) - 1) = slot
      BY <1>2, <2>1, <2>2, <2>5 DEF SlotAt
    <3> QED BY <2>3, <3>1, <3>3, <3>4
  <2>6. i <= n \/ i > n
    BY <2>2
  <2> QED BY <2>4, <2>5, <2>6
<1>7. First \o Rest \in Seq(Numbers) /\ Len(First \o Rest) = Used(in, out)
  <2>1. Used(in, out) \in Nat
    BY UsedIs, SizesAssumption DEF Slots
  <2> QED BY <1>4, <1>5, <2>1
<1>8. Old = First \o Rest
  <2> HIDE DEF First, Rest, Old
  <2> QED BY <1>4, <1>6, <1>7, SeqEqual
<1> QED BY <1>1, <1>3, <1>8 DEF out2

-----------------------------------------------------------------------------
(* Streams: a ring and a FIFO, one behind the other *)

\* A run of slots is a sequence.
LEMMA PieceSeq ==
    ASSUME NEW buf \in [Slots -> Numbers], NEW from \in Slots, NEW n \in Nat,
           from + n <= BUF_LEN
    PROVE  Piece(buf, from, n) \in Seq(Numbers) /\ Len(Piece(buf, from, n)) = n
<1>1. \A i \in 1..n : from + i - 1 \in Slots
  BY SizesAssumption DEF Slots
<1>2. Piece(buf, from, n) \in [1..n -> Numbers]
  BY <1>1 DEF Piece
<1> QED BY <1>2

LEMMA Associative == \A s, t, u \in Seq(Numbers) : (s \o t) \o u = s \o (t \o u)
BY ConcatAssociative

\* The slot n further on, and the characters a copy of n leaves alone.
Ahead(i, n) == (i + n) % BUF_LEN
Untouched(buf, new, in, n) ==
    \A s \in Slots : s \notin in..(in + n - 1) => new[s] = buf[s]

\* A copy of n characters to slots that are free.
Copied(in, out, n, buf, new) ==
    in + n <= BUF_LEN /\ Used(in, out) + n <= BUF_LEN - 1 /\ Untouched(buf, new, in, n)

\* RingAppend for every ring at once.
LEMMA RingGrows ==
    \A in, out \in Slots : \A n \in Nat : \A buf, new \in [Slots -> Numbers] :
        Copied(in, out, n, buf, new)
        => RingOf(new, Ahead(in, n), out) = RingOf(buf, in, out) \o Piece(new, in, n)
BY RingAppend DEF Copied, Untouched, Ahead

\* A copy into the ring puts a run of characters behind those that follow it
\* to the host.
LEMMA PutBehind ==
    \A in, out \in Slots : \A n \in Nat : \A buf, new \in [Slots -> Numbers] :
    \A front \in Seq(Numbers) :
        Copied(in, out, n, buf, new)
        => front \o RingOf(new, Ahead(in, n), out) =
             (front \o RingOf(buf, in, out)) \o Piece(new, in, n)
<1> TAKE in, out \in Slots
<1> TAKE n \in Nat
<1> TAKE buf, new \in [Slots -> Numbers]
<1> TAKE front \in Seq(Numbers)
<1> HAVE Copied(in, out, n, buf, new)
<1>1. RingOf(buf, in, out) \in Seq(Numbers) /\ Piece(new, in, n) \in Seq(Numbers)
  BY RingSeq, PieceSeq DEF Copied
<1>2. RingOf(new, Ahead(in, n), out) = RingOf(buf, in, out) \o Piece(new, in, n)
  BY RingGrows
<1>3. front \o (RingOf(buf, in, out) \o Piece(new, in, n)) =
        (front \o RingOf(buf, in, out)) \o Piece(new, in, n)
  BY <1>1, Associative
<1> QED BY <1>2, <1>3

\* A copy out of the ring takes the characters in front.
LEMMA TakeFront ==
    \A in, out \in Slots : \A n \in Nat : \A buf \in [Slots -> Numbers] :
    \A rest \in Seq(Numbers) :
        out + n <= BUF_LEN /\ n <= Used(in, out)
        => RingOf(buf, in, out) \o rest =
             Piece(buf, out, n) \o (RingOf(buf, in, Ahead(out, n)) \o rest)
<1> TAKE in, out \in Slots
<1> TAKE n \in Nat
<1> TAKE buf \in [Slots -> Numbers]
<1> TAKE rest \in Seq(Numbers)
<1> HAVE out + n <= BUF_LEN /\ n <= Used(in, out)
<1> DEFINE out2 == Ahead(out, n)
<1>1. out2 \in Slots
  BY RingDrop DEF Ahead
<1> HIDE DEF out2
<1>2. RingOf(buf, in, out2) \in Seq(Numbers) /\ Piece(buf, out, n) \in Seq(Numbers)
  BY <1>1, RingSeq, PieceSeq
<1>3. RingOf(buf, in, out) = Piece(buf, out, n) \o RingOf(buf, in, out2)
  BY <1>2, RingDrop DEF out2, Ahead
<1>4. (Piece(buf, out, n) \o RingOf(buf, in, out2)) \o rest =
        Piece(buf, out, n) \o (RingOf(buf, in, out2) \o rest)
  BY <1>2, Associative
<1> QED BY <1>3, <1>4 DEF out2

\* A sequence cut in two is the two pieces one behind the other.
LEMMA SplitConcat ==
    ASSUME NEW S, NEW s \in Seq(S), NEW t \in Seq(S), s # << >>
    PROVE  /\ Len(s) \in 1..Len(s \o t)
           /\ SubSeq(s \o t, 1, Len(s)) = s
           /\ SubSeq(s \o t, Len(s) + 1, Len(s \o t)) = t
<1>1. Len(s) \in Nat /\ Len(s) >= 1 /\ Len(t) \in Nat /\ Len(s \o t) = Len(s) + Len(t)
  BY EmptySeq, LenProperties, ConcatProperties
<1>2. SubSeq(s \o t, 1, Len(s)) = s
  <2>1. SubSeq(s \o t, 1, Len(s)) = SubSeq(s, 1, Len(s))
    <3>1. 1 \in 1..Len(s) /\ Len(s) \in 1..Len(s)
      BY <1>1
    <3> QED BY <3>1, SubSeqOfConcat1
  <2> QED BY <2>1, SubSeqFull
<1>3. SubSeq(s \o t, Len(s) + 1, Len(s \o t)) = t
  <2>1. CASE Len(t) = 0
    <3>1. t = << >>
      BY <2>1, EmptySeq
    <3> QED BY <1>1, <2>1, <3>1, SubSeqEmpty
  <2>2. CASE Len(t) # 0
    <3> DEFINE a == Len(s) + 1
               b == Len(s) + Len(t)
    <3>1. a \in Len(s)+1 .. Len(s)+Len(t) /\ b \in Len(s)+1 .. Len(s)+Len(t)
          /\ a - Len(s) = 1 /\ b - Len(s) = Len(t)
      BY <1>1, <2>2
    <3> HIDE DEF a, b
    <3>2. SubSeq(s \o t, a, b) = SubSeq(t, a - Len(s), b - Len(s))
      BY <3>1, SubSeqOfConcat2
    <3>3. SubSeq(s \o t, a, b) = t
      BY <3>1, <3>2, SubSeqFull
    <3> QED BY <1>1, <3>3 DEF a, b
  <2> QED BY <2>1, <2>2
<1> QED BY <1>1, <1>2, <1>3

LEMMA SplitAnywhere ==
    \A s, t \in Seq(Numbers) : s # << >> =>
        /\ Len(s) \in 1..Len(s \o t)
        /\ SubSeq(s \o t, 1, Len(s)) = s
        /\ SubSeq(s \o t, Len(s) + 1, Len(s \o t)) = t
BY SplitConcat

\* The first n characters of a stream, and what is behind them.
Taken(n, before, piece, after) ==
    /\ n \in 1..Len(before) /\ piece = SubSeq(before, 1, n)
    /\ after = SubSeq(before, n + 1, Len(before))

\* The characters that Arrive and Read of the port take off a queue.
LEMMA TakeSome ==
    \A in, out \in Slots : \A n \in Nat : \A buf \in [Slots -> Numbers] :
    \A rest \in Seq(Numbers) :
        n >= 1 /\ out + n <= BUF_LEN /\ n <= Used(in, out)
        => Taken(n, RingOf(buf, in, out) \o rest, Piece(buf, out, n),
                 RingOf(buf, in, Ahead(out, n)) \o rest)
<1> TAKE in, out \in Slots
<1> TAKE n \in Nat
<1> TAKE buf \in [Slots -> Numbers]
<1> TAKE rest \in Seq(Numbers)
<1> HAVE n >= 1 /\ out + n <= BUF_LEN /\ n <= Used(in, out)
<1> DEFINE piece == Piece(buf, out, n)
           before == RingOf(buf, in, out) \o rest
           out2 == Ahead(out, n)
           after == RingOf(buf, in, out2) \o rest
<1>1. before = piece \o after
  BY TakeFront
<1>2. piece \in Seq(Numbers) /\ Len(piece) = n
  BY PieceSeq
<1>3. after \in Seq(Numbers)
  <2>1. out2 \in Slots
    BY RingDrop DEF Ahead
  <2> HIDE DEF out2
  <2>2. RingOf(buf, in, out2) \in Seq(Numbers)
    BY <2>1, RingSeq
  <2> QED BY <2>2, ConcatProperties
<1> HIDE DEF piece, before, after
<1>4. piece # << >>
  BY <1>2, EmptySeq
<1>5. /\ Len(piece) \in 1..Len(piece \o after)
      /\ SubSeq(piece \o after, 1, Len(piece)) = piece
      /\ SubSeq(piece \o after, Len(piece) + 1, Len(piece \o after)) = after
  BY <1>2, <1>3, <1>4, SplitAnywhere
<1>6. /\ n \in 1..Len(before) /\ SubSeq(before, 1, n) = piece
      /\ SubSeq(before, n + 1, Len(before)) = after
  BY <1>1, <1>2, <1>5
<1>7. Taken(n, before, piece, after)
  BY <1>6 DEF Taken
<1> QED BY <1>7 DEF piece, before, after

LEMMA OnePiece ==
    ASSUME NEW buf \in [Slots -> Numbers], NEW from \in Slots, NEW n \in Nat, n = 1
    PROVE  Piece(buf, from, n) = <<buf[from]>>
<1>1. \A i \in 1..1 : from + i - 1 = from
  BY SizesAssumption DEF Slots
<1>2. Piece(buf, from, n) = [i \in 1..1 |-> buf[from]]
  BY <1>1 DEF Piece
<1> QED BY <1>2

\* The first character of the FIFO is stored in a ring that has room for it.
Stored(in, out, n, buf, new, fifo) ==
    /\ n = 1 /\ Used(in, out) + n <= BUF_LEN - 1 /\ fifo # << >>
    /\ new[in] = Head(fifo) /\ Untouched(buf, new, in, n)

\* A character that goes from the FIFO to the ring stays in its place.
LEMMA Received ==
    \A in, out \in Slots : \A n \in Nat :
    \A buf, new \in [Slots -> Numbers] : \A fifo \in Seq(Numbers) :
        Stored(in, out, n, buf, new, fifo)
        => RingOf(new, Ahead(in, n), out) \o Tail(fifo) = RingOf(buf, in, out) \o fifo
<1> TAKE in, out \in Slots
<1> TAKE n \in Nat
<1> TAKE buf, new \in [Slots -> Numbers]
<1> TAKE fifo \in Seq(Numbers)
<1> HAVE Stored(in, out, n, buf, new, fifo)
<1>0. /\ n = 1 /\ Used(in, out) + n <= BUF_LEN - 1 /\ fifo # << >>
      /\ new[in] = Head(fifo) /\ Untouched(buf, new, in, n)
  BY DEF Stored
<1> USE <1>0
<1> DEFINE old == RingOf(buf, in, out)
<1>1. Head(fifo) \in Numbers /\ Tail(fifo) \in Seq(Numbers)
      /\ <<Head(fifo)>> \in Seq(Numbers) /\ <<Head(fifo)>> \o Tail(fifo) = fifo
  <2>1. Head(fifo) \in Numbers /\ Tail(fifo) \in Seq(Numbers)
    BY HeadTailProperties
  <2>2. <<Head(fifo)>> \in Seq(Numbers)
    BY <2>1
  <2>3. <<Head(fifo)>> \o Tail(fifo) = fifo
    <3> DEFINE f == <<Head(fifo)>> \o Tail(fifo)
    <3>1. Len(fifo) \in Nat \ {0} /\ Len(Tail(fifo)) = Len(fifo) - 1
          /\ \A i \in 1..Len(Tail(fifo)) : Tail(fifo)[i] = fifo[i + 1]
      BY EmptySeq, HeadTailProperties
    <3>2. Len(<<Head(fifo)>>) = 1 /\ <<Head(fifo)>>[1] = fifo[1]
      BY <3>1
    <3>3. f \in Seq(Numbers) /\ Len(f) = Len(fifo)
      BY <2>1, <2>2, <3>1, <3>2, ConcatProperties
    <3>4. ASSUME NEW i \in 1..Len(f) PROVE f[i] = fifo[i]
      <4>1. f[i] = IF i <= 1 THEN <<Head(fifo)>>[i] ELSE Tail(fifo)[i - 1]
        BY <2>1, <2>2, <3>1, <3>2, <3>3, ConcatProperties
      <4> QED BY <3>1, <3>2, <3>3, <4>1
    <3> HIDE DEF f
    <3>5. f = fifo
      BY <3>3, <3>4, SeqEqual
    <3> QED BY <3>5 DEF f
  <2> QED BY <2>1, <2>2, <2>3
<1>2. old \in Seq(Numbers)
  BY RingSeq
<1>4. RingOf(new, Ahead(in, n), out) = old \o Piece(new, in, n)
  <2>1. in + n <= BUF_LEN
    BY SizesAssumption DEF Slots
  <2>2. Copied(in, out, n, buf, new)
    BY <2>1 DEF Copied
  <2> QED BY <2>2, RingGrows
<1>5. Piece(new, in, n) = <<Head(fifo)>>
  BY OnePiece
<1>6. (old \o <<Head(fifo)>>) \o Tail(fifo) = old \o (<<Head(fifo)>> \o Tail(fifo))
  BY <1>1, <1>2, Associative
<1> QED BY <1>1, <1>4, <1>5, <1>6

\* And one that goes from the ring to the FIFO.
LEMMA Transmitted ==
    \A in, out \in Slots : \A n \in Nat :
    \A buf \in [Slots -> Numbers] : \A fifo \in Seq(Numbers) :
        n = 1 /\ in # out =>
            Append(fifo, buf[out]) \o RingOf(buf, in, Ahead(out, n)) =
              fifo \o RingOf(buf, in, out)
<1> TAKE in, out \in Slots
<1> TAKE n \in Nat
<1> TAKE buf \in [Slots -> Numbers]
<1> TAKE fifo \in Seq(Numbers)
<1>1. PICK none \in Seq(Numbers) : none = << >>
  BY EmptySeq
<1>2. out + n <= BUF_LEN /\ n <= Used(in, out)
      => RingOf(buf, in, out) \o none =
           Piece(buf, out, n) \o (RingOf(buf, in, Ahead(out, n)) \o none)
  BY TakeFront
<1> HAVE n = 1 /\ in # out
<1> DEFINE rest == RingOf(buf, in, Ahead(out, n))
<1>3. out \in Nat /\ out + n <= BUF_LEN
  BY SizesAssumption DEF Slots
<1>4. n <= Used(in, out)
  <2>1. Used(in, out) = IF in >= out THEN in - out ELSE in + BUF_LEN - out
    BY UsedIs
  <2> QED BY <2>1, SizesAssumption DEF Slots
<1>5. rest \in Seq(Numbers)
  <2>1. Ahead(out, n) \in Slots
    BY <1>3, ModInSlots DEF Ahead
  <2> QED BY <2>1, RingSeq
<1> HIDE DEF rest
<1>6. RingOf(buf, in, out) \in Seq(Numbers)
  BY RingSeq
<1>7. RingOf(buf, in, out) = <<buf[out]>> \o rest
  <2>1. RingOf(buf, in, out) \o none = Piece(buf, out, n) \o (rest \o none)
    BY <1>3, <1>4, <1>2, Zenon DEF rest
  <2>2. RingOf(buf, in, out) \o none = RingOf(buf, in, out) /\ rest \o none = rest
    BY <1>1, <1>5, <1>6, ConcatEmptySeq
  <2>3. Piece(buf, out, n) = <<buf[out]>>
    BY OnePiece
  <2> QED BY <2>1, <2>2, <2>3, Zenon
<1>8. buf[out] \in Numbers /\ <<buf[out]>> \in Seq(Numbers)
  OBVIOUS
<1>9. Append(fifo, buf[out]) = fifo \o <<buf[out]>>
  BY <1>8, AppendIsConcat
<1>10. (fifo \o <<buf[out]>>) \o rest = fifo \o (<<buf[out]>> \o rest)
  BY <1>5, <1>8, Associative
<1> QED BY <1>7, <1>9, <1>10 DEF rest

\* A character behind the second of two queues.
LEMMA AppendLast ==
    \A s, t \in Seq(Numbers) : \A e \in Numbers : s \o Append(t, e) = Append(s \o t, e)
<1> TAKE s, t \in Seq(Numbers)
<1> TAKE e \in Numbers
<1>1. <<e>> \in Seq(Numbers) /\ s \o t \in Seq(Numbers)
  BY ConcatProperties
<1>2. Append(t, e) = t \o <<e>> /\ Append(s \o t, e) = (s \o t) \o <<e>>
  BY <1>1, AppendIsConcat
<1>3. (s \o t) \o <<e>> = s \o (t \o <<e>>)
  BY <1>1, Associative
<1> QED BY <1>2, <1>3

\* The first character of the first of two queues.
LEMMA TailOfFirst ==
    \A s, t \in Seq(Numbers) : s # << >> => s \o t # << >> /\ Tail(s \o t) = Tail(s) \o t
<1> TAKE s, t \in Seq(Numbers)
<1> HAVE s # << >>
<1>1. /\ Len(s) \in Nat \ {0} /\ Len(t) \in Nat /\ s \o t \in Seq(Numbers)
      /\ Len(s \o t) = Len(s) + Len(t)
      /\ \A i \in 1..(Len(s) + Len(t)) :
           (s \o t)[i] = IF i <= Len(s) THEN s[i] ELSE t[i - Len(s)]
  BY EmptySeq, LenProperties, ConcatProperties
<1>2. s \o t # << >>
  BY <1>1, EmptySeq
<1>3. /\ Tail(s) \in Seq(Numbers) /\ Len(Tail(s)) = Len(s) - 1
      /\ \A i \in 1..Len(Tail(s)) : Tail(s)[i] = s[i + 1]
  BY HeadTailProperties
<1> DEFINE st == s \o t
           a == Tail(st)
           b == Tail(s) \o t
<1>4. /\ a \in Seq(Numbers) /\ Len(a) = Len(st) - 1
      /\ \A i \in 1..Len(a) : a[i] = st[i + 1]
  BY <1>1, <1>2, HeadTailProperties
<1>5. /\ b \in Seq(Numbers) /\ Len(b) = Len(Tail(s)) + Len(t)
      /\ \A i \in 1..(Len(Tail(s)) + Len(t)) :
           b[i] = IF i <= Len(Tail(s)) THEN Tail(s)[i] ELSE t[i - Len(Tail(s))]
  BY <1>3, ConcatProperties
<1>6. ASSUME NEW i \in 1..Len(a) PROVE a[i] = b[i]
  <2>1. /\ i \in Nat /\ i >= 1 /\ i + 1 <= Len(s) + Len(t)
    BY <1>1, <1>4
  <2>2. a[i] = st[i + 1] /\ i + 1 \in 1..(Len(s) + Len(t))
    BY <1>1, <1>4, <2>1
  <2>3. st[i + 1] = IF i + 1 <= Len(s) THEN s[i + 1] ELSE t[i + 1 - Len(s)]
    BY <1>1, <2>2
  <2>4. b[i] = IF i <= Len(s) - 1 THEN Tail(s)[i] ELSE t[i - (Len(s) - 1)]
    BY <1>1, <1>3, <1>5, <2>1
  <2>5. CASE i <= Len(s) - 1
    <3>1. Tail(s)[i] = s[i + 1]
      BY <1>1, <1>3, <2>1, <2>5
    <3> QED BY <1>1, <2>1, <2>2, <2>3, <2>4, <2>5, <3>1
  <2>6. CASE i > Len(s) - 1
    <3>1. i + 1 - Len(s) = i - (Len(s) - 1) /\ ~(i + 1 <= Len(s)) /\ ~(i <= Len(s) - 1)
      BY <1>1, <2>1, <2>6
    <3> QED BY <2>2, <2>3, <2>4, <3>1
  <2> QED BY <1>1, <2>1, <2>5, <2>6
<1>7. Len(a) = Len(b)
  BY <1>1, <1>3, <1>4, <1>5
<1> HIDE DEF a, b
<1>8. a = b
  BY <1>4, <1>5, <1>6, <1>7, SeqEqual
<1> QED BY <1>2, <1>8 DEF a, b

-----------------------------------------------------------------------------
(* The invariant of the two streams *)

\* The fields of the driver.
SpOK ==
    /\ sp.timeout \in 2..(INT_MAX - 1) /\ sp.host_inactive \in 0..(INT_MAX - 2)
    /\ sp.irq_enable \subseteq {"RE", "WE"}
    /\ sp.rx_in \in Slots /\ sp.rx_out \in Slots /\ sp.tx_in \in Slots /\ sp.tx_out \in Slots
    /\ sp.rx_buf \in [Slots -> Numbers] /\ sp.tx_buf \in [Slots -> Numbers]

\* The FIFOs and bits of the core.
CoreOK ==
    /\ core = [tx |-> core.tx, rx |-> core.rx, pause |-> core.pause, ac |-> core.ac]
    /\ core.tx \in Seq(Numbers) /\ core.rx \in Seq(Numbers) /\ Len(core.rx) <= Depth
    /\ core.pause \in BOOLEAN /\ core.ac \in BOOLEAN

\* The local variables of the interrupt routine.
IsrOK ==
    /\ isr.pc \in {"off", "control", "rx", "tx"}
    /\ isr.wi \in BOOLEAN /\ isr.avail \in BOOLEAN /\ isr.space \in Nat

CallOK ==
    /\ call.op \in {"none", "write", "read", "close"}
    /\ call.pc \in {"idle", "look", "copy", "enable", "wait", "check", "return"}
    /\ call.count \in Nat /\ call.done \in Nat /\ call.count + call.done <= MaxCount
    /\ call.got \in Seq(Numbers) /\ (call.op # "read" => call.got = << >>)

NumbersOK == typed \in Numbers /\ next \in Numbers /\ Sent <= MaxChars

\* What the routine believes to be free in the FIFO is free.
SpaceOK == isr.space + Len(core.tx) <= Depth

\* A call that copies holds the end of the ring that is its own, and what it
\* found there is there still, whatever the routine has done meanwhile.
WriteCopyOK == call.op = "write" /\ call.pc = "copy" =>
    /\ call.in = sp.tx_in /\ call.n \in 1..call.count
    /\ call.in + call.n <= BUF_LEN
    /\ Used(sp.tx_in, sp.tx_out) + call.n <= BUF_LEN - 1

ReadCopyOK == call.op = "read" /\ call.pc = "copy" =>
    /\ call.out = sp.rx_out /\ call.n \in 1..call.count
    /\ call.out + call.n <= BUF_LEN
    /\ call.n <= Used(sp.rx_in, sp.rx_out)

FieldsOK == SpOK /\ CoreOK /\ IsrOK /\ CallOK /\ NumbersOK /\ SpaceOK
CopiesOK == WriteCopyOK /\ ReadCopyOK
PortInv == IInv /\ FieldsOK /\ CopiesOK

\* The invariant of the streams contains the type invariant.
LEMMA PortInvType == PortInv => TypeOK
<1> SUFFICES ASSUME PortInv PROVE TypeOK
  OBVIOUS
<1>1. SpOK /\ CoreOK /\ IsrOK /\ CallOK /\ NumbersOK /\ SpaceOK
  BY DEF PortInv, FieldsOK
<1>2. Len(core.tx) \in Nat /\ isr.space \in Nat
  BY <1>1 DEF CoreOK, IsrOK
<1>3. Len(core.tx) <= Depth /\ isr.space \in 0..Depth
  BY <1>1, <1>2, SizesAssumption DEF SpaceOK
<1>4. call.count + call.done \in 0..MaxCount
  BY <1>1, SizesAssumption DEF CallOK
<1>5. {sp.rx_in, sp.rx_out, sp.tx_in, sp.tx_out} \subseteq Slots
      /\ {core.pause, core.ac, isr.wi, isr.avail} \subseteq BOOLEAN
      /\ {typed, next} \subseteq Numbers
  BY <1>1 DEF SpOK, CoreOK, IsrOK, NumbersOK
<1> QED BY <1>1, <1>3, <1>4, <1>5 DEF TypeOK, SpOK, CoreOK, IsrOK, CallOK, NumbersOK

\* The streams of the port.
Given == next + (IF call.op = "write" THEN call.done ELSE 0)
ToHost == core.tx \o RingOf(sp.tx_buf, sp.tx_in, sp.tx_out)
ToProgram == RingOf(sp.rx_buf, sp.rx_in, sp.rx_out) \o core.rx

\* A ring whose pointers are equal holds nothing.
LEMMA EmptyRing ==
    ASSUME NEW buf, NEW in \in Slots PROVE RingOf(buf, in, in) = << >>
<1>1. Used(in, in) = 0
  BY UsedIs, SizesAssumption DEF Slots
<1>2. RingOf(buf, in, in) = [i \in 1..0 |-> buf[SlotAt(in + i - 1)]]
  BY <1>1, RingIs
<1> QED BY <1>2

LEMMA InitPort == Init => PortInv /\ Port!Init
<1> SUFFICES ASSUME Init PROVE PortInv /\ Port!Init
  OBVIOUS
<1>1. 0 \in Slots /\ 0 \in Numbers
  BY SizesAssumption DEF Slots, Numbers
<1>2. /\ sp.timeout = Timeout /\ sp.host_inactive = 0 /\ sp.irq_enable = {"RE"}
      /\ sp.rx_in = 0 /\ sp.rx_out = 0 /\ sp.tx_in = 0 /\ sp.tx_out = 0
      /\ sp.rx_buf = [s \in Slots |-> 0] /\ sp.tx_buf = [s \in Slots |-> 0]
  BY DEF Init, Slots
<1>3. SpOK
  BY <1>1, <1>2, SizesAssumption DEF SpOK
<1>4. CoreOK /\ core.tx = << >> /\ core.rx = << >>
  BY SizesAssumption DEF Init, CoreOK
<1>5. /\ call.op = "none" /\ call.pc = "idle" /\ call.count = 0 /\ call.done = 0
      /\ call.got = << >> /\ isr.pc = "off" /\ isr.wi = FALSE /\ isr.avail = FALSE
      /\ isr.space = 0 /\ next = 0 /\ typed = 0
  BY DEF Init, Idle, Off
<1>6. IsrOK /\ CallOK /\ SpaceOK /\ CopiesOK
  <2>1. << >> \in Seq(Numbers) /\ Len(core.tx) = 0
    BY <1>4, EmptySeq
  <2>2. CopiesOK
    BY <1>5 DEF CopiesOK, WriteCopyOK, ReadCopyOK
  <2>3. IsrOK
    BY DEF Init, Off, IsrOK
  <2>4. CallOK
    BY <1>5, <2>1, SizesAssumption DEF CallOK
  <2>5. SpaceOK
    BY <1>5, <2>1, SizesAssumption DEF SpaceOK
  <2> QED BY <2>2, <2>3, <2>4, <2>5
<1>7. NumbersOK
  BY <1>1, <1>5, SizesAssumption DEF NumbersOK, Sent
<1>8. RingOf(sp.tx_buf, sp.tx_in, sp.tx_out) = << >>
      /\ RingOf(sp.rx_buf, sp.rx_in, sp.rx_out) = << >>
  BY <1>1, <1>2, EmptyRing
<1>9. Port!Init
  BY <1>4, <1>5, <1>8 DEF Port!Init
<1> QED BY <1>3, <1>4, <1>6, <1>7, <1>9, InitIInv DEF PortInv, FieldsOK

-----------------------------------------------------------------------------
(* Steps that leave the streams alone *)

PortStep == [Port!Next]_(Port!vars)

\* A step of the driver that moves no character is none of the port.
LEMMA Stutters ==
    ASSUME Given' = Given, ToHost' = ToHost, typed' = typed, ToProgram' = ToProgram,
           call'.got = call.got
    PROVE  PortStep
<1>1. UNCHANGED Port!vars
  BY DEF Port!vars, Given, ToHost, ToProgram
<1> QED BY <1>1 DEF PortStep

\* The call in progress at another point, with other copies.
CallAt(pc, in, out, n) ==
    [op |-> call.op, pc |-> pc, count |-> call.count, nonblock |-> call.nonblock,
     done |-> call.done, in |-> in, out |-> out, n |-> n, got |-> call.got]

\* A step of the thread that only changes its local variables.
LEMMA LocalStep ==
    ASSUME PortInv, UNCHANGED <<sp, core, isr, typed, next>>,
           NEW pc \in {"look", "copy", "enable", "wait", "check", "return"},
           NEW in, NEW out, NEW n,
           call' = CallAt(pc, in, out, n),
           call.op = "write" /\ pc = "copy" =>
             /\ in = sp.tx_in /\ n \in 1..call.count /\ in + n <= BUF_LEN
             /\ Used(sp.tx_in, sp.tx_out) + n <= BUF_LEN - 1,
           call.op = "read" /\ pc = "copy" =>
             /\ out = sp.rx_out /\ n \in 1..call.count /\ out + n <= BUF_LEN
             /\ n <= Used(sp.rx_in, sp.rx_out)
    PROVE  FieldsOK' /\ CopiesOK' /\ PortStep
<1>1. /\ call'.op = call.op /\ call'.pc = pc /\ call'.count = call.count
      /\ call'.done = call.done /\ call'.in = in /\ call'.out = out /\ call'.n = n
      /\ call'.got = call.got
  BY DEF CallAt
<1>2. SpOK' /\ CoreOK' /\ IsrOK' /\ SpaceOK'
  BY DEF PortInv, FieldsOK, SpOK, CoreOK, IsrOK, SpaceOK, Slots, Numbers
<1>3. CallOK' /\ NumbersOK'
  BY <1>1 DEF PortInv, FieldsOK, CallOK, NumbersOK, Sent, Numbers
<1>4. CopiesOK'
  BY <1>1 DEF CopiesOK, WriteCopyOK, ReadCopyOK, Used
<1>5. Given' = Given /\ ToHost' = ToHost /\ ToProgram' = ToProgram
  BY <1>1 DEF Given, ToHost, ToProgram, RingOf
<1> QED BY <1>1, <1>2, <1>3, <1>4, <1>5, Stutters DEF FieldsOK

\* The room found is at the end of the ring and leaves a slot free.
LEMMA RoomFits ==
    ASSUME NEW in \in Slots, NEW out \in Slots
    PROVE  /\ WriteRoom(in, out) \in Nat /\ in + WriteRoom(in, out) <= BUF_LEN
           /\ Used(in, out) + WriteRoom(in, out) <= BUF_LEN - 1
<1>1. Used(in, out) = IF in >= out THEN in - out ELSE in + BUF_LEN - out
  BY UsedIs
<1> QED BY <1>1, SizesAssumption DEF WriteRoom, Slots

\* The run the read call finds filled lies in the ring.
LEMMA RunFits ==
    ASSUME NEW in \in Slots, NEW out \in Slots
    PROVE  /\ ReadRun(in, out) \in Nat /\ out + ReadRun(in, out) <= BUF_LEN
           /\ ReadRun(in, out) <= Used(in, out)
<1>1. Used(in, out) = IF in >= out THEN in - out ELSE in + BUF_LEN - out
  BY UsedIs
<1> QED BY <1>1, SizesAssumption DEF ReadRun, Slots

LEMMA LeastIs ==
    ASSUME NEW a \in Nat \ {0}, NEW b \in Nat \ {0}
    PROVE  Least(a, b) \in 1..b /\ Least(a, b) <= a
BY DEF Least

LEMMA LookPort ==
    ASSUME PortInv, WriteLook \/ ReadLook
    PROVE  FieldsOK' /\ CopiesOK' /\ PortStep
<1>1. UNCHANGED <<sp, core, isr, typed, next>>
  BY DEF WriteLook, ReadLook
<1>2. CallShape(call) /\ call.count \in Nat
  BY DEF PortInv, IInv, Shapes, CallShape, FieldsOK, CallOK
<1>3. sp.rx_in \in Slots /\ sp.rx_out \in Slots /\ sp.tx_in \in Slots /\ sp.tx_out \in Slots
  BY DEF PortInv, FieldsOK, SpOK
<1>4. CASE WriteLook
  <2> DEFINE room == WriteRoom(sp.tx_in, sp.tx_out)
  <2>1. call.op = "write"
    BY <1>4 DEF WriteLook, At
  <2>2. CASE call.count = 0 \/ room = 0
    <3>1. \E out : call' = CallAt("enable", call.in, out, call.n)
      BY <1>2, <1>4, <2>2 DEF WriteLook, CallShape, CallAt
    <3> QED BY <1>1, <3>1, LocalStep
  <2>3. CASE call.count # 0 /\ room # 0
    <3>1. call' = CallAt("copy", sp.tx_in, call.out, Least(room, call.count))
      BY <1>2, <1>4, <2>3 DEF WriteLook, CallShape, CallAt
    <3>2. /\ room \in Nat /\ sp.tx_in + room <= BUF_LEN
          /\ Used(sp.tx_in, sp.tx_out) + room <= BUF_LEN - 1
      BY <1>3, RoomFits
    <3>3. Least(room, call.count) \in 1..call.count /\ Least(room, call.count) <= room
      BY <1>2, <2>3, <3>2, LeastIs
    <3>4. Used(sp.tx_in, sp.tx_out) \in Nat /\ sp.tx_in \in Nat /\ BUF_LEN \in Nat
      <4>1. Used(sp.tx_in, sp.tx_out) \in Nat
        BY <1>3, UsedIs
      <4> QED BY <1>3, <4>1, SizesAssumption DEF Slots
    <3> DEFINE n == Least(room, call.count)
    <3>5. sp.tx_in + n <= BUF_LEN /\ Used(sp.tx_in, sp.tx_out) + n <= BUF_LEN - 1
      <4> HIDE DEF n, room
      <4>1. n \in Nat /\ n <= room
        BY <1>2, <3>3 DEF n
      <4> QED BY <3>2, <3>4, <4>1
    <3> HIDE DEF n
    <3>6. call' = CallAt("copy", sp.tx_in, call.out, n) /\ n \in 1..call.count
      BY <3>1, <3>3 DEF n
    <3> QED BY <1>1, <2>1, <3>5, <3>6, LocalStep
  <2> QED BY <2>2, <2>3
<1>5. CASE ReadLook
  <2> DEFINE run == ReadRun(sp.rx_in, sp.rx_out)
  <2>1. call.op = "read"
    BY <1>5 DEF ReadLook, At
  <2>2. CASE call.count = 0 \/ run = 0
    <3>1. \E pc \in {"return", "wait"} : \E in : call' = CallAt(pc, in, call.out, call.n)
      BY <1>2, <1>5, <2>2 DEF ReadLook, CallShape, CallAt
    <3> QED BY <1>1, <3>1, LocalStep
  <2>3. CASE call.count # 0 /\ run # 0
    <3>1. call' = CallAt("copy", call.in, sp.rx_out, Least(run, call.count))
      BY <1>2, <1>5, <2>3 DEF ReadLook, CallShape, CallAt
    <3>2. /\ run \in Nat /\ sp.rx_out + run <= BUF_LEN
          /\ run <= Used(sp.rx_in, sp.rx_out)
      BY <1>3, RunFits
    <3>3. Least(run, call.count) \in 1..call.count /\ Least(run, call.count) <= run
      BY <1>2, <2>3, <3>2, LeastIs
    <3>4. Used(sp.rx_in, sp.rx_out) \in Nat /\ sp.rx_out \in Nat /\ BUF_LEN \in Nat
      <4>1. Used(sp.rx_in, sp.rx_out) \in Nat
        BY <1>3, UsedIs
      <4> QED BY <1>3, <4>1, SizesAssumption DEF Slots
    <3> DEFINE n == Least(run, call.count)
    <3>5. sp.rx_out + n <= BUF_LEN /\ n <= Used(sp.rx_in, sp.rx_out)
      <4> HIDE DEF n, run
      <4>1. n \in Nat /\ n <= run
        BY <1>2, <3>3 DEF n
      <4> QED BY <3>2, <3>4, <4>1
    <3> HIDE DEF n
    <3>6. call' = CallAt("copy", call.in, sp.rx_out, n) /\ n \in 1..call.count
      BY <3>1, <3>3 DEF n
    <3> QED BY <1>1, <2>1, <3>5, <3>6, LocalStep
  <2> QED BY <2>2, <2>3
<1> QED BY <1>4, <1>5

LEMMA WaitPort ==
    ASSUME PortInv, WriteWait \/ WriteCheck \/ ReadWait \/ ReadCheck
    PROVE  FieldsOK' /\ CopiesOK' /\ PortStep
<1>1. UNCHANGED <<sp, core, isr, typed, next>>
  BY DEF WriteWait, WriteCheck, ReadWait, ReadCheck
<1>2. CallShape(call)
  BY DEF PortInv, IInv, Shapes, CallShape
<1>3. \E pc \in {"check", "return", "look"} : call' = [call EXCEPT !.pc = pc]
  BY DEF WriteWait, WriteCheck, ReadWait, ReadCheck
<1>4. \E pc \in {"check", "return", "look"} : call' = CallAt(pc, call.in, call.out, call.n)
  BY <1>2, <1>3 DEF CallShape, CallAt
<1> QED BY <1>1, <1>4, LocalStep

\* A step that begins or ends a call without moving a character.
LEMMA CallBoundary ==
    ASSUME PortInv, UNCHANGED <<sp, core, isr, typed>>,
           next' \in Numbers, Sent' <= MaxChars, CallOK', call'.pc # "copy",
           Given' = Given, call'.got = call.got
    PROVE  FieldsOK' /\ CopiesOK' /\ PortStep
<1>1. SpOK' /\ CoreOK' /\ IsrOK' /\ SpaceOK'
  BY DEF PortInv, FieldsOK, SpOK, CoreOK, IsrOK, SpaceOK, Slots, Numbers
<1>2. NumbersOK'
  BY DEF PortInv, FieldsOK, NumbersOK, Numbers
<1>3. CopiesOK'
  BY DEF CopiesOK, WriteCopyOK, ReadCopyOK
<1>4. ToHost' = ToHost /\ ToProgram' = ToProgram
  BY DEF ToHost, ToProgram, RingOf
<1> QED BY <1>1, <1>2, <1>3, <1>4, Stutters DEF FieldsOK

\* The thread between two calls.
LEMMA IdleOK ==
    ASSUME call' = Idle PROVE CallOK' /\ call'.pc # "copy" /\ call'.got = << >>
                              /\ call'.op = "none" /\ call'.done = 0
<1>1. /\ call'.op = "none" /\ call'.pc = "idle" /\ call'.count = 0 /\ call'.done = 0
      /\ call'.got = << >>
  BY DEF Idle
<1>2. << >> \in Seq(Numbers)
  BY EmptySeq
<1> QED BY <1>1, <1>2, SizesAssumption DEF CallOK, Numbers

LEMMA BeginPort ==
    ASSUME PortInv, Begin PROVE FieldsOK' /\ CopiesOK' /\ PortStep
<1>1. UNCHANGED <<sp, core, typed, isr, next>> /\ call.op = "none"
  BY DEF Begin, At
<1>2. PICK op \in {"write", "read", "close"}, count \in 0..MaxCount, nonblock \in BOOLEAN :
        /\ op = "write" => Sent + count <= MaxChars
        /\ call' = [Idle EXCEPT !.op = op, !.pc = "look", !.count = count, !.nonblock = nonblock]
  BY DEF Begin
<1>3. /\ call'.op = op /\ call'.pc = "look" /\ call'.count = count /\ call'.done = 0
      /\ call'.got = << >>
  BY <1>2 DEF Idle
<1>4. << >> \in Seq(Numbers)
  BY EmptySeq
<1>5. CallOK'
  BY <1>3, <1>4, SizesAssumption DEF CallOK, Numbers
<1>6. next \in Nat /\ typed \in Nat /\ Sent <= MaxChars /\ call.got = << >>
  BY <1>1 DEF PortInv, FieldsOK, NumbersOK, CallOK, Numbers
<1>7. Given' = Given
  BY <1>1, <1>3, <1>6 DEF Given
<1>8. Sent' <= MaxChars
  BY <1>1, <1>2, <1>3, <1>6 DEF Sent
<1>9. next' \in Numbers
  BY <1>1 DEF PortInv, FieldsOK, NumbersOK
<1> QED BY <1>1, <1>3, <1>5, <1>6, <1>7, <1>8, <1>9, CallBoundary

\* The count a write call returns is what it has put into the ring.
LEMMA WriteReturnPort ==
    ASSUME PortInv, WriteReturn PROVE FieldsOK' /\ CopiesOK' /\ PortStep
<1>1. UNCHANGED <<sp, core, typed, isr>> /\ call.op = "write" /\ call' = Idle
  BY DEF WriteReturn, At
<1>2. /\ next \in Nat /\ typed \in Nat /\ call.count \in Nat /\ call.done \in Nat
      /\ next + typed + (call.done + call.count) <= MaxChars /\ call.got = << >>
  BY <1>1 DEF PortInv, FieldsOK, NumbersOK, CallOK, Numbers, Sent
<1>3. next' = next + call.done
  <2>1. CASE call.done = 0
    <3>1. Result < 0
      BY <2>1 DEF Result, EIO, EWOULDBLOCK
    <3> QED BY <1>2, <2>1, <3>1 DEF WriteReturn
  <2>2. CASE call.done # 0
    BY <1>2, <2>2 DEF WriteReturn, Result
  <2> QED BY <2>1, <2>2
<1>4. CallOK' /\ call'.pc # "copy" /\ call'.got = call.got /\ call'.op = "none"
  BY <1>1, <1>2, IdleOK
<1>5. Given' = Given
  BY <1>1, <1>2, <1>3, <1>4 DEF Given
<1>6. next' \in Numbers
  <2>1. \A a, b, c, d, m \in Nat : a + b + (c + d) <= m => a + c \in 0..m
    OBVIOUS
  <2>2. next + call.done \in 0..MaxChars
    BY <1>2, <2>1, SizesAssumption
  <2> QED BY <1>3, <2>2 DEF Numbers
<1>7. Sent' <= MaxChars
  <2>1. Sent' = next + call.done + typed
    BY <1>1, <1>2, <1>3, <1>4 DEF Sent
  <2> QED BY <1>2, <2>1, SizesAssumption
<1> QED BY <1>1, <1>4, <1>5, <1>6, <1>7, CallBoundary

LEMMA CloseReturnPort ==
    ASSUME PortInv, CloseReturn PROVE FieldsOK' /\ CopiesOK' /\ PortStep
<1>1. UNCHANGED <<sp, core, typed, isr, next>> /\ call.op = "close" /\ call' = Idle
  BY DEF CloseReturn, At
<1>2. next \in Numbers /\ typed \in Nat /\ next + typed <= MaxChars /\ call.got = << >>
  BY <1>1 DEF PortInv, FieldsOK, NumbersOK, CallOK, Numbers, Sent
<1>3. CallOK' /\ call'.pc # "copy" /\ call'.got = call.got /\ call'.op = "none"
  BY <1>1, <1>2, IdleOK
<1>4. Given' = Given /\ Sent' <= MaxChars /\ next' \in Numbers
  BY <1>1, <1>2, <1>3 DEF Given, Sent, Numbers
<1> QED BY <1>1, <1>3, <1>4, CallBoundary

\* A read call that ends hands over what it has obtained.
LEMMA ReadReturnPort ==
    ASSUME PortInv, ReadReturn PROVE FieldsOK' /\ CopiesOK' /\ PortStep
<1>1. UNCHANGED <<core, typed, isr, next>> /\ call.op = "read" /\ call' = Idle
  BY DEF ReadReturn, At
<1>2. next \in Numbers /\ typed \in Numbers /\ next + typed <= MaxChars
  BY <1>1 DEF PortInv, FieldsOK, NumbersOK, CallOK, Numbers, Sent
<1>3. CallOK' /\ call'.pc # "copy" /\ call'.got = << >> /\ call'.op = "none"
  BY <1>1, IdleOK
<1>4. /\ sp'.timeout = sp.timeout /\ sp'.host_inactive = sp.host_inactive
      /\ sp'.irq_enable \in {sp.irq_enable, sp.irq_enable \cup {"RE"}}
      /\ sp'.rx_in = sp.rx_in /\ sp'.rx_out = sp.rx_out
      /\ sp'.tx_in = sp.tx_in /\ sp'.tx_out = sp.tx_out
      /\ sp'.rx_buf = sp.rx_buf /\ sp'.tx_buf = sp.tx_buf
  BY DEF ReadReturn, PortInv, IInv, Shapes
<1>5. SpOK'
  BY <1>4 DEF PortInv, FieldsOK, SpOK, Slots, Numbers
<1>6. CoreOK' /\ IsrOK' /\ SpaceOK'
  BY <1>1 DEF PortInv, FieldsOK, CoreOK, IsrOK, SpaceOK, Numbers
<1>7. NumbersOK'
  BY <1>1, <1>2, <1>3 DEF NumbersOK, Sent, Numbers
<1>8. CopiesOK'
  BY <1>3 DEF CopiesOK, WriteCopyOK, ReadCopyOK
<1>9. Port!Return
  <2>1. Given' = Given
    BY <1>1, <1>2, <1>3 DEF Given, Numbers
  <2>2. ToHost' = ToHost /\ ToProgram' = ToProgram
    BY <1>1, <1>4 DEF ToHost, ToProgram, RingOf
  <2> QED BY <1>1, <1>3, <2>1, <2>2 DEF Port!Return, Given, ToHost, ToProgram
<1> QED BY <1>3, <1>5, <1>6, <1>7, <1>8, <1>9 DEF FieldsOK, PortStep, Port!Next

-----------------------------------------------------------------------------
(* Steps of the routine, the tick and the host that move no character *)

\* What is said of the calls stays true while they make no step.
LEMMA SameCall ==
    ASSUME PortInv, UNCHANGED <<call, typed, next>>
    PROVE  CallOK' /\ NumbersOK' /\ Given' = Given /\ call'.got = call.got
BY DEF PortInv, FieldsOK, CallOK, NumbersOK, Sent, Numbers, Given

\* Pointers, characters and FIFOs as before.
LEMMA NoTraffic ==
    ASSUME PortInv, UNCHANGED <<typed, next>>, SpOK', CoreOK', IsrOK', SpaceOK',
           sp'.rx_in = sp.rx_in, sp'.rx_out = sp.rx_out, sp'.rx_buf = sp.rx_buf,
           sp'.tx_in = sp.tx_in, sp'.tx_out = sp.tx_out, sp'.tx_buf = sp.tx_buf,
           core'.tx = core.tx, core'.rx = core.rx,
           CallOK', NumbersOK', Given' = Given, call'.got = call.got,
           call' = call \/ call'.pc # "copy"
    PROVE  FieldsOK' /\ CopiesOK' /\ PortStep
<1>1. CopiesOK'
  BY DEF PortInv, CopiesOK, WriteCopyOK, ReadCopyOK, Used
<1>2. ToHost' = ToHost /\ ToProgram' = ToProgram
  BY DEF ToHost, ToProgram, RingOf
<1> QED BY <1>1, <1>2, Stutters DEF FieldsOK

LEMMA WriteEnablePort ==
    ASSUME PortInv, WriteEnable PROVE FieldsOK' /\ CopiesOK' /\ PortStep
<1>1. UNCHANGED <<core, typed, isr, next>> /\ call.op = "write"
  BY DEF WriteEnable, At
<1>2. sp' = [timeout |-> sp.timeout, irq_enable |-> sp.irq_enable \cup {"WE"},
             host_inactive |-> sp.host_inactive,
             rx_in |-> sp.rx_in, rx_out |-> sp.rx_out,
             tx_in |-> sp.tx_in, tx_out |-> sp.tx_out,
             rx_buf |-> sp.rx_buf, tx_buf |-> sp.tx_buf]
  BY DEF WriteEnable, PortInv, IInv, Shapes
<1>3. SpOK'
  BY <1>2 DEF PortInv, FieldsOK, SpOK, Slots, Numbers
<1>4. CoreOK' /\ IsrOK' /\ SpaceOK'
  BY <1>1 DEF PortInv, FieldsOK, CoreOK, IsrOK, SpaceOK, Numbers
<1>5. \E pc \in {"return", "wait"} : call' = CallAt(pc, call.in, call.out, call.n)
  BY DEF WriteEnable, PortInv, IInv, Shapes, CallAt
<1>6. /\ call'.op = call.op /\ call'.pc \in {"return", "wait"} /\ call'.count = call.count
      /\ call'.done = call.done /\ call'.got = call.got
  BY <1>5 DEF CallAt
<1>7. CallOK' /\ NumbersOK' /\ Given' = Given
  BY <1>1, <1>6 DEF PortInv, FieldsOK, CallOK, NumbersOK, Sent, Numbers, Given
<1> QED BY <1>1, <1>2, <1>3, <1>4, <1>6, <1>7, NoTraffic

LEMMA ClockPort ==
    ASSUME PortInv, SetTimeout \/ TimeoutTick
    PROVE  FieldsOK' /\ CopiesOK' /\ PortStep
<1>1. UNCHANGED <<typed, call, isr, next>>
  BY DEF SetTimeout, TimeoutTick
<1>2. PICK timeout \in 2..(INT_MAX - 1), inactive \in 0..(INT_MAX - 2) :
        sp' = Driver(sp.irq_enable, inactive, sp.rx_in, sp.tx_out, sp.rx_buf, timeout)
  <2>1. sp.timeout \in 2..(INT_MAX - 1) /\ sp.host_inactive \in 0..(INT_MAX - 2)
    BY DEF PortInv, FieldsOK, SpOK
  <2>2. CASE SetTimeout
    <3>1. PICK new \in NewTimeouts :
            sp' = [sp EXCEPT !.timeout = IF new >= 2 /\ new < INT_MAX
                                         THEN new ELSE INT_MAX - 1]
      BY <2>2 DEF SetTimeout
    <3>2. (IF new >= 2 /\ new < INT_MAX THEN new ELSE INT_MAX - 1) \in 2..(INT_MAX - 1)
      BY SizesAssumption
    <3>3. PICK t \in 2..(INT_MAX - 1) : sp' = [sp EXCEPT !.timeout = t]
      BY <3>1, <3>2
    <3>4. sp' = Driver(sp.irq_enable, sp.host_inactive, sp.rx_in, sp.tx_out, sp.rx_buf, t)
      BY <3>3 DEF PortInv, IInv, Shapes, Driver
    <3> QED BY <2>1, <3>4
  <2>3. CASE TimeoutTick
    <3>1. (IF core.ac THEN 0 ELSE Inactive(sp.host_inactive)) \in 0..(INT_MAX - 2)
      BY <2>1, SizesAssumption DEF Inactive
    <3>2. \E inactive \in 0..(INT_MAX - 2) : sp' = [sp EXCEPT !.host_inactive = inactive]
      BY <2>3, <3>1 DEF TimeoutTick
    <3> QED BY <2>1, <3>2 DEF PortInv, IInv, Shapes, Driver
  <2> QED BY <2>2, <2>3
<1>3. SpOK'
  BY <1>2 DEF Driver, PortInv, FieldsOK, SpOK, Slots, Numbers
<1>4. CoreOK' /\ core'.tx = core.tx /\ core'.rx = core.rx
  <2>1. core' = core \/ core' = [core EXCEPT !.ac = FALSE]
    BY DEF SetTimeout, TimeoutTick
  <2>2. core' = core \/ core' = [tx |-> core.tx, rx |-> core.rx, pause |-> core.pause, ac |-> FALSE]
    BY <2>1 DEF PortInv, FieldsOK, CoreOK
  <2>3. CoreOK
    BY DEF PortInv, FieldsOK
  <2>4. CASE core' = core
    BY <2>3, <2>4 DEF CoreOK, Numbers
  <2>5. CASE core' = [tx |-> core.tx, rx |-> core.rx, pause |-> core.pause, ac |-> FALSE]
    <3>1. core'.ac = FALSE /\ core'.pause = core.pause
          /\ core'.tx = core.tx /\ core'.rx = core.rx
      BY <2>5
    <3> QED BY <2>3, <2>5, <3>1 DEF CoreOK, Numbers
  <2> QED BY <2>2, <2>4, <2>5
<1>5. IsrOK' /\ SpaceOK'
  BY <1>1, <1>4 DEF PortInv, FieldsOK, IsrOK, SpaceOK
<1> QED BY <1>1, <1>2, <1>3, <1>4, <1>5, SameCall, NoTraffic DEF Driver

LEMMA IsrControlPort ==
    ASSUME PortInv, IsrControl PROVE FieldsOK' /\ CopiesOK' /\ PortStep
<1>1. UNCHANGED <<sp, core, typed, call, next>>
  BY DEF IsrControl
<1>2. Len(core.tx) \in Nat /\ Len(core.tx) <= Depth
  <2>1. Len(core.tx) \in Nat /\ isr.space \in Nat
    BY DEF PortInv, FieldsOK, CoreOK, IsrOK
  <2> QED BY <2>1, SizesAssumption DEF PortInv, FieldsOK, SpaceOK
<1>3. IsrOK' /\ isr'.space \in {0, Depth - Len(core.tx)}
  <2>1. CASE isr' = Off
    BY <2>1 DEF Off, IsrOK
  <2>2. CASE isr' = [pc |-> IF ReadIrq THEN "rx" ELSE "tx", wi |-> WriteIrq,
                     space |-> IF WriteIrq THEN Depth - Len(core.tx) ELSE 0,
                     avail |-> TRUE]
    <3>1. WriteIrq \in BOOLEAN
      BY DEF WriteIrq
    <3>2. /\ isr'.pc \in {"rx", "tx"} /\ isr'.wi = WriteIrq /\ isr'.avail = TRUE
          /\ isr'.space \in {0, Depth - Len(core.tx)}
      BY <2>2
    <3>3. isr'.space \in Nat
      BY <1>2, <3>2, SizesAssumption
    <3> QED BY <3>1, <3>2, <3>3 DEF IsrOK
  <2> QED BY <2>1, <2>2 DEF IsrControl
<1>4. SpaceOK'
  BY <1>1, <1>2, <1>3, SizesAssumption DEF SpaceOK
<1>5. SpOK' /\ CoreOK'
  BY <1>1 DEF PortInv, FieldsOK, SpOK, CoreOK, Slots, Numbers
<1> QED BY <1>1, <1>3, <1>4, <1>5, SameCall, NoTraffic

\* The routine reads an empty FIFO, finds the ring full, or has nothing to send.
LEMMA IsrEndPort ==
    ASSUME PortInv, IsrReadEnd \/ IsrWriteEnd PROVE FieldsOK' /\ CopiesOK' /\ PortStep
<1>1. UNCHANGED <<typed, call, next>>
  BY DEF IsrReadEnd, IsrWriteEnd
<1>2. PICK irqs \in {sp.irq_enable, sp.irq_enable \ {"RE"}, sp.irq_enable \ {"WE"}} :
        sp' = Driver(irqs, sp.host_inactive, sp.rx_in, sp.tx_out, sp.rx_buf, sp.timeout)
  <2>1. \/ sp' = sp
        \/ sp' = [sp EXCEPT !.irq_enable = @ \ {"RE"}]
        \/ sp' = [sp EXCEPT !.irq_enable = @ \ {"WE"}]
    BY DEF IsrReadEnd, IsrWriteEnd
  <2>2. \E irqs \in {sp.irq_enable, sp.irq_enable \ {"RE"}, sp.irq_enable \ {"WE"}} :
          sp' = [sp EXCEPT !.irq_enable = irqs]
    BY <2>1 DEF PortInv, IInv, Shapes
  <2> QED BY <2>2 DEF PortInv, IInv, Shapes, Driver
<1>3. SpOK'
  BY <1>2 DEF Driver, PortInv, FieldsOK, SpOK, Slots, Numbers
<1>4. CoreOK' /\ core'.tx = core.tx /\ core'.rx = core.rx
  <2>1. core' = core \/ (core.rx = << >> /\ core' = ReadData(core))
    BY DEF IsrReadEnd, IsrWriteEnd
  <2>2. CASE core.rx = << >> /\ core' = ReadData(core)
    <3>1. core' = [tx |-> core.tx, rx |-> core.rx, pause |-> FALSE, ac |-> core.ac]
      BY <2>2 DEF ReadData, PortInv, FieldsOK, CoreOK
    <3> QED BY <3>1 DEF PortInv, FieldsOK, CoreOK, Numbers
  <2>3. CASE core' = core
    BY <2>3 DEF PortInv, FieldsOK, CoreOK, Numbers
  <2> QED BY <2>1, <2>2, <2>3
<1>5. IsrOK' /\ isr'.space \in {0, isr.space}
  <2>1. isr = [pc |-> isr.pc, wi |-> isr.wi, space |-> isr.space, avail |-> isr.avail]
        /\ IsrOK
    BY DEF PortInv, IInv, Shapes, FieldsOK
  <2>2. \E pc \in {"tx", "control"} :
           \/ isr' = [isr EXCEPT !.pc = pc, !.avail = FALSE]
           \/ isr' = [isr EXCEPT !.pc = pc, !.wi = FALSE, !.space = 0]
    BY DEF IsrReadEnd, IsrWriteEnd
  <2>3. \E pc \in {"tx", "control"} :
           \/ isr' = [pc |-> pc, wi |-> isr.wi, space |-> isr.space, avail |-> FALSE]
           \/ isr' = [pc |-> pc, wi |-> FALSE, space |-> 0, avail |-> isr.avail]
    BY <2>1, <2>2
  <2>4. /\ isr'.pc \in {"tx", "control"} /\ isr'.space \in {0, isr.space}
        /\ isr'.wi = isr.wi \/ isr'.wi = FALSE
        /\ isr'.avail = isr.avail \/ isr'.avail = FALSE
    BY <2>3
  <2>5. isr'.wi \in BOOLEAN /\ isr'.avail \in BOOLEAN
    BY <2>1, <2>4, Zenon DEF IsrOK
  <2> QED BY <2>1, <2>4, <2>5 DEF IsrOK
<1>6. SpaceOK'
  <2>1. isr.space \in Nat /\ Len(core.tx) \in Nat /\ isr.space + Len(core.tx) <= Depth
    BY DEF PortInv, FieldsOK, IsrOK, CoreOK, SpaceOK
  <2> QED BY <1>4, <1>5, <2>1, SizesAssumption DEF SpaceOK
<1> QED BY <1>1, <1>2, <1>3, <1>4, <1>5, <1>6, SameCall, NoTraffic DEF Driver

LEMMA HostPollsPort ==
    ASSUME PortInv, HostPolls PROVE FieldsOK' /\ CopiesOK' /\ PortStep
<1>1. UNCHANGED <<sp, typed, call, isr, next>>
  BY DEF HostPolls
<1>2. core' = [tx |-> core.tx, rx |-> core.rx, pause |-> core.pause \/ core.rx # << >>,
               ac |-> TRUE]
  BY DEF HostPolls, PortInv, FieldsOK, CoreOK
<1>3. CoreOK' /\ core'.tx = core.tx /\ core'.rx = core.rx
  <2>1. (core.pause \/ core.rx # << >>) \in BOOLEAN
    OBVIOUS
  <2> QED BY <1>2, <2>1 DEF PortInv, FieldsOK, CoreOK, Numbers
<1>4. SpOK' /\ IsrOK' /\ SpaceOK'
  BY <1>1, <1>3 DEF PortInv, FieldsOK, SpOK, IsrOK, SpaceOK, Slots, Numbers
<1> QED BY <1>1, <1>3, <1>4, SameCall, NoTraffic

-----------------------------------------------------------------------------
(* Steps that move characters *)

\* A write call puts its characters behind those that wait for the host.
LEMMA WriteCopyPort ==
    ASSUME PortInv, WriteCopy PROVE FieldsOK' /\ CopiesOK' /\ PortStep
<1> DEFINE n == call.n
           New == [s \in DOMAIN sp.tx_buf |->
                     IF s \in call.in..(call.in + call.n - 1)
                     THEN next + call.done + s - call.in ELSE sp.tx_buf[s]]
           More == Piece(New, sp.tx_in, n)
<1>1. call.op = "write" /\ call.pc = "copy" /\ UNCHANGED <<core, typed, isr, next>>
      /\ CallShape(call)
  BY DEF WriteCopy, At, PortInv, IInv, Shapes, CallShape
<1>2. /\ call.in = sp.tx_in /\ n \in 1..call.count
      /\ sp.tx_in + n <= BUF_LEN /\ Used(sp.tx_in, sp.tx_out) + n <= BUF_LEN - 1
  BY <1>1 DEF PortInv, CopiesOK, WriteCopyOK
<1>3. /\ sp.tx_in \in Slots /\ sp.tx_out \in Slots /\ sp.tx_buf \in [Slots -> Numbers]
      /\ core.tx \in Seq(Numbers) /\ call.count \in Nat /\ call.done \in Nat
      /\ call.count + call.done <= MaxCount /\ call.got = << >>
      /\ next \in Nat /\ typed \in Nat /\ next + typed + (call.done + call.count) <= MaxChars
  BY <1>1 DEF PortInv, FieldsOK, SpOK, CoreOK, CallOK, NumbersOK, Sent, Numbers
<1>4. /\ sp.tx_in \in Nat /\ n \in Nat /\ n >= 1 /\ n <= call.count
      /\ BUF_LEN \in Nat /\ sp.tx_in + n <= BUF_LEN
      /\ call.count \in Nat /\ call.done \in Nat /\ next \in Nat /\ typed \in Nat
      /\ next + typed + (call.done + call.count) <= MaxChars
      /\ MaxChars \in Nat /\ MaxCount \in Nat
  <2>1. sp.tx_in \in Nat
    BY <1>3 DEF Slots
  <2> QED BY <1>2, <1>3, <2>1, SizesAssumption
<1>5. sp' = [timeout |-> sp.timeout, irq_enable |-> sp.irq_enable,
             host_inactive |-> sp.host_inactive,
             rx_in |-> sp.rx_in, rx_out |-> sp.rx_out,
             tx_in |-> (sp.tx_in + n) % BUF_LEN, tx_out |-> sp.tx_out,
             rx_buf |-> sp.rx_buf, tx_buf |-> New]
  BY <1>2 DEF WriteCopy, PortInv, IInv, Shapes
<1>6. /\ call'.op = "write" /\ call'.pc = "look" /\ call'.done = call.done + n
      /\ call'.count = call.count - n /\ call'.got = << >>
  BY <1>1, <1>3 DEF WriteCopy, CallShape
<1>7. New \in [Slots -> Numbers]
      /\ \A s \in Slots : s \notin sp.tx_in..(sp.tx_in + n - 1) => New[s] = sp.tx_buf[s]
  <2>1. ASSUME NEW s \in sp.tx_in..(sp.tx_in + n - 1)
        PROVE  next + call.done + s - sp.tx_in \in Numbers
    BY <1>4 DEF Numbers
  <2>2. New \in [Slots -> Numbers]
    BY <1>2, <1>3, <2>1
  <2>3. \A s \in Slots : s \notin sp.tx_in..(sp.tx_in + n - 1) => New[s] = sp.tx_buf[s]
    BY <1>2, <1>3
  <2> QED BY <2>2, <2>3
<1>a. \A i \in 1..n : sp.tx_in + i - 1 \in Slots
  BY <1>4 DEF Slots
<1>8. \A i \in 1..n : New[sp.tx_in + i - 1] = next + call.done + i - 1
  <2> TAKE i \in 1..n
  <2>1. /\ sp.tx_in + i - 1 \in Slots
        /\ sp.tx_in + i - 1 \in call.in..(call.in + call.n - 1)
    BY <1>2, <1>4, <1>a
  <2>2. sp.tx_in + i - 1 \in DOMAIN sp.tx_buf
    BY <1>3, <2>1
  <2>3. New[sp.tx_in + i - 1] = next + call.done + (sp.tx_in + i - 1) - call.in
    BY <2>1, <2>2
  <2> QED BY <1>2, <1>4, <2>3
<1> HIDE DEF New, n
<1>9. More = Port!Run(Given, n)
  <2>1. Given = next + call.done
    BY <1>1 DEF Given
  <2> QED BY <1>8, <2>1 DEF Port!Run, Piece
<1>10. (sp.tx_in + n) % BUF_LEN \in Slots
  BY <1>4, ModInSlots
<1>12. ToHost' = ToHost \o More
  <2>1. PICK in \in Slots, out \in Slots, m \in Nat, buf \in [Slots -> Numbers],
             new \in [Slots -> Numbers], front \in Seq(Numbers) :
          /\ in = sp.tx_in /\ out = sp.tx_out /\ m = n
          /\ buf = sp.tx_buf /\ new = New /\ front = core.tx
    BY <1>3, <1>4, <1>7
  <2>2. Copied(in, out, m, buf, new)
    BY <1>2, <1>7, <2>1 DEF n, Untouched, Copied
  <2>3. front \o RingOf(new, Ahead(in, m), out) =
          (front \o RingOf(buf, in, out)) \o Piece(new, in, m)
    <3>1. \A j \in Nat : \A b, a \in [Slots -> Numbers] : \A f \in Seq(Numbers) :
            Copied(in, out, j, b, a)
            => f \o RingOf(a, Ahead(in, j), out) =
                 (f \o RingOf(b, in, out)) \o Piece(a, in, j)
      BY PutBehind, Zenon
    <3>2. \A f \in Seq(Numbers) :
            Copied(in, out, m, buf, new)
            => f \o RingOf(new, Ahead(in, m), out) =
                 (f \o RingOf(buf, in, out)) \o Piece(new, in, m)
      BY <3>1, Zenon
    <3> QED BY <2>2, <3>2, Zenon
  <2>4. ToHost = front \o RingOf(buf, in, out) /\ More = Piece(new, in, m)
    BY <2>1 DEF ToHost
  <2>5. ToHost' = front \o RingOf(new, Ahead(in, m), out)
    BY <1>1, <1>5, <2>1 DEF ToHost, RingOf, Ahead
  <2> QED BY <2>3, <2>4, <2>5
<1>13. Given' = Given + n /\ ToProgram' = ToProgram /\ call'.got = call.got
  <2>1. Given' = Given + n
    BY <1>1, <1>3, <1>4, <1>6 DEF Given
  <2> QED BY <1>1, <1>3, <1>5, <1>6, <2>1 DEF ToProgram, RingOf
<1>14. Port!Accept
  <2>1. n \in 1..MaxCount
    BY <1>3, <1>4, SizesAssumption
  <2>2. ToHost' = ToHost \o Port!Run(Given, n) /\ Given' = Given + n
        /\ UNCHANGED <<typed, ToProgram, call.got>>
    BY <1>1, <1>9, <1>12, <1>13
  <2> QED BY <2>1, <2>2 DEF Port!Accept, Given, ToHost, ToProgram
<1>15. SpOK'
  BY <1>5, <1>7, <1>10 DEF PortInv, FieldsOK, SpOK, Slots, Numbers
<1>16. CoreOK' /\ IsrOK' /\ SpaceOK'
  BY <1>1 DEF PortInv, FieldsOK, CoreOK, IsrOK, SpaceOK, Numbers
<1>17. CallOK'
  <2>1. << >> \in Seq(Numbers)
    BY EmptySeq
  <2>2. \A a, b, c, m \in Nat : a + b <= m /\ c <= a =>
          a - c \in Nat /\ b + c \in Nat /\ (a - c) + (b + c) <= m
    OBVIOUS
  <2>3. /\ call.count - n \in Nat /\ call.done + n \in Nat
        /\ (call.count - n) + (call.done + n) <= MaxCount
    BY <1>3, <1>4, <2>2
  <2>4. call'.count \in Nat /\ call'.done \in Nat /\ call'.count + call'.done <= MaxCount
    BY <1>6, <2>3
  <2> QED BY <1>6, <2>1, <2>4 DEF CallOK, Numbers
<1>18. NumbersOK'
  <2>1. Sent' = next + typed + ((call.done + n) + (call.count - n))
    BY <1>1, <1>6 DEF Sent
  <2>2. Sent' <= MaxChars
    BY <1>4, <2>1
  <2> QED BY <1>1, <2>2 DEF PortInv, FieldsOK, NumbersOK, Numbers
<1>19. CopiesOK'
  BY <1>6 DEF CopiesOK, WriteCopyOK, ReadCopyOK
<1> QED BY <1>14, <1>15, <1>16, <1>17, <1>18, <1>19 DEF FieldsOK, PortStep, Port!Next


\* The parts of the two streams are sequences of characters.
LEMMA StreamsSeq ==
    ASSUME PortInv
    PROVE  /\ RingOf(sp.rx_buf, sp.rx_in, sp.rx_out) \in Seq(Numbers)
           /\ RingOf(sp.tx_buf, sp.tx_in, sp.tx_out) \in Seq(Numbers)
           /\ core.rx \in Seq(Numbers) /\ core.tx \in Seq(Numbers)
<1>1. /\ sp.rx_in \in Slots /\ sp.rx_out \in Slots /\ sp.tx_in \in Slots /\ sp.tx_out \in Slots
      /\ sp.rx_buf \in [Slots -> Numbers] /\ sp.tx_buf \in [Slots -> Numbers]
      /\ core.rx \in Seq(Numbers) /\ core.tx \in Seq(Numbers)
  BY DEF PortInv, FieldsOK, SpOK, CoreOK
<1>2. \A in, out \in Slots : \A buf \in [Slots -> Numbers] : RingOf(buf, in, out) \in Seq(Numbers)
  BY RingSeq
<1> QED BY <1>1, <1>2

\* A read call obtains the oldest characters.
LEMMA ReadCopyPort ==
    ASSUME PortInv, ReadCopy PROVE FieldsOK' /\ CopiesOK' /\ PortStep
<1> DEFINE n == call.n
           piece == Piece(sp.rx_buf, sp.rx_out, n)
<1>1. call.op = "read" /\ call.pc = "copy" /\ UNCHANGED <<core, typed, isr, next>>
      /\ CallShape(call)
  BY DEF ReadCopy, At, PortInv, IInv, Shapes, CallShape
<1>2. /\ call.out = sp.rx_out /\ n \in 1..call.count
      /\ sp.rx_out + n <= BUF_LEN /\ n <= Used(sp.rx_in, sp.rx_out)
  BY <1>1 DEF PortInv, CopiesOK, ReadCopyOK
<1>3. /\ sp.rx_in \in Slots /\ sp.rx_out \in Slots /\ sp.rx_buf \in [Slots -> Numbers]
      /\ core.rx \in Seq(Numbers) /\ call.count \in Nat /\ call.done \in Nat
      /\ call.count + call.done <= MaxCount /\ call.got \in Seq(Numbers)
  BY <1>1 DEF PortInv, FieldsOK, SpOK, CoreOK, CallOK
<1>4. n \in Nat /\ n >= 1 /\ n <= call.count
  BY <1>2, <1>3
<1>5. sp' = [timeout |-> sp.timeout, irq_enable |-> sp.irq_enable,
             host_inactive |-> sp.host_inactive,
             rx_in |-> sp.rx_in, rx_out |-> (sp.rx_out + n) % BUF_LEN,
             tx_in |-> sp.tx_in, tx_out |-> sp.tx_out,
             rx_buf |-> sp.rx_buf, tx_buf |-> sp.tx_buf]
  BY <1>2 DEF ReadCopy, PortInv, IInv, Shapes
<1>6. /\ call'.op = "read" /\ call'.pc \in {"return", "look"} /\ call'.done = call.done + n
      /\ call'.count = call.count - n /\ call'.got = call.got \o piece
  BY <1>1, <1>2, <1>3 DEF ReadCopy, CallShape, Piece
<1>7. (sp.rx_out + n) % BUF_LEN \in Slots
  <2>1. sp.rx_out \in Int
    BY <1>3 DEF Slots
  <2> QED BY <1>4, <2>1, ModInSlots
<1> HIDE DEF n
<1>8. piece \in Seq(Numbers)
  <2>1. \A buf \in [Slots -> Numbers] : \A from \in Slots : \A m \in Nat :
          from + m <= BUF_LEN => Piece(buf, from, m) \in Seq(Numbers)
    BY PieceSeq
  <2> QED BY <1>2, <1>3, <1>4, <2>1
<1>9. ToProgram \in Seq(Numbers) /\ ToProgram' \in Seq(Numbers)
  <2>1. \A in, out \in Slots : \A buf \in [Slots -> Numbers] : \A rest \in Seq(Numbers) :
          RingOf(buf, in, out) \o rest \in Seq(Numbers)
    BY RingSeq, ConcatProperties
  <2>2. ToProgram' = RingOf(sp.rx_buf, sp.rx_in, (sp.rx_out + n) % BUF_LEN) \o core.rx
    BY <1>1, <1>5 DEF ToProgram, RingOf
  <2> QED BY <1>3, <1>7, <2>1, <2>2 DEF ToProgram
<1>10. /\ n \in 1..Len(ToProgram) /\ piece = SubSeq(ToProgram, 1, n)
       /\ ToProgram' = SubSeq(ToProgram, n + 1, Len(ToProgram))
  <2>1. PICK in \in Slots, out \in Slots, m \in Nat, buf \in [Slots -> Numbers],
             rest \in Seq(Numbers), before \in Seq(Numbers), after \in Seq(Numbers) :
          /\ in = sp.rx_in /\ out = sp.rx_out /\ m = n /\ buf = sp.rx_buf
          /\ rest = core.rx /\ before = ToProgram /\ after = ToProgram'
    BY <1>3, <1>4, <1>9
  <2>2. m >= 1 /\ out + m <= BUF_LEN /\ m <= Used(in, out)
    BY <1>2, <1>4, <2>1
  <2>3. before = RingOf(buf, in, out) \o rest
    BY <2>1 DEF ToProgram
  <2>4. after = RingOf(buf, in, Ahead(out, m)) \o rest
    BY <1>1, <1>5, <2>1 DEF ToProgram, RingOf, Ahead
  <2>5. Taken(m, RingOf(buf, in, out) \o rest, Piece(buf, out, m),
              RingOf(buf, in, Ahead(out, m)) \o rest)
    BY <2>2, TakeSome
  <2>6. Taken(n, ToProgram, piece, ToProgram')
    BY <2>1, <2>3, <2>4, <2>5
  <2> QED BY <2>6 DEF Taken
<1>11. Port!Obtain
  <2>1. UNCHANGED <<Given, ToHost, typed>>
    BY <1>1, <1>5, <1>6 DEF Given, ToHost, RingOf
  <2>2. call'.got = call.got \o SubSeq(ToProgram, 1, n)
    BY <1>6, <1>10
  <2> QED BY <1>10, <2>1, <2>2 DEF Port!Obtain, Given, ToHost, ToProgram
<1>12. SpOK'
  BY <1>5, <1>7 DEF PortInv, FieldsOK, SpOK, Slots, Numbers
<1>13. CoreOK' /\ IsrOK' /\ SpaceOK'
  BY <1>1 DEF PortInv, FieldsOK, CoreOK, IsrOK, SpaceOK, Numbers
<1>14. CallOK'
  <2>1. call'.got \in Seq(Numbers)
    <3>1. \A s, t \in Seq(Numbers) : s \o t \in Seq(Numbers)
      BY ConcatProperties
    <3> QED BY <1>3, <1>6, <1>8, <3>1
  <2>2. call'.count \in Nat /\ call'.done \in Nat /\ call'.count + call'.done <= MaxCount
    BY <1>3, <1>4, <1>6
  <2> QED BY <1>6, <2>1, <2>2 DEF CallOK, Numbers
<1>15. NumbersOK'
  BY <1>1, <1>6 DEF PortInv, FieldsOK, NumbersOK, Sent, Numbers
<1>16. CopiesOK'
  BY <1>6 DEF CopiesOK, WriteCopyOK, ReadCopyOK
<1> QED BY <1>11, <1>12, <1>13, <1>14, <1>15, <1>16 DEF FieldsOK, PortStep, Port!Next

\* A ring that is not full has a slot free besides the one kept free.
LEMMA NotFull ==
    ASSUME sp.rx_in \in Slots, sp.rx_out \in Slots, ~RxFull
    PROVE  Used(sp.rx_in, sp.rx_out) + 1 <= BUF_LEN - 1
<1>1. \A in, out \in Slots :
        (in + 1) % BUF_LEN # out => Used(in, out) + 1 <= BUF_LEN - 1
  <2> SUFFICES ASSUME NEW in \in Slots, NEW out \in Slots, (in + 1) % BUF_LEN # out
               PROVE  Used(in, out) + 1 <= BUF_LEN - 1
    OBVIOUS
  <2>1. (in + 1) % BUF_LEN = SlotAt(in + 1)
    <3>1. in + 1 \in 0..(2 * BUF_LEN - 1)
      BY SizesAssumption DEF Slots
    <3> QED BY <3>1, ModOnce
  <2>2. Used(in, out) = IF in >= out THEN in - out ELSE in + BUF_LEN - out
    BY UsedIs
  <2>3. SlotAt(in + 1) # out
    BY <2>1
  <2> QED BY <2>2, <2>3, SizesAssumption DEF SlotAt, Slots
<1> QED BY <1>1 DEF RxFull

\* One character more or less in a ring.
LEMMA UsedSteps ==
    \A in, out \in Slots :
        /\ Used(in, out) + 1 <= BUF_LEN - 1 =>
             Used((in + 1) % BUF_LEN, out) = Used(in, out) + 1
        /\ in # out => Used(in, (out + 1) % BUF_LEN) = Used(in, out) - 1
<1> TAKE in, out \in Slots
<1>1. /\ (in + 1) % BUF_LEN = SlotAt(in + 1) /\ SlotAt(in + 1) \in Slots
      /\ (out + 1) % BUF_LEN = SlotAt(out + 1) /\ SlotAt(out + 1) \in Slots
  <2>1. in + 1 \in 0..(2 * BUF_LEN - 1) /\ out + 1 \in 0..(2 * BUF_LEN - 1)
    BY SizesAssumption DEF Slots
  <2> QED BY <2>1, ModOnce
<1>2. Used(in, out) = IF in >= out THEN in - out ELSE in + BUF_LEN - out
  BY UsedIs
<1>3. Used(SlotAt(in + 1), out) = IF SlotAt(in + 1) >= out THEN SlotAt(in + 1) - out
                                  ELSE SlotAt(in + 1) + BUF_LEN - out
  BY <1>1, UsedIs
<1>4. Used(in, SlotAt(out + 1)) = IF in >= SlotAt(out + 1) THEN in - SlotAt(out + 1)
                                  ELSE in + BUF_LEN - SlotAt(out + 1)
  BY <1>1, UsedIs
<1>5. Used(in, out) + 1 <= BUF_LEN - 1 => Used(SlotAt(in + 1), out) = Used(in, out) + 1
  BY <1>2, <1>3, SizesAssumption DEF SlotAt, Slots
<1>6. in # out => Used(in, SlotAt(out + 1)) = Used(in, out) - 1
  BY <1>2, <1>4, SizesAssumption DEF SlotAt, Slots
<1> QED BY <1>1, <1>5, <1>6

\* The routine moves a character from the FIFO to the ring: the program's
\* stream is as before.
LEMMA IsrReadPort ==
    ASSUME PortInv, IsrRead PROVE FieldsOK' /\ CopiesOK' /\ PortStep
<1> DEFINE new == [sp.rx_buf EXCEPT ![sp.rx_in] = Head(core.rx)]
<1>1. UNCHANGED <<typed, call, next>> /\ ~RxFull /\ core.rx # << >>
  BY DEF IsrRead
<1>2. /\ sp.rx_in \in Slots /\ sp.rx_out \in Slots /\ sp.rx_buf \in [Slots -> Numbers]
      /\ core.rx \in Seq(Numbers) /\ Len(core.rx) <= Depth
  BY DEF PortInv, FieldsOK, SpOK, CoreOK
<1>3. Used(sp.rx_in, sp.rx_out) + 1 <= BUF_LEN - 1
  BY <1>1, <1>2, NotFull
<1>4. sp' = [timeout |-> sp.timeout, irq_enable |-> sp.irq_enable,
             host_inactive |-> sp.host_inactive,
             rx_in |-> (sp.rx_in + 1) % BUF_LEN, rx_out |-> sp.rx_out,
             tx_in |-> sp.tx_in, tx_out |-> sp.tx_out,
             rx_buf |-> new, tx_buf |-> sp.tx_buf]
  BY DEF IsrRead, PortInv, IInv, Shapes
<1>5. core' = [tx |-> core.tx, rx |-> Tail(core.rx), pause |-> FALSE, ac |-> core.ac]
  BY <1>1 DEF IsrRead, ReadData, PortInv, FieldsOK, CoreOK
<1>6. /\ Head(core.rx) \in Numbers /\ Tail(core.rx) \in Seq(Numbers)
      /\ Len(Tail(core.rx)) <= Depth
  <2>1. \A s \in Seq(Numbers) : s # << >> =>
          /\ Head(s) \in Numbers /\ Tail(s) \in Seq(Numbers)
          /\ Len(s) \in Nat /\ Len(Tail(s)) = Len(s) - 1
    BY HeadTailProperties, LenProperties
  <2>2. /\ Head(core.rx) \in Numbers /\ Tail(core.rx) \in Seq(Numbers)
        /\ Len(core.rx) \in Nat /\ Len(Tail(core.rx)) = Len(core.rx) - 1
    BY <1>1, <1>2, <2>1
  <2> QED BY <1>2, <2>2, SizesAssumption
<1>7. new \in [Slots -> Numbers] /\ new[sp.rx_in] = Head(core.rx)
      /\ \A s \in Slots : s # sp.rx_in => new[s] = sp.rx_buf[s]
  BY <1>2, <1>6
<1> HIDE DEF new
<1>8. ToProgram' = ToProgram
  <2>1. PICK in \in Slots, out \in Slots, n \in Nat, buf \in [Slots -> Numbers],
             after \in [Slots -> Numbers], fifo \in Seq(Numbers) :
          /\ in = sp.rx_in /\ out = sp.rx_out /\ n = 1 /\ buf = sp.rx_buf /\ after = new
          /\ fifo = core.rx
    BY <1>2, <1>7
  <2>2. /\ n = 1 /\ Used(in, out) + n <= BUF_LEN - 1 /\ fifo # << >>
        /\ after[in] = Head(fifo) /\ Untouched(buf, after, in, n)
    <3>1. \A s \in Slots : s \notin in..(in + n - 1) => after[s] = buf[s]
      <4>1. in \in in..(in + n - 1)
        BY <2>1 DEF Slots
      <4> QED BY <1>7, <2>1, <4>1
    <3> QED BY <1>1, <1>3, <1>7, <2>1, <3>1 DEF Untouched
  <2>3. Stored(in, out, n, buf, after, fifo)
    BY <2>2 DEF Stored
  <2>4. RingOf(after, Ahead(in, n), out) \o Tail(fifo) = RingOf(buf, in, out) \o fifo
    <3>1. \A j \in Nat : \A b, a \in [Slots -> Numbers] : \A f \in Seq(Numbers) :
            Stored(in, out, j, b, a, f)
            => RingOf(a, Ahead(in, j), out) \o Tail(f) = RingOf(b, in, out) \o f
      BY Received, Zenon
    <3>2. \A f \in Seq(Numbers) :
            Stored(in, out, n, buf, after, f)
            => RingOf(after, Ahead(in, n), out) \o Tail(f) = RingOf(buf, in, out) \o f
      BY <3>1, Zenon
    <3> QED BY <2>3, <3>2, Zenon
  <2>5. ToProgram = RingOf(buf, in, out) \o fifo
    BY <2>1 DEF ToProgram
  <2>6. ToProgram' = RingOf(after, Ahead(in, n), out) \o Tail(fifo)
    BY <1>4, <1>5, <2>1 DEF ToProgram, RingOf, Ahead
  <2> QED BY <2>4, <2>5, <2>6
<1>9. ToHost' = ToHost
  BY <1>4, <1>5 DEF ToHost, RingOf
<1>10. (sp.rx_in + 1) % BUF_LEN \in Slots
       /\ Used((sp.rx_in + 1) % BUF_LEN, sp.rx_out) = Used(sp.rx_in, sp.rx_out) + 1
  <2>1. sp.rx_in + 1 \in Int
    BY <1>2 DEF Slots
  <2> QED BY <1>2, <1>3, <2>1, ModInSlots, UsedSteps
<1>11. SpOK'
  BY <1>4, <1>7, <1>10 DEF PortInv, FieldsOK, SpOK, Slots, Numbers
<1>12. CoreOK'
  BY <1>5, <1>6 DEF PortInv, FieldsOK, CoreOK, Numbers
<1>13. IsrOK' /\ isr'.space = isr.space
  <2>1. isr = [pc |-> isr.pc, wi |-> isr.wi, space |-> isr.space, avail |-> isr.avail]
        /\ IsrOK
    BY DEF PortInv, IInv, Shapes, FieldsOK
  <2> DEFINE more == Tail(core.rx) # << >>
  <2>2. isr' = [isr EXCEPT !.avail = more]
    BY DEF IsrRead
  <2>3. more \in BOOLEAN
    OBVIOUS
  <2> HIDE DEF more
  <2>4. isr'.pc = isr.pc /\ isr'.wi = isr.wi /\ isr'.space = isr.space /\ isr'.avail = more
    BY <2>1, <2>2
  <2> QED BY <2>1, <2>3, <2>4 DEF IsrOK
<1>14. SpaceOK'
  BY <1>5, <1>13 DEF PortInv, FieldsOK, SpaceOK
<1>15. CopiesOK'
  <2>1. WriteCopyOK'
    BY <1>1, <1>4 DEF PortInv, CopiesOK, WriteCopyOK, Used
  <2>2. ReadCopyOK'
    <3>1. /\ sp'.rx_out = sp.rx_out
          /\ Used(sp'.rx_in, sp'.rx_out) = Used(sp.rx_in, sp.rx_out) + 1
      BY <1>4, <1>10
    <3>2. \A in, out \in Slots : Used(in, out) \in Nat
      BY UsedIs
    <3>3. Used(sp.rx_in, sp.rx_out) \in Nat
      BY <1>2, <3>2
    <3>4. CASE call.op = "read" /\ call.pc = "copy"
      <4>1. /\ call.out = sp.rx_out /\ call.n \in 1..call.count
            /\ call.out + call.n <= BUF_LEN /\ call.n <= Used(sp.rx_in, sp.rx_out)
            /\ call.count \in Nat
        BY <3>4 DEF PortInv, CopiesOK, ReadCopyOK, FieldsOK, CallOK
      <4>2. call.n <= Used(sp'.rx_in, sp'.rx_out)
        BY <3>1, <3>3, <4>1
      <4>3. (Used(sp.rx_in, sp.rx_out))' = Used(sp'.rx_in, sp'.rx_out)
        BY DEF Used
      <4> QED BY <1>1, <3>1, <4>1, <4>2, <4>3 DEF ReadCopyOK
    <3>5. CASE ~(call.op = "read" /\ call.pc = "copy")
      BY <1>1, <3>5 DEF ReadCopyOK
    <3> QED BY <3>4, <3>5
  <2> QED BY <2>1, <2>2 DEF CopiesOK
<1> QED BY <1>1, <1>8, <1>9, <1>11, <1>12, <1>13, <1>14, <1>15, SameCall, Stutters DEF FieldsOK

\* And one from the ring to the FIFO, which has room for it.
LEMMA IsrWritePort ==
    ASSUME PortInv, IsrWrite PROVE FieldsOK' /\ CopiesOK' /\ PortStep
<1> DEFINE char == sp.tx_buf[sp.tx_out]
<1>1. UNCHANGED <<typed, call, next>> /\ isr.space > 0 /\ sp.tx_out # sp.tx_in
  BY DEF IsrWrite, Drained
<1>2. /\ sp.tx_in \in Slots /\ sp.tx_out \in Slots /\ sp.tx_buf \in [Slots -> Numbers]
      /\ core.tx \in Seq(Numbers) /\ isr.space \in Nat /\ isr.space + Len(core.tx) <= Depth
  BY DEF PortInv, FieldsOK, SpOK, CoreOK, IsrOK, SpaceOK
<1>3. Len(core.tx) \in Nat /\ Len(core.tx) < Depth
  <2>1. Len(core.tx) \in Nat
    BY <1>2
  <2> QED BY <1>1, <1>2, <2>1, SizesAssumption
<1>4. sp' = [timeout |-> sp.timeout, irq_enable |-> sp.irq_enable,
             host_inactive |-> sp.host_inactive,
             rx_in |-> sp.rx_in, rx_out |-> sp.rx_out,
             tx_in |-> sp.tx_in, tx_out |-> (sp.tx_out + 1) % BUF_LEN,
             rx_buf |-> sp.rx_buf, tx_buf |-> sp.tx_buf]
  BY DEF IsrWrite, PortInv, IInv, Shapes
<1>5. core' = [tx |-> Append(core.tx, char), rx |-> core.rx,
               pause |-> core.pause, ac |-> core.ac]
  <2>1. core' = WriteData(core, char)
    BY DEF IsrWrite
  <2> HIDE DEF char
  <2>2. PICK tx : tx = IF Len(core.tx) = Depth THEN core.tx ELSE Append(core.tx, char)
    OBVIOUS
  <2>3. core' = [core EXCEPT !.tx = tx]
    BY <2>1, <2>2, Zenon DEF WriteData
  <2>4. Len(core.tx) # Depth
    BY <1>3, SizesAssumption
  <2>5. tx = Append(core.tx, char)
    BY <2>2, <2>4, Zenon
  <2>6. core' = [tx |-> tx, rx |-> core.rx, pause |-> core.pause, ac |-> core.ac]
    BY <2>3 DEF PortInv, FieldsOK, CoreOK
  <2> QED BY <2>5, <2>6, Zenon
<1>6. char \in Numbers
  BY <1>2
<1> HIDE DEF char
<1>7. Append(core.tx, char) \in Seq(Numbers) /\ Len(Append(core.tx, char)) = Len(core.tx) + 1
  <2>1. \A s \in Seq(Numbers) : \A e \in Numbers :
          Append(s, e) \in Seq(Numbers) /\ Len(Append(s, e)) = Len(s) + 1
    BY AppendProperties
  <2> QED BY <1>2, <1>6, <2>1
<1>8. ToHost' = ToHost
  <2>1. PICK in \in Slots, out \in Slots, n \in Nat, buf \in [Slots -> Numbers],
             fifo \in Seq(Numbers) :
          /\ in = sp.tx_in /\ out = sp.tx_out /\ n = 1 /\ buf = sp.tx_buf /\ fifo = core.tx
    BY <1>2
  <2>2. n = 1 /\ in # out
    BY <1>1, <2>1
  <2>3. Append(fifo, buf[out]) \o RingOf(buf, in, Ahead(out, n)) =
          fifo \o RingOf(buf, in, out)
    BY <2>2, Transmitted
  <2>4. ToHost = fifo \o RingOf(buf, in, out)
    BY <2>1 DEF ToHost
  <2>5. ToHost' = Append(fifo, buf[out]) \o RingOf(buf, in, Ahead(out, n))
    BY <1>4, <1>5, <2>1 DEF ToHost, RingOf, Ahead, char
  <2> QED BY <2>3, <2>4, <2>5
<1>9. ToProgram' = ToProgram
  BY <1>4, <1>5 DEF ToProgram, RingOf
<1>10. (sp.tx_out + 1) % BUF_LEN \in Slots
       /\ Used(sp.tx_in, (sp.tx_out + 1) % BUF_LEN) = Used(sp.tx_in, sp.tx_out) - 1
  <2>1. sp.tx_out + 1 \in Int
    BY <1>2 DEF Slots
  <2> QED BY <1>1, <1>2, <2>1, ModInSlots, UsedSteps
<1>11. SpOK'
  BY <1>4, <1>10 DEF PortInv, FieldsOK, SpOK, Slots, Numbers
<1>12. CoreOK'
  BY <1>5, <1>7 DEF PortInv, FieldsOK, CoreOK, Numbers
<1>13. IsrOK' /\ isr'.space = isr.space - 1
  <2>1. isr = [pc |-> isr.pc, wi |-> isr.wi, space |-> isr.space, avail |-> isr.avail]
        /\ IsrOK
    BY DEF PortInv, IInv, Shapes, FieldsOK
  <2>2. isr' = [isr EXCEPT !.space = isr.space - 1]
    BY DEF IsrWrite
  <2>3. isr'.pc = isr.pc /\ isr'.wi = isr.wi /\ isr'.avail = isr.avail
        /\ isr'.space = isr.space - 1
    BY <2>1, <2>2
  <2>4. isr'.space \in Nat
    BY <1>1, <1>2, <2>3
  <2> QED BY <2>1, <2>3, <2>4 DEF IsrOK
<1>14. SpaceOK'
  BY <1>2, <1>3, <1>5, <1>7, <1>13, SizesAssumption DEF SpaceOK
<1>15. CopiesOK'
  <2>1. ReadCopyOK'
    BY <1>1, <1>4 DEF PortInv, CopiesOK, ReadCopyOK, Used
  <2>2. WriteCopyOK'
    <3>1. /\ sp'.tx_in = sp.tx_in
          /\ Used(sp'.tx_in, sp'.tx_out) = Used(sp.tx_in, sp.tx_out) - 1
      BY <1>4, <1>10
    <3>2. \A in, out \in Slots : Used(in, out) \in Nat
      BY UsedIs
    <3>3. Used(sp.tx_in, sp.tx_out) \in Nat
      BY <1>2, <3>2
    <3>4. CASE call.op = "write" /\ call.pc = "copy"
      <4>1. /\ call.in = sp.tx_in /\ call.n \in 1..call.count
            /\ call.in + call.n <= BUF_LEN
            /\ Used(sp.tx_in, sp.tx_out) + call.n <= BUF_LEN - 1
            /\ call.count \in Nat
        BY <3>4 DEF PortInv, CopiesOK, WriteCopyOK, FieldsOK, CallOK
      <4>2. Used(sp'.tx_in, sp'.tx_out) + call.n <= BUF_LEN - 1
        BY <3>1, <3>3, <4>1, SizesAssumption
      <4>3. (Used(sp.tx_in, sp.tx_out))' = Used(sp'.tx_in, sp'.tx_out)
        BY DEF Used
      <4> QED BY <1>1, <3>1, <4>1, <4>2, <4>3 DEF WriteCopyOK
    <3>5. CASE ~(call.op = "write" /\ call.pc = "copy")
      BY <1>1, <3>5 DEF WriteCopyOK
    <3> QED BY <3>4, <3>5
  <2> QED BY <2>1, <2>2 DEF CopiesOK
<1> QED BY <1>1, <1>8, <1>9, <1>11, <1>12, <1>13, <1>14, <1>15, SameCall, Stutters DEF FieldsOK

LEMMA HostSendsPort ==
    ASSUME PortInv, HostSends PROVE FieldsOK' /\ CopiesOK' /\ PortStep
<1>1. UNCHANGED <<sp, call, isr, next>> /\ Len(core.rx) < Depth /\ Sent < MaxChars
      /\ typed' = typed + 1
  BY DEF HostSends
<1>2. /\ typed \in Nat /\ next \in Nat /\ typed \in Numbers
      /\ (call.op = "write" => call.done \in Nat /\ call.count \in Nat)
  BY DEF PortInv, FieldsOK, NumbersOK, CallOK, Numbers
<1>3. NumbersOK'
  <2>1. next' = next /\ typed' = typed + 1 /\ call' = call
    BY <1>1
  <2>2. Sent < MaxChars => Sent + 1 <= MaxChars /\ typed + 1 <= MaxChars
    BY <1>2, SizesAssumption DEF Sent
  <2>3. Sent' = Sent + 1
    BY <1>2, <2>1 DEF Sent
  <2>4. typed' \in Numbers /\ Sent' <= MaxChars
    BY <1>1, <1>2, <2>2, <2>3, SizesAssumption DEF Numbers
  <2> QED BY <2>1, <2>4 DEF PortInv, FieldsOK, NumbersOK, Numbers
<1>4. core' = [tx |-> core.tx, rx |-> Append(core.rx, typed), pause |-> core.pause, ac |-> TRUE]
  BY DEF HostSends, PortInv, FieldsOK, CoreOK
<1>5. /\ RingOf(sp.rx_buf, sp.rx_in, sp.rx_out) \in Seq(Numbers) /\ core.rx \in Seq(Numbers)
  BY StreamsSeq
<1>6. Append(core.rx, typed) \in Seq(Numbers) /\ Len(Append(core.rx, typed)) <= Depth
  <2>1. \A s \in Seq(Numbers) : \A e \in Numbers :
          Append(s, e) \in Seq(Numbers) /\ Len(Append(s, e)) = Len(s) + 1 /\ Len(s) \in Nat
    BY AppendProperties, LenProperties
  <2>2. Append(core.rx, typed) \in Seq(Numbers) /\ Len(core.rx) \in Nat
        /\ Len(Append(core.rx, typed)) = Len(core.rx) + 1
    BY <1>2, <1>5, <2>1
  <2> QED BY <1>1, <2>2, SizesAssumption
<1>7. CoreOK'
  <2>1. core'.tx = core.tx /\ core'.rx = Append(core.rx, typed)
        /\ core'.pause = core.pause /\ core'.ac = TRUE
    BY <1>4
  <2> QED BY <1>4, <1>6, <2>1 DEF PortInv, FieldsOK, CoreOK, Numbers
<1>8. SpOK' /\ IsrOK' /\ SpaceOK' /\ CallOK'
  <2>1. core'.tx = core.tx
    BY <1>4
  <2> QED BY <1>1, <2>1
          DEF PortInv, FieldsOK, SpOK, IsrOK, SpaceOK, CallOK, Slots, Numbers
<1>9. CopiesOK'
  BY <1>1 DEF PortInv, CopiesOK, WriteCopyOK, ReadCopyOK, Used
<1>10. Port!Type
  <2>1. ToProgram' = RingOf(sp.rx_buf, sp.rx_in, sp.rx_out) \o Append(core.rx, typed)
    BY <1>1, <1>4 DEF ToProgram, RingOf
  <2>2. ToProgram' = Append(ToProgram, typed)
    BY <1>2, <1>5, <2>1, AppendLast DEF ToProgram
  <2>3. UNCHANGED <<Given, ToHost, call.got>>
    BY <1>1, <1>4 DEF Given, ToHost, RingOf
  <2> QED BY <1>1, <2>2, <2>3 DEF Port!Type, Given, ToHost, ToProgram
<1> QED BY <1>3, <1>7, <1>8, <1>9, <1>10 DEF FieldsOK, PortStep, Port!Next

LEMMA HostTakesPort ==
    ASSUME PortInv, HostTakes PROVE FieldsOK' /\ CopiesOK' /\ PortStep
<1>1. UNCHANGED <<sp, typed, call, isr, next>> /\ core.tx # << >>
  BY DEF HostTakes
<1>2. core' = [tx |-> Tail(core.tx), rx |-> core.rx, pause |-> core.pause, ac |-> core.ac]
  BY DEF HostTakes, PortInv, FieldsOK, CoreOK
<1>3. RingOf(sp.tx_buf, sp.tx_in, sp.tx_out) \in Seq(Numbers) /\ core.tx \in Seq(Numbers)
  BY StreamsSeq
<1>4. /\ Tail(core.tx) \in Seq(Numbers) /\ Len(core.tx) \in Nat
      /\ Len(Tail(core.tx)) = Len(core.tx) - 1
  <2>1. \A s \in Seq(Numbers) : s # << >> =>
          Tail(s) \in Seq(Numbers) /\ Len(s) \in Nat /\ Len(Tail(s)) = Len(s) - 1
    BY HeadTailProperties, LenProperties
  <2> QED BY <1>1, <1>3, <2>1
<1>5. CoreOK'
  BY <1>2, <1>4 DEF PortInv, FieldsOK, CoreOK, Numbers
<1>6. SpaceOK'
  <2>1. isr.space \in Nat /\ isr.space + Len(core.tx) <= Depth
    BY DEF PortInv, FieldsOK, IsrOK, SpaceOK
  <2>2. isr'.space = isr.space /\ core'.tx = Tail(core.tx)
    BY <1>1, <1>2
  <2> QED BY <1>4, <2>1, <2>2, SizesAssumption DEF SpaceOK
<1>7. SpOK' /\ IsrOK'
  BY <1>1 DEF PortInv, FieldsOK, SpOK, IsrOK, Slots, Numbers
<1>8. CopiesOK'
  BY <1>1 DEF PortInv, CopiesOK, WriteCopyOK, ReadCopyOK, Used
<1>9. Port!Arrive
  <2>1. ToHost' = Tail(core.tx) \o RingOf(sp.tx_buf, sp.tx_in, sp.tx_out)
    BY <1>1, <1>2 DEF ToHost, RingOf
  <2>2. ToHost # << >> /\ ToHost' = Tail(ToHost)
    BY <1>1, <1>3, <2>1, TailOfFirst DEF ToHost
  <2>3. UNCHANGED <<Given, typed, ToProgram, call.got>>
    BY <1>1, <1>2 DEF Given, ToProgram, RingOf
  <2> QED BY <2>2, <2>3 DEF Port!Arrive, Given, ToHost, ToProgram
<1>10. CallOK' /\ NumbersOK'
  BY <1>1, SameCall
<1> QED BY <1>5, <1>6, <1>7, <1>8, <1>9, <1>10 DEF FieldsOK, PortStep, Port!Next

\* Every step keeps the invariant and is a step of the port or none.
LEMMA NextPort == ASSUME PortInv, [Next]_vars PROVE PortInv' /\ PortStep
<1>1. IInv'
  BY NextIInv DEF PortInv
<1>2. CASE UNCHANGED vars
  <2>1. UNCHANGED <<sp, core, typed, call, isr, next>>
    BY <1>2 DEF vars
  <2>2. SpOK' /\ CoreOK' /\ IsrOK' /\ SpaceOK'
    BY <2>1 DEF PortInv, FieldsOK, SpOK, CoreOK, IsrOK, SpaceOK, Slots, Numbers
  <2> QED BY <1>1, <2>1, <2>2, SameCall, NoTraffic DEF PortInv
<1>3. CASE Begin \/ SetTimeout \/ TimeoutTick
  BY <1>1, <1>3, BeginPort, ClockPort DEF PortInv
<1>4. CASE HostSends \/ HostPolls \/ HostTakes
  BY <1>1, <1>4, HostSendsPort, HostPollsPort, HostTakesPort DEF PortInv
<1>5. CASE Thread
  BY <1>1, <1>5, LookPort, WaitPort, WriteCopyPort, WriteEnablePort, WriteReturnPort,
     ReadCopyPort, ReadReturnPort, CloseReturnPort DEF Thread, PortInv
<1>6. CASE Isr
  BY <1>1, <1>6, IsrControlPort, IsrReadPort, IsrEndPort, IsrWritePort DEF Isr, PortInv
<1> QED BY <1>2, <1>3, <1>4, <1>5, <1>6 DEF Next

-----------------------------------------------------------------------------
(* Theorems *)

\* The invariant behind it: the copies of the ring pointers that thread and
\* interrupt routine hold stay usable while the other side moves the originals.
LEMMA JtagUart_IInv == Spec => []IInv
<1>1. Init => IInv
  BY InitIInv
<1>2. IInv /\ [Next]_vars => IInv'
  BY NextIInv
<1> QED BY <1>1, <1>2, PTL DEF Spec

\* Neither direction goes to sleep: an interrupt is off only while the call that
\* turns it on again is on its way, or while it has nothing to do.
THEOREM JtagUart_InterruptsResume == Spec => []InterruptsResume
<1>1. IInv => InterruptsResume
  BY DEF IInv
<1> QED BY <1>1, JtagUart_IInv, PTL

\* What makes the streams exact: a copying call owns the end of the ring it
\* works on, and the routine never writes more than the FIFO has room for.
LEMMA JtagUart_PortInv == Spec => []PortInv
<1>1. Init => PortInv
  BY InitPort
<1>2. PortInv /\ [Next]_vars => PortInv'
  BY NextPort
<1> QED BY <1>1, <1>2, PTL DEF Spec

\* The fields of altera_avalon_jtag_uart_state, the local variables of the calls
\* and the FIFOs of the core stay in range.
THEOREM JtagUart_TypeCorrect == Spec => []TypeOK
BY JtagUart_PortInv, PortInvType, PTL

\* The driver and the core are a queue of characters each way, whatever the
\* timing of interrupts, ticks and the host: nothing is lost, doubled or overtaken.
THEOREM JtagUart_ImplementsPort == Spec => ImplementsPort
<1>1. Init => Port!Init
  BY InitPort
<1>2. PortInv /\ [Next]_vars => [Port!Next]_(Port!vars)
  BY NextPort DEF PortStep
<1> QED BY <1>1, <1>2, JtagUart_PortInv, PTL DEF Spec, ImplementsPort, Port!Spec
=============================================================================

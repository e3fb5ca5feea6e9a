----------------------------- MODULE Dma_proofs -----------------------------
(***************************************************************************)
(* For every number of slots, every list of requests and every unit: the   *)
(* driver never launches a transfer on top of another one, whatever the    *)
(* callbacks do; and, unless a callback posts while the thread is posting, *)
(* the driver and the controller implement the two channels of             *)
(* DmaChannels.                                                            *)
(***************************************************************************)
EXTENDS Dma, SequenceTheorems, TLAPS

\* What the records are made of.
Shapes ==
    /\ dev = [unit |-> dev.unit, stream |-> dev.stream, launch |-> dev.launch,
              active |-> dev.active]
    /\ core = [raddr |-> core.raddr, waddr |-> core.waddr, length |-> core.length,
               mixed |-> core.mixed, done |-> core.done]
    /\ isr = [pc |-> isr.pc, tx |-> isr.tx, rx |-> isr.rx]
    /\ call = [op |-> call.op, pc |-> call.pc, len |-> call.len,
               start |-> call.start, end |-> call.end]

\* A device that the driver counts as idle neither runs nor has an interrupt
\* pending.  The routine has it counted as active until it has launched, and a
\* thread that has found it idle stays alone with it.
Alone ==
    /\ Busy => dev.active /\ ~core.done
    /\ core.done => dev.active
    /\ isr.pc = "clear" => core.done
    /\ isr.pc = "launch" => ~Busy /\ ~core.done
    /\ call.pc = "launch" => isr.pc = "off" /\ ~dev.active

IInv == Shapes /\ ~core.mixed /\ Alone

LEMMA InitIInv == Init => IInv
BY DEF Init, IInv, Shapes, Alone, Busy, Idle, Off

\* A launch on a device at rest.

LEMMA LaunchAlone ==
    ASSUME NEW q, Shapes, ~core.mixed, ~Busy, ~core.done, Launch(q)
    PROVE  /\ dev' = [unit |-> dev.unit, stream |-> dev.stream, launch |-> dev.launch,
                      active |-> dev'.active]
           /\ core' = [raddr |-> core'.raddr, waddr |-> core'.waddr,
                       length |-> core'.length, mixed |-> core'.mixed,
                       done |-> core'.done]
           /\ ~core'.mixed /\ ~core'.done /\ (Busy' => dev'.active)
<1>1. dev' = [dev EXCEPT !.active = CanLaunch(q)]
  BY DEF Launch
<1>2. dev' = [unit |-> dev.unit, stream |-> dev.stream, launch |-> dev.launch,
              active |-> CanLaunch(q)]
  BY <1>1 DEF Shapes
<1> DEFINE Written(r, w, len) == [raddr |-> r, waddr |-> w, length |-> len,
                                  mixed |-> FALSE, done |-> core.done]
           Core(r, w) == [raddr |-> r, waddr |-> w, length |-> core.length,
                          mixed |-> core.mixed, done |-> core.done]
<1>3. ASSUME NEW r, NEW w, NEW len, core' = WriteLength(Core(r, w), len)
      PROVE  core' = Written(r, w, len)
  <2>1. Busy = FALSE
    BY DEF Busy
  <2>2. core' = [Core(r, w) EXCEPT !.length = len, !.mixed = FALSE]
    BY <1>3, <2>1 DEF WriteLength
  <2> QED BY <2>2
<1>4. ASSUME NEW r, NEW w
      PROVE  /\ [core EXCEPT !.raddr = r, !.waddr = w] = Core(r, w)
             /\ [core EXCEPT !.raddr = r] = Core(r, core.waddr)
             /\ [core EXCEPT !.waddr = w] = Core(core.raddr, w)
  <2>1. [core EXCEPT !.raddr = r] = Core(r, core.waddr)
    BY DEF Shapes
  <2>2. [core EXCEPT !.waddr = w] = Core(core.raddr, w)
    BY DEF Shapes
  <2>3. [Core(r, core.waddr) EXCEPT !.waddr = w] = Core(r, w)
    OBVIOUS
  <2>4. [core EXCEPT !.raddr = r, !.waddr = w] = [[core EXCEPT !.raddr = r] EXCEPT !.waddr = w]
    OBVIOUS
  <2>5. [core EXCEPT !.raddr = r, !.waddr = w] = Core(r, w)
    BY <2>1, <2>3, <2>4, Zenon
  <2> QED BY <2>1, <2>2, <2>5
<1>5. CASE dev.launch = "bidir" /\ LaunchBidir(q)
  <2>1. \E r, w, len : core' = Written(r, w, len)
    <3> DEFINE c == [core EXCEPT !.raddr = First(q, "tx").id, !.waddr = First(q, "rx").id]
               len == Shorter(First(q, "tx").len, First(q, "rx").len)
    <3>1. core' = WriteLength(c, len)
      BY <1>5 DEF LaunchBidir
    <3>2. c = Core(First(q, "tx").id, First(q, "rx").id)
      BY <1>4
    <3> HIDE DEF c, len, Core
    <3> QED BY <1>3, <3>1, <3>2
  <2>2. CanLaunch(q)
    BY <1>5 DEF LaunchBidir, CanLaunch
  <2> QED BY <1>2, <2>1, <2>2
<1>6. CASE dev.launch = "txonly" /\ LaunchTxOnly(q)
  <2>1. \E r, w, len : core' = Written(r, w, len)
    <3> DEFINE c == [core EXCEPT !.raddr = First(q, "tx").id]
    <3>1. core' = WriteLength(c, First(q, "tx").len)
      BY <1>6 DEF LaunchTxOnly
    <3>2. c = Core(First(q, "tx").id, core.waddr)
      BY <1>4
    <3> HIDE DEF c, Core
    <3> QED BY <1>3, <3>1, <3>2
  <2>2. CanLaunch(q)
    BY <1>6 DEF LaunchTxOnly, CanLaunch
  <2> QED BY <1>2, <2>1, <2>2
<1>7. CASE dev.launch = "rxonly" /\ LaunchRxOnly(q)
  <2>1. \E r, w, len : core' = Written(r, w, len)
    <3> DEFINE c == [core EXCEPT !.waddr = First(q, "rx").id]
    <3>1. core' = WriteLength(c, First(q, "rx").len)
      BY <1>7 DEF LaunchRxOnly
    <3>2. c = Core(core.raddr, First(q, "rx").id)
      BY <1>4
    <3> HIDE DEF c, Core
    <3> QED BY <1>3, <3>1, <3>2
  <2>2. CanLaunch(q)
    BY <1>7 DEF LaunchRxOnly, CanLaunch
  <2> QED BY <1>2, <2>1, <2>2
<1>8. CASE ~CanLaunch(q) /\ UNCHANGED core
  BY <1>2, <1>8 DEF Shapes, Busy
<1> QED BY <1>5, <1>6, <1>7, <1>8 DEF Launch

\* The thread moves on in a call and changes nothing of the device.

LEMMA ThreadIInv ==
    ASSUME IInv, UNCHANGED <<dev, core, isr>>,
           call' = [op |-> call'.op, pc |-> call'.pc, len |-> call'.len,
                    start |-> call'.start, end |-> call'.end],
           call'.pc = "launch" => isr.pc = "off" /\ ~dev.active
    PROVE  IInv'
BY DEF IInv, Shapes, Alone, Busy

LEMMA PostIInv ==
    ASSUME IInv, NEW c \in Channels, Posts(c)
    PROVE  IInv'
<1> DEFINE Moved(k) == k = [op |-> k.op, pc |-> k.pc, len |-> k.len,
                            start |-> k.start, end |-> k.end]
<1>1. CASE ReadStart(c)
  <2>1. Moved(call') /\ call'.pc = "end" /\ UNCHANGED <<dev, core, isr>>
    BY <1>1 DEF ReadStart, Idle
  <2> QED BY <2>1, ThreadIInv
<1>2. CASE ReadEnd(c)
  <2>1. Moved(call') /\ call'.pc # "launch" /\ UNCHANGED <<dev, core, isr>>
    BY <1>2 DEF ReadEnd, Idle, IInv, Shapes
  <2> QED BY <2>1, ThreadIInv
<1>3. CASE Fill(c)
  <2>1. Moved(call') /\ call'.pc # "launch" /\ UNCHANGED <<dev, core, isr>>
    BY <1>3 DEF Fill, IInv, Shapes
  <2> QED BY <2>1, ThreadIInv
<1>4. CASE Publish(c)
  <2>1. Moved(call') /\ call'.pc # "launch" /\ UNCHANGED <<dev, core, isr>>
    BY <1>4 DEF Publish, IInv, Shapes
  <2> QED BY <2>1, ThreadIInv
<1>5. CASE LookActive(c)
  <2>1. Moved(call') /\ (call'.pc = "launch" => isr.pc = "off" /\ ~dev.active)
        /\ UNCHANGED <<dev, core, isr>>
    BY <1>5 DEF LookActive, At, Idle, IInv, Shapes
  <2> QED BY <2>1, ThreadIInv
<1>6. CASE CallLaunch(c)
  <2>1. ~Busy /\ ~core.done /\ Launch(queue) /\ call' = Idle /\ isr' = isr /\ isr.pc = "off"
    BY <1>6 DEF CallLaunch, At, IInv, Alone
  <2>2. Moved(call') /\ call'.pc = "idle"
    BY <2>1 DEF Idle
  <2>3. Shapes' /\ ~core'.mixed /\ ~core'.done /\ (Busy' => dev'.active)
    BY <2>1, <2>2, LaunchAlone DEF IInv, Shapes
  <2> QED BY <2>1, <2>2, <2>3 DEF IInv, Alone
<1> QED BY <1>1, <1>2, <1>3, <1>4, <1>5, <1>6 DEF Posts

\* The requests of ioctl are made on a device at rest.

LEMMA IoctlIInv == ASSUME IInv, alt_avalon_dma_ioctl PROVE IInv'
<1>1. isr' = isr /\ call' = call /\ ~Busy
  BY DEF alt_avalon_dma_ioctl, TxStreamOn, TxStreamOff, RxStreamOn, RxStreamOff, SetMode,
         Ioctl, Settled
<1>2. \/ core' = core
      \/ core' = [core EXCEPT !.raddr = Register]
      \/ core' = [core EXCEPT !.waddr = Register]
  BY DEF alt_avalon_dma_ioctl, TxStreamOn, TxStreamOff, RxStreamOn, RxStreamOff, SetMode
<1>3. core' = [raddr |-> core'.raddr, waddr |-> core'.waddr, length |-> core.length,
               mixed |-> core.mixed, done |-> core.done]
  BY <1>2 DEF IInv, Shapes
<1>4. dev' = [unit |-> dev'.unit, stream |-> dev'.stream, launch |-> dev'.launch,
              active |-> dev.active]
  <2>1. \/ \E s, l : dev' = [dev EXCEPT !.stream = s, !.launch = l]
        \/ \E u : dev' = [dev EXCEPT !.unit = u]
    BY DEF alt_avalon_dma_ioctl, TxStreamOn, TxStreamOff, RxStreamOn, RxStreamOff, SetMode
  <2> QED BY <2>1 DEF IInv, Shapes
<1> QED BY <1>1, <1>3, <1>4 DEF IInv, Shapes, Alone, Busy

LEMMA CoreDoneIInv == ASSUME IInv, CoreDone PROVE IInv'
BY DEF CoreDone, IInv, Shapes, Alone, Busy

LEMMA IsrIInv == ASSUME IInv, alt_avalon_dma_irq PROVE IInv'
<1>1. CASE IsrAdvance
  BY <1>1 DEF IsrAdvance, IInv, Shapes, Alone, Busy
<1>2. CASE IsrClear
  <2>1. core' = [raddr |-> core.raddr, waddr |-> core.waddr, length |-> core.length,
                 mixed |-> core.mixed, done |-> FALSE]
    BY <1>2 DEF IsrClear, IInv, Shapes
  <2>2. isr' = [pc |-> "launch", tx |-> isr.tx, rx |-> isr.rx]
    BY <1>2 DEF IsrClear, IInv, Shapes
  <2> QED BY <1>2, <2>1, <2>2 DEF IsrClear, IInv, Shapes, Alone, Busy
<1>3. CASE IsrLaunch
  <2>1. ~Busy /\ ~core.done /\ Launch(queue) /\ call' = call /\ call.pc # "launch"
    BY <1>3 DEF IsrLaunch, IInv, Alone
  <2>2. isr' = [pc |-> "tx", tx |-> isr.tx, rx |-> isr.rx]
    BY <1>3 DEF IsrLaunch, IInv, Shapes
  <2>3. Shapes' /\ ~core'.mixed /\ ~core'.done /\ (Busy' => dev'.active)
    BY <2>1, <2>2, LaunchAlone DEF IInv, Shapes
  <2> QED BY <2>1, <2>2, <2>3 DEF IInv, Alone
<1>4. ASSUME NEW c \in Channels, IsrCallback(c) PROVE IInv'
  <2>1. isr' = [pc |-> isr'.pc, tx |-> isr'.tx, rx |-> isr'.rx]
        /\ isr'.pc \in {"rx", "off"} /\ isr.pc \in Channels /\ call' = call
    BY <1>4 DEF IsrCallback, IInv, Shapes, Off
  <2>2. call.pc # "launch"
    BY <2>1 DEF IInv, Alone, Channels
  <2>3. CASE UNCHANGED <<dev, core>>
    BY <2>1, <2>2, <2>3 DEF IInv, Shapes, Alone, Busy
  <2>4. ASSUME NEW q, ~dev.active, Launch(q) PROVE IInv'
    <3>1. ~Busy /\ ~core.done
      BY <2>4 DEF IInv, Alone
    <3>2. Shapes' /\ ~core'.mixed /\ ~core'.done /\ (Busy' => dev'.active)
      BY <2>1, <2>4, <3>1, LaunchAlone DEF IInv, Shapes
    <3> QED BY <2>1, <2>2, <3>2 DEF IInv, Alone
  <2>5. UNCHANGED <<dev, core>> \/ \E q : ~dev.active /\ Launch(q)
    BY <1>4 DEF IsrCallback, CallbackPosts
  <2> QED BY <2>3, <2>4, <2>5
<1> QED BY <1>1, <1>2, <1>3, <1>4 DEF alt_avalon_dma_irq

LEMMA NextIInv == ASSUME IInv, [Next]_vars PROVE IInv'
<1>1. CASE UNCHANGED vars
  BY <1>1 DEF vars, IInv, Shapes, Alone, Busy
<1>2. CASE alt_avalon_dma_send
  BY <1>2, PostIInv DEF alt_avalon_dma_send, Channels
<1>3. CASE alt_avalon_dma_prepare
  BY <1>3, PostIInv DEF alt_avalon_dma_prepare, Channels
<1>4. CASE alt_avalon_dma_ioctl
  BY <1>4, IoctlIInv
<1>5. CASE alt_avalon_dma_irq
  BY <1>5, IsrIInv
<1>6. CASE CoreDone
  BY <1>6, CoreDoneIInv
<1> QED
  BY <1>1, <1>2, <1>3, <1>4, <1>5, <1>6 DEF Next, alt_dma_txchan, alt_dma_rxchan

-----------------------------------------------------------------------------
(* One transfer at a time *)

\* The invariant behind it: the controller runs only while the driver counts it
\* as active, and whoever is about to launch is alone.
LEMMA Dma_IInv == Spec => []IInv
<1>1. Init => IInv
  BY InitIInv
<1>2. IInv /\ [Next]_vars => IInv'
  BY NextIInv
<1> QED BY <1>1, <1>2, PTL DEF Spec

\* No transfer is launched on top of another one, whichever of the thread, the
\* interrupt routine and the callbacks come to launch, and in whatever order.
THEOREM Dma_OneTransferAtATime == Spec => []OneTransferAtATime
<1>1. IInv => OneTransferAtATime
  BY DEF IInv, Alone, OneTransferAtATime
<1> QED BY <1>1, Dma_IInv, PTL

-----------------------------------------------------------------------------
(* The queue of a channel as the sequence of its requests *)

Entries == [id : 0..MaxPosts, len : Lengths]
Queues == [buf : [Slots -> Entries], start : Slots, end : Slots]

\* How many requests the slots from start up to end hold.
Count(start, end) == IF end >= start THEN end - start ELSE end - start + NSLOTS
Used(q) == Count(q.start, q.end)

SlotAt(k) == IF k < NSLOTS THEN k ELSE k - NSLOTS

\* The requests of a queue but for the first "served".
RingOf(q, served) ==
    [i \in 1..(Used(q) - served) |-> q.buf[SlotAt(q.start + served + i - 1)]]

\* The requests of a queue are the last of the n that have been posted.
Numbered(q, n) ==
    \A i \in 0..(Used(q) - 1) : q.buf[SlotAt(q.start + i)].id = n - Used(q) + 1 + i

\* % NSLOTS of what is less than two rings takes one ring off at most.

LEMMA ModOnce ==
    ASSUME NEW x \in 0..(2 * NSLOTS - 1)
    PROVE  x % NSLOTS = SlotAt(x) /\ SlotAt(x) \in Slots
<1>1. CASE x < NSLOTS
  BY <1>1, DmaAssumption DEF SlotAt, Slots
<1>2. CASE x >= NSLOTS
  BY <1>2, DmaAssumption DEF SlotAt, Slots
<1> QED BY <1>1, <1>2, DmaAssumption

LEMMA AfterIs ==
    ASSUME NEW s \in Slots
    PROVE  After(s) = SlotAt(s + 1) /\ After(s) \in Slots
<1>1. s + 1 \in 0..(2 * NSLOTS - 1)
  BY DmaAssumption DEF Slots
<1> QED BY <1>1, ModOnce DEF After

LEMMA CountIs ==
    ASSUME NEW start \in Slots, NEW end \in Slots
    PROVE  /\ Count(start, end) \in Slots /\ Count(start, end) \in Nat
           /\ (end + NSLOTS - start) % NSLOTS = Count(start, end)
           /\ Full(start, end) <=> Count(start, end) = NSLOTS - 1
           /\ start # end <=> Count(start, end) >= 1
<1>1. end + NSLOTS - start \in 0..(2 * NSLOTS - 1)
  BY DmaAssumption DEF Slots
<1>2. (end + NSLOTS - start) % NSLOTS = SlotAt(end + NSLOTS - start)
  BY <1>1, ModOnce
<1>3. SlotAt(end + NSLOTS - start) = Count(start, end)
  BY DmaAssumption DEF Slots, SlotAt, Count
<1>4. Full(start, end) <=> Count(start, end) = NSLOTS - 1
  BY AfterIs, DmaAssumption DEF Full, Slots, SlotAt, Count
<1> QED BY <1>2, <1>3, <1>4, DmaAssumption DEF Slots, Count

LEMMA UsedIs ==
    ASSUME NEW q \in Queues
    PROVE  /\ q.start \in Slots /\ q.end \in Slots /\ q.buf \in [Slots -> Entries]
           /\ Used(q) \in Slots /\ Used(q) \in Nat
           /\ q.start # q.end <=> Used(q) >= 1
<1>1. q.start \in Slots /\ q.end \in Slots /\ q.buf \in [Slots -> Entries]
  BY DEF Queues
<1> QED BY <1>1, CountIs DEF Used

\* The slots of the requests.

LEMMA RingSlots ==
    ASSUME NEW q \in Queues, NEW k \in 0..Used(q)
    PROVE  /\ SlotAt(q.start + k) \in Slots
           /\ SlotAt(q.start + k) = q.end <=> k = Used(q)
           /\ SlotAt(q.start + k) = q.start <=> k = 0
<1>1. q.start \in Slots /\ q.end \in Slots
  BY UsedIs
<1> QED BY <1>1, DmaAssumption DEF Used, Count, SlotAt, Slots

LEMMA RingSeq ==
    ASSUME NEW q \in Queues, NEW served \in 0..1, served <= Used(q)
    PROVE  /\ RingOf(q, served) \in Seq(Entries)
           /\ Len(RingOf(q, served)) = Used(q) - served
           /\ \A i \in 1..(Used(q) - served) :
                RingOf(q, served)[i] = q.buf[SlotAt(q.start + served + i - 1)]
<1>1. Used(q) \in Nat /\ Used(q) - served \in Nat
  BY UsedIs
<1>2. ASSUME NEW i \in 1..(Used(q) - served)
      PROVE  q.buf[SlotAt(q.start + served + i - 1)] \in Entries
  <2>1. served + i - 1 \in 0..Used(q) /\ q.start \in Nat
    BY <1>1, UsedIs DEF Slots
  <2>2. q.start + served + i - 1 = q.start + (served + i - 1)
    BY <2>1
  <2>3. SlotAt(q.start + (served + i - 1)) \in Slots
    BY <2>1, RingSlots
  <2> QED BY <2>2, <2>3, UsedIs
<1>3. RingOf(q, served) \in [1..(Used(q) - served) -> Entries]
  BY <1>2 DEF RingOf
<1> QED BY <1>1, <1>3 DEF RingOf

\* A transfer that is over takes the first request away.

LEMMA RingTail ==
    ASSUME NEW q \in Queues, Used(q) >= 1
    PROVE  /\ RingOf(q, 0) # << >> /\ Head(RingOf(q, 0)) = q.buf[q.start]
           /\ RingOf(q, 1) = Tail(RingOf(q, 0))
<1> DEFINE all == RingOf(q, 0)
           rest == RingOf(q, 1)
<1>1. Used(q) \in Nat /\ q.start \in Slots /\ q.start \in Nat
  BY UsedIs, DmaAssumption DEF Slots
<1>2. /\ all \in Seq(Entries) /\ Len(all) = Used(q)
      /\ \A i \in 1..Used(q) : all[i] = q.buf[SlotAt(q.start + i - 1)]
  <2>1. /\ all \in Seq(Entries) /\ Len(all) = Used(q) - 0
        /\ \A i \in 1..(Used(q) - 0) : all[i] = q.buf[SlotAt(q.start + 0 + i - 1)]
    BY <1>1, RingSeq
  <2> QED BY <1>1, <2>1
<1>3. /\ rest \in Seq(Entries) /\ Len(rest) = Used(q) - 1
      /\ \A i \in 1..(Used(q) - 1) : rest[i] = q.buf[SlotAt(q.start + 1 + i - 1)]
  BY RingSeq
<1> HIDE DEF all, rest
<1>4. all # << >>
  BY <1>1, <1>2, EmptySeq
<1>5. Head(all) = q.buf[q.start]
  <2>1. all[1] = q.buf[SlotAt(q.start + 1 - 1)] /\ q.start + 1 - 1 = q.start
    BY <1>1, <1>2
  <2>2. SlotAt(q.start) = q.start
    BY <1>1, DmaAssumption DEF SlotAt, Slots
  <2>3. Head(all) = all[1]
    BY <1>2, <1>4
  <2> QED BY <2>1, <2>2, <2>3
<1>6. rest = Tail(all)
  <2>1. /\ Tail(all) \in Seq(Entries) /\ Len(Tail(all)) = Used(q) - 1
        /\ \A i \in 1..(Used(q) - 1) : Tail(all)[i] = all[i + 1]
    BY <1>2, <1>4, HeadTailProperties
  <2>2. ASSUME NEW i \in 1..(Used(q) - 1) PROVE rest[i] = Tail(all)[i]
    <3>1. i + 1 \in 1..Used(q) /\ q.start + 1 + i - 1 = q.start + (i + 1) - 1
      BY <1>1
    <3> QED BY <1>2, <1>3, <2>1, <3>1
  <2> QED BY <1>3, <2>1, <2>2, SeqEqual
<1> QED BY <1>4, <1>5, <1>6 DEF all, rest

\* A slot that no request is in may be written.

LEMMA FillQueue ==
    ASSUME NEW q \in Queues, NEW r \in Queues, NEW served \in 0..1, NEW n,
           r.start = q.start, r.end = q.end,
           \A s \in Slots \ {q.end} : r.buf[s] = q.buf[s]
    PROVE  /\ Used(r) = Used(q) /\ RingOf(r, served) = RingOf(q, served)
           /\ Numbered(q, n) => Numbered(r, n)
           /\ Used(q) >= 1 => r.buf[r.start] = q.buf[q.start]
<1>1. Used(r) = Used(q) /\ Used(q) \in Nat /\ q.start \in Nat
  BY UsedIs DEF Used, Slots
<1>2. ASSUME NEW k \in 0..(Used(q) - 1)
      PROVE  r.buf[SlotAt(r.start + k)] = q.buf[SlotAt(q.start + k)]
  <2>1. SlotAt(q.start + k) \in Slots \ {q.end}
    BY <1>1, RingSlots
  <2> QED BY <2>1
<1>3. RingOf(r, served) = RingOf(q, served)
  <2>1. ASSUME NEW i \in 1..(Used(q) - served)
        PROVE  r.buf[SlotAt(r.start + served + i - 1)] = q.buf[SlotAt(q.start + served + i - 1)]
    <3>1. served + i - 1 \in 0..(Used(q) - 1)
      BY <1>1
    <3>2. q.start + served + i - 1 = q.start + (served + i - 1)
      BY <1>1
    <3>3. r.buf[SlotAt(r.start + (served + i - 1))] = q.buf[SlotAt(q.start + (served + i - 1))]
      BY <1>2, <3>1
    <3> QED BY <3>2, <3>3
  <2> QED BY <1>1, <2>1 DEF RingOf
<1>4. Used(q) >= 1 => r.buf[r.start] = q.buf[q.start]
  BY UsedIs
<1> QED BY <1>1, <1>2, <1>3, <1>4 DEF Numbered

\* A request behind the last one.

LEMMA PostQueue ==
    ASSUME NEW q \in Queues, NEW r \in Queues, NEW served \in 0..1, served <= Used(q),
           NEW n \in Nat, Used(q) < NSLOTS - 1,
           r.start = q.start, r.end = After(q.end),
           \A s \in Slots \ {q.end} : r.buf[s] = q.buf[s]
    PROVE  /\ Used(r) = Used(q) + 1
           /\ RingOf(r, served) = Append(RingOf(q, served), r.buf[q.end])
           /\ Numbered(q, n) /\ r.buf[q.end].id = n + 1 => Numbered(r, n + 1)
           /\ Used(q) >= 1 => r.buf[r.start] = q.buf[q.start]
<1>1. /\ Used(q) \in Nat /\ q.start \in Slots /\ q.end \in Slots /\ q.start \in Nat
      /\ r.buf \in [Slots -> Entries]
  BY UsedIs DEF Slots
<1>2. Used(r) = Used(q) + 1
  <2>1. r.end = SlotAt(q.end + 1)
    BY <1>1, AfterIs
  <2> DEFINE a == q.start
             b == q.end
  <2>2. Used(r) = Count(a, SlotAt(b + 1)) /\ Used(q) = Count(a, b) /\ Count(a, b) < NSLOTS - 1
    BY <2>1 DEF Used
  <2>3. a \in Slots /\ b \in Slots
    BY <1>1
  <2> HIDE DEF a, b
  <2>4. Count(a, SlotAt(b + 1)) = Count(a, b) + 1
    BY <2>2, <2>3, DmaAssumption DEF Count, Slots, SlotAt
  <2> QED BY <2>2, <2>4
<1>3. ASSUME NEW k \in 0..(Used(q) - 1)
      PROVE  r.buf[SlotAt(r.start + k)] = q.buf[SlotAt(q.start + k)]
  <2>1. SlotAt(q.start + k) \in Slots \ {q.end}
    BY <1>1, RingSlots
  <2> QED BY <2>1
<1>4. SlotAt(q.start + Used(q)) = q.end
  BY <1>1, RingSlots
<1> DEFINE old == RingOf(q, served)
           new == RingOf(r, served)
           e == r.buf[q.end]
<1>5. /\ old \in Seq(Entries) /\ Len(old) = Used(q) - served
      /\ \A i \in 1..(Used(q) - served) : old[i] = q.buf[SlotAt(q.start + served + i - 1)]
  BY RingSeq
<1>6. /\ new \in Seq(Entries) /\ Len(new) = Used(q) + 1 - served
      /\ \A i \in 1..(Used(q) + 1 - served) : new[i] = r.buf[SlotAt(q.start + served + i - 1)]
  <2>1. served <= Used(r)
    BY <1>1, <1>2
  <2>2. /\ new \in Seq(Entries) /\ Len(new) = Used(r) - served
        /\ \A i \in 1..(Used(r) - served) : new[i] = r.buf[SlotAt(r.start + served + i - 1)]
    BY <2>1, RingSeq
  <2>3. Used(r) - served = Used(q) + 1 - served /\ r.start = q.start
    BY <1>1, <1>2
  <2> QED BY <2>2, <2>3
<1>7. e \in Entries
  BY <1>1
<1> HIDE DEF old, new, e
<1>8. new = Append(old, e)
  <2>1. /\ Append(old, e) \in Seq(Entries) /\ Len(Append(old, e)) = Len(old) + 1
        /\ \A i \in 1..Len(old) : Append(old, e)[i] = old[i]
        /\ Append(old, e)[Len(old) + 1] = e
    BY <1>5, <1>7, AppendProperties
  <2>2. ASSUME NEW i \in 1..(Used(q) + 1 - served) PROVE new[i] = Append(old, e)[i]
    <3>1. CASE i = Used(q) + 1 - served
      <4>1. q.start + served + i - 1 = q.start + Used(q) /\ i = Len(old) + 1
        BY <1>1, <1>5, <3>1
      <4> QED BY <1>4, <1>6, <2>1, <4>1 DEF e
    <3>2. CASE i # Used(q) + 1 - served
      <4>1. i \in 1..Len(old) /\ served + i - 1 \in 0..(Used(q) - 1)
        BY <1>1, <1>5, <3>2
      <4>2. q.start + served + i - 1 = q.start + (served + i - 1)
        BY <1>1
      <4>3. r.buf[SlotAt(r.start + (served + i - 1))] = q.buf[SlotAt(q.start + (served + i - 1))]
        BY <1>3, <4>1
      <4> QED BY <1>5, <1>6, <2>1, <4>1, <4>2, <4>3
    <3> QED BY <3>1, <3>2
  <2>3. Len(new) = Len(Append(old, e)) /\ \A i \in 1..Len(new) : new[i] = Append(old, e)[i]
    BY <1>1, <1>5, <1>6, <2>1, <2>2
  <2> QED BY <1>6, <2>1, <2>3, SeqEqual
<1>9. ASSUME Numbered(q, n), r.buf[q.end].id = n + 1 PROVE Numbered(r, n + 1)
  <2> SUFFICES ASSUME NEW i \in 0..Used(q)
               PROVE  r.buf[SlotAt(r.start + i)].id = n + 1 - (Used(q) + 1) + 1 + i
    BY <1>1, <1>2 DEF Numbered
  <2>1. CASE i = Used(q)
    BY <1>1, <1>4, <1>9, <2>1
  <2>2. CASE i # Used(q)
    <3>1. i \in 0..(Used(q) - 1)
      BY <1>1, <2>2
    <3>2. q.buf[SlotAt(q.start + i)].id = n - Used(q) + 1 + i
      BY <1>9, <3>1 DEF Numbered
    <3>3. r.buf[SlotAt(r.start + i)] = q.buf[SlotAt(q.start + i)]
      BY <1>3, <3>1
    <3> QED BY <1>1, <3>2, <3>3
  <2> QED BY <2>1, <2>2
<1>10. Used(q) >= 1 => r.buf[r.start] = q.buf[q.start]
  BY <1>1, UsedIs
<1> QED BY <1>2, <1>8, <1>9, <1>10 DEF old, new, e

\* Past the request of a transfer.

LEMMA AdvanceQueue ==
    ASSUME NEW q \in Queues, NEW r \in Queues, Used(q) >= 1, NEW n \in Nat,
           r.buf = q.buf, r.start = After(q.start), r.end = q.end
    PROVE  /\ Used(r) = Used(q) - 1
           /\ RingOf(r, 0) = RingOf(q, 1)
           /\ Numbered(q, n) => Numbered(r, n) /\ q.buf[q.start].id = n - Used(q) + 1
<1>1. /\ Used(q) \in Nat /\ q.start \in Slots /\ q.end \in Slots /\ q.start \in Nat
      /\ r.start = SlotAt(q.start + 1) /\ r.start \in Slots
  <2>1. /\ Used(q) \in Nat /\ q.start \in Slots /\ q.end \in Slots /\ r.start \in Slots
    BY UsedIs
  <2>2. r.start = SlotAt(q.start + 1)
    BY <2>1, AfterIs
  <2> QED BY <2>1, <2>2, DmaAssumption DEF Slots
<1>2. Used(r) = Used(q) - 1
  BY <1>1, DmaAssumption DEF Used, Count, Slots, SlotAt
<1>3. ASSUME NEW k \in 0..(Used(q) - 2)
      PROVE  SlotAt(r.start + k) = SlotAt(q.start + (k + 1))
  BY <1>1, DmaAssumption DEF Used, Count, Slots, SlotAt
<1>4. RingOf(r, 0) = RingOf(q, 1)
  <2>1. Used(r) - 0 = Used(q) - 1
    BY <1>1, <1>2
  <2>2. ASSUME NEW i \in 1..(Used(q) - 1)
        PROVE  SlotAt(r.start + 0 + i - 1) = SlotAt(q.start + 1 + i - 1)
    <3>1. /\ r.start + 0 + i - 1 = r.start + (i - 1)
          /\ q.start + 1 + i - 1 = q.start + ((i - 1) + 1)
          /\ i - 1 \in 0..(Used(q) - 2)
      BY <1>1 DEF Slots
    <3> QED BY <1>3, <3>1
  <2> QED BY <2>1, <2>2 DEF RingOf
<1>5. ASSUME Numbered(q, n) PROVE Numbered(r, n) /\ q.buf[q.start].id = n - Used(q) + 1
  <2>1. ASSUME NEW k \in 0..(Used(q) - 2)
        PROVE  r.buf[SlotAt(r.start + k)].id = n - (Used(q) - 1) + 1 + k
    <3>1. k + 1 \in 0..(Used(q) - 1)
      BY <1>1
    <3>2. q.buf[SlotAt(q.start + (k + 1))].id = n - Used(q) + 1 + (k + 1)
      BY <1>5, <3>1 DEF Numbered
    <3> QED BY <1>1, <1>3, <3>2
  <2>2. Used(r) - 1 = Used(q) - 2
    BY <1>1, <1>2
  <2>3. SlotAt(q.start + 0) = q.start /\ 0 \in 0..(Used(q) - 1)
    BY <1>1, DmaAssumption DEF SlotAt, Slots
  <2>4. q.buf[SlotAt(q.start + 0)].id = n - Used(q) + 1 + 0
    BY <1>5, <2>3 DEF Numbered
  <2> QED BY <1>1, <1>2, <2>1, <2>2, <2>3, <2>4 DEF Numbered
<1> QED BY <1>2, <1>4, <1>5

-----------------------------------------------------------------------------
(* The invariant of the queues *)

CallRecords ==
    [op : Channels \cup {"none"}, pc : {"idle", "end", "fill", "publish", "look", "launch"},
     len : Lengths, start : Slots, end : Slots]
CoreRecords ==
    [raddr : Beyond..MaxPosts, waddr : Beyond..MaxPosts, length : Lengths,
     mixed : BOOLEAN, done : BOOLEAN]
DevRecords ==
    [unit : Units \cup {4}, stream : Channels \cup {"none"},
     launch : {"bidir", "txonly", "rxonly"}, active : BOOLEAN]
IsrRecords == [pc : {"off", "clear", "launch"} \cup Channels, tx : Slots, rx : Slots]

Types ==
    /\ queue \in [Channels -> Queues] /\ dev \in DevRecords /\ core \in CoreRecords
    /\ call \in CallRecords /\ isr \in IsrRecords
    /\ posted \in [Channels -> 0..MaxPosts] /\ called \in [Channels -> Nat]

Modes == {<<"none", "bidir">>, <<"tx", "rxonly">>, <<"rx", "txonly">>}

\* A running controller k, in the modes of d, moves what the first requests say.
Told(q, d, k) ==
    /\ <<d.stream, d.launch>> \in Modes
    /\ d.stream = "tx" => k.raddr = Register
    /\ d.stream = "rx" => k.waddr = Register
    /\ k.length # 0 =>
         /\ \A c \in Channels : c # d.stream => Used(q[c]) >= 1
         /\ d.stream = "none" =>
              /\ k.raddr = First(q, "tx").id /\ k.waddr = First(q, "rx").id
              /\ k.length = Shorter(First(q, "tx").len, First(q, "rx").len)
         /\ d.stream = "tx" => k.waddr = First(q, "rx").id /\ k.length = First(q, "rx").len
         /\ d.stream = "rx" => k.raddr = First(q, "tx").id /\ k.length = First(q, "tx").len

\* The requests of a transfer stay in their queues until they are advanced past.
TransferOK ==
    /\ Told(queue, dev, core)
    /\ core.done /\ isr.pc # "clear" =>
         \A c \in Channels : c # dev.stream => Used(queue[c]) >= 1

\* The requests that have had their callbacks are those before the queue, but for
\* the one whose callback the interrupt routine is about to make; it is still in
\* the slot before the queue.
CalledOK(c) ==
    /\ called[c] = posted[c] - Used(queue[c]) - (IF Owed(c) THEN 1 ELSE 0)
    /\ Owed(c) => After(isr[c]) = queue[c].start /\ queue[c].buf[isr[c]].id = called[c] + 1

\* The thread posts on what it has read, since when the queue may only have become
\* shorter.
CallOK(c) ==
    /\ call.pc = "idle" <=> call.op = "none"
    /\ call.op = c =>
       /\ call.pc \in {"end", "fill", "publish"} => posted[c] < MaxPosts
       /\ call.pc \in {"end", "fill"} => call.len = Lens[c][posted[c] + 1]
       /\ call.pc = "end" => Used(queue[c]) <= Count(call.start, queue[c].end)
       /\ call.pc \in {"fill", "publish"} =>
            call.end = queue[c].end /\ Used(queue[c]) < NSLOTS - 1
       /\ call.pc = "publish" =>
            queue[c].buf[call.end] = [id |-> posted[c] + 1, len |-> Lens[c][posted[c] + 1]]

QueuesOK ==
    \A c \in Channels : Numbered(queue[c], posted[c]) /\ CalledOK(c) /\ CallOK(c)

DInv == Types /\ QueuesOK /\ TransferOK

-----------------------------------------------------------------------------
(* The abstract channels *)

\* A transfer that is over has its request, but the driver does not know yet.
Served(c) == IF core.done /\ isr.pc # "clear" /\ dev.stream # c THEN 1 ELSE 0

Pending == [c \in Channels |-> Ring(c)]
Finished == [c \in Channels |-> posted[c] - Len(Ring(c))]

DeviceStep == [Device!Next]_(Device!vars)

\* The sequence of module Dma, without the %.

LEMMA RingValue ==
    ASSUME NEW q \in Queues, NEW served \in 0..1, served <= Used(q)
    PROVE  [i \in 1..(((q.end + NSLOTS - q.start) % NSLOTS) - served) |->
              q.buf[(((q.start + served) % NSLOTS) + i - 1) % NSLOTS]] = RingOf(q, served)
<1>1. /\ q.start \in Slots /\ q.end \in Slots /\ Used(q) \in Slots /\ Used(q) \in Nat
      /\ (q.end + NSLOTS - q.start) % NSLOTS = Used(q)
  BY UsedIs, CountIs DEF Used
<1>2. (q.start + served) % NSLOTS = SlotAt(q.start + served)
      /\ SlotAt(q.start + served) \in Slots
  <2>1. q.start + served \in 0..(2 * NSLOTS - 1)
    BY <1>1, DmaAssumption DEF Slots
  <2> QED BY <2>1, ModOnce
<1>3. ASSUME NEW i \in 1..(Used(q) - served)
      PROVE  (SlotAt(q.start + served) + i - 1) % NSLOTS = SlotAt(q.start + served + i - 1)
  <2>1. SlotAt(q.start + served) + i - 1 \in 0..(2 * NSLOTS - 1)
    BY <1>1, <1>2, DmaAssumption DEF Slots
  <2>2. SlotAt(SlotAt(q.start + served) + i - 1) = SlotAt(q.start + served + i - 1)
    BY <1>1, DmaAssumption DEF Used, Count, Slots, SlotAt
  <2> QED BY <2>1, <2>2, ModOnce
<1> QED BY <1>1, <1>2, <1>3 DEF RingOf

LEMMA RingIs ==
    ASSUME Types, TransferOK, NEW c \in Channels
    PROVE  /\ queue[c] \in Queues /\ Served(c) \in 0..1 /\ Served(c) <= Used(queue[c])
           /\ Ring(c) = RingOf(queue[c], Served(c))
           /\ Ring(c) \in Seq(Entries) /\ Len(Ring(c)) = Used(queue[c]) - Served(c)
<1>1. queue[c] \in Queues /\ Used(queue[c]) \in Nat
  BY UsedIs DEF Types
<1>2. Served(c) \in 0..1 /\ Served(c) <= Used(queue[c])
  BY <1>1 DEF Served, TransferOK
<1>3. Ring(c) = RingOf(queue[c], Served(c))
  BY <1>1, <1>2, RingValue DEF Ring, Served
<1> QED BY <1>1, <1>2, <1>3, RingSeq

LEMMA RingIsNext ==
    ASSUME Types', TransferOK', NEW c \in Channels
    PROVE  /\ queue'[c] \in Queues /\ Served(c)' \in 0..1 /\ Served(c)' <= Used(queue'[c])
           /\ Ring(c)' = RingOf(queue'[c], Served(c)')
           /\ Ring(c)' \in Seq(Entries) /\ Len(Ring(c)') = Used(queue'[c]) - Served(c)'
<1>1. queue'[c] \in Queues /\ Used(queue'[c]) \in Nat
  BY UsedIs DEF Types
<1>2. Served(c)' \in 0..1 /\ Served(c)' <= Used(queue'[c])
  BY <1>1 DEF Served, TransferOK
<1>3. Ring(c)' = RingOf(queue'[c], Served(c)')
  BY <1>1, <1>2, RingValue DEF Ring, Served
<1> QED BY <1>1, <1>2, <1>3, RingSeq

\* Steps in which no request comes or goes.

LEMMA Stutter ==
    ASSUME Types, TransferOK, Types', TransferOK',
           \A c \in Channels : RingOf(queue'[c], Served(c)') = RingOf(queue[c], Served(c)),
           UNCHANGED <<posted, called, moved, dev.stream>>
    PROVE  DeviceStep
<1>1. \A c \in Channels : Ring(c)' = Ring(c)
  BY RingIs, RingIsNext
<1>2. UNCHANGED Pending /\ UNCHANGED Finished
  BY <1>1 DEF Pending, Finished
<1> QED BY <1>2 DEF DeviceStep, Device!vars, Pending, Finished

\* Steps in which one does.

LEMMA PostIs ==
    ASSUME NEW c \in Channels, NEW len \in Lengths, Len(Pending[c]) < NSLOTS - 1,
           Pending' = [Pending EXCEPT ![c] =
             Append(Pending[c], [id |-> Finished[c] + Len(Pending[c]) + 1, len |-> len])],
           UNCHANGED <<Finished, called, moved, dev.stream>>
    PROVE  DeviceStep
BY DEF DeviceStep, Device!Next, Device!Post, Device!Channels, Channels, Pending, Finished

LEMMA CallbackIs ==
    ASSUME NEW c \in Channels, called[c] < Finished[c],
           called' = [called EXCEPT ![c] = called[c] + 1],
           UNCHANGED <<Pending, Finished, moved, dev.stream>>
    PROVE  DeviceStep
BY DEF DeviceStep, Device!Next, Device!Callback, Device!Channels, Channels, Pending, Finished

LEMMA CallbackAndPostIs ==
    ASSUME NEW c \in Channels, NEW d \in Channels, NEW len \in Lengths,
           called[c] < Finished[c], Len(Pending[d]) < NSLOTS - 1,
           called' = [called EXCEPT ![c] = called[c] + 1],
           Pending' = [Pending EXCEPT ![d] =
             Append(Pending[d], [id |-> Finished[d] + Len(Pending[d]) + 1, len |-> len])],
           UNCHANGED <<Finished, moved, dev.stream>>
    PROVE  DeviceStep
BY DEF DeviceStep, Device!Next, Device!CallbackAndPost, Device!Channels, Channels, Pending,
       Finished

LEMMA SetStreamIs ==
    ASSUME \A c \in Channels : Pending[c] = << >>, dev'.stream \in Channels \cup {"none"},
           UNCHANGED <<Pending, Finished, called, moved>>
    PROVE  DeviceStep
BY DEF DeviceStep, Device!Next, Device!SetStream, Device!Channels, Channels, Pending, Finished

-----------------------------------------------------------------------------
(* The thread *)

\* Requests put behind those of a transfer change nothing about it.

LEMMA ToldKeeps ==
    ASSUME NEW q, NEW r, NEW d, NEW k, Told(q, d, k),
           \A c \in Channels : Used(q[c]) >= 1 =>
             Used(r[c]) >= 1 /\ r[c].buf[r[c].start] = q[c].buf[q[c].start]
    PROVE  Told(r, d, k)
<1>1. "tx" \in Channels /\ "rx" \in Channels
  BY DEF Channels
<1>2. ASSUME NEW c \in Channels, Used(q[c]) >= 1 PROVE First(r, c) = First(q, c)
  BY <1>2 DEF First
<1> QED BY <1>1, <1>2 DEF Told, Modes

\* A launch tells the controller of the first requests.

LEMMA LaunchTold ==
    ASSUME NEW q \in [Channels -> Queues], dev \in DevRecords, core \in CoreRecords,
           Told(q, dev, core), ~Busy, ~core.done, ~core.mixed, Launch(q)
    PROVE  /\ dev' \in DevRecords /\ dev'.stream = dev.stream
           /\ core' \in CoreRecords /\ ~core'.done
           /\ Told(q, dev', core')
<1>1. /\ dev' = [dev EXCEPT !.active = CanLaunch(q)]
      /\ \/ dev.launch = "bidir" /\ LaunchBidir(q)
         \/ dev.launch = "txonly" /\ LaunchTxOnly(q)
         \/ dev.launch = "rxonly" /\ LaunchRxOnly(q)
         \/ ~CanLaunch(q) /\ UNCHANGED core
  BY DEF Launch
<1>2. CanLaunch(q) \in BOOLEAN
  BY DEF CanLaunch, Waiting
<1>3. /\ dev' \in DevRecords /\ dev'.stream = dev.stream /\ dev'.launch = dev.launch
  BY <1>1, <1>2 DEF DevRecords
<1>4. ASSUME NEW c \in Channels
      PROVE  /\ First(q, c) \in Entries /\ First(q, c).id \in 0..MaxPosts
             /\ First(q, c).len \in Lengths
             /\ Waiting(q, c) <=> Used(q[c]) >= 1
  <2>1. q[c] \in Queues
    OBVIOUS
  <2>2. q[c].buf[q[c].start] \in Entries
    BY <2>1, UsedIs
  <2> QED BY <2>1, <2>2, UsedIs DEF First, Waiting, Entries
<1>5. "tx" \in Channels /\ "rx" \in Channels /\ Channels = {"tx", "rx"}
  BY DEF Channels
<1>6. Busy = FALSE /\ core.length = 0
  BY DEF Busy
<1>7. \A r, w : \A len \in Lengths :
        r \in Beyond..MaxPosts /\ w \in Beyond..MaxPosts
          => [raddr |-> r, waddr |-> w, length |-> len, mixed |-> FALSE, done |-> core.done]
               \in CoreRecords
  BY DEF CoreRecords
<1>8. core = [raddr |-> core.raddr, waddr |-> core.waddr, length |-> core.length,
              mixed |-> core.mixed, done |-> core.done]
      /\ core.raddr \in Beyond..MaxPosts /\ core.waddr \in Beyond..MaxPosts
  BY DEF CoreRecords
<1>9. \A i \in 0..MaxPosts : i \in Beyond..MaxPosts
  BY DmaAssumption DEF Beyond
<1>10. CASE dev.launch = "bidir" /\ LaunchBidir(q)
  <2> DEFINE len == Shorter(First(q, "tx").len, First(q, "rx").len)
  <2>1. len \in Lengths
    BY <1>4, <1>5 DEF Shorter
  <2>2. core' = WriteLength([core EXCEPT !.raddr = First(q, "tx").id, !.waddr = First(q, "rx").id], len)
    BY <1>10 DEF LaunchBidir
  <2>3. core' = [raddr |-> First(q, "tx").id, waddr |-> First(q, "rx").id, length |-> len,
                 mixed |-> FALSE, done |-> core.done]
    BY <1>6, <1>8, <2>2 DEF WriteLength
  <2>4. dev.stream = "none" /\ Waiting(q, "tx") /\ Waiting(q, "rx")
    BY <1>10 DEF LaunchBidir, Told, Modes
  <2> HIDE DEF len
  <2>5. core' \in CoreRecords
    BY <1>4, <1>5, <1>7, <1>9, <2>1, <2>3
  <2> QED BY <1>3, <1>4, <1>5, <2>3, <2>4, <2>5 DEF Told, Modes, len
<1>11. CASE dev.launch = "txonly" /\ LaunchTxOnly(q)
  <2>1. core' = WriteLength([core EXCEPT !.raddr = First(q, "tx").id], First(q, "tx").len)
    BY <1>11 DEF LaunchTxOnly
  <2>2. core' = [raddr |-> First(q, "tx").id, waddr |-> core.waddr, length |-> First(q, "tx").len,
                 mixed |-> FALSE, done |-> core.done]
    BY <1>6, <1>8, <2>1 DEF WriteLength
  <2>3. dev.stream = "rx" /\ Waiting(q, "tx")
    BY <1>11 DEF LaunchTxOnly, Told, Modes
  <2>4. core' \in CoreRecords
    BY <1>4, <1>5, <1>7, <1>8, <1>9, <2>2
  <2> QED BY <1>3, <1>4, <1>5, <2>2, <2>3, <2>4 DEF Told, Modes
<1>12. CASE dev.launch = "rxonly" /\ LaunchRxOnly(q)
  <2>1. core' = WriteLength([core EXCEPT !.waddr = First(q, "rx").id], First(q, "rx").len)
    BY <1>12 DEF LaunchRxOnly
  <2>2. core' = [raddr |-> core.raddr, waddr |-> First(q, "rx").id, length |-> First(q, "rx").len,
                 mixed |-> FALSE, done |-> core.done]
    BY <1>6, <1>8, <2>1 DEF WriteLength
  <2>3. dev.stream = "tx" /\ Waiting(q, "rx")
    BY <1>12 DEF LaunchRxOnly, Told, Modes
  <2>4. core' \in CoreRecords
    BY <1>4, <1>5, <1>7, <1>8, <1>9, <2>2
  <2> QED BY <1>3, <1>4, <1>5, <2>2, <2>3, <2>4 DEF Told, Modes
<1>13. CASE ~CanLaunch(q) /\ UNCHANGED core
  BY <1>3, <1>6, <1>13 DEF Told
<1> QED BY <1>1, <1>10, <1>11, <1>12, <1>13

\* Steps of the thread inside a call, and of the controller's registers.

LEMMA NoRequest ==
    ASSUME DInv, Types', Told(queue', dev', core'),
           UNCHANGED <<queue, isr, posted, called, moved, dev.stream>>, core'.done = core.done,
           \A c \in Channels : CallOK(c)'
    PROVE  DInv' /\ DeviceStep
<1>1. TransferOK'
  BY DEF DInv, TransferOK
<1>2. \A c \in Channels : CalledOK(c)'
  BY DEF DInv, QueuesOK, CalledOK, Owed
<1>3. \A c \in Channels : Numbered(queue[c], posted[c])'
  BY DEF DInv, QueuesOK, Numbered
<1>4. \A c \in Channels : RingOf(queue'[c], Served(c)') = RingOf(queue[c], Served(c))
  BY DEF Served
<1> QED BY <1>1, <1>2, <1>3, <1>4, Stutter DEF DInv, QueuesOK

LEMMA CallTypes ==
    /\ Idle \in CallRecords
    /\ Lengths \subseteq Nat
    /\ \A c \in Channels, n \in Nat : n < MaxPosts => Lens[c][n + 1] \in Lengths
<1>1. 0 \in Slots /\ 0 \in Lengths
  BY DmaAssumption DEF Slots, Lengths
<1>2. Idle \in CallRecords
  BY <1>1 DEF Idle, CallRecords
<1>3. ASSUME NEW c \in Channels, NEW n \in Nat, n < MaxPosts PROVE Lens[c][n + 1] \in Lengths
  <2>1. n + 1 \in 1..MaxPosts
    BY <1>3, DmaAssumption
  <2> QED BY <2>1 DEF Lengths
<1>4. Lengths \subseteq Nat
  BY DmaAssumption DEF Lengths, Channels
<1> QED BY <1>2, <1>3, <1>4

LEMMA ReadStartOK ==
    ASSUME DInv, NEW c \in Channels, ReadStart(c)
    PROVE  DInv' /\ DeviceStep
<1> DEFINE len == Lens[c][posted[c] + 1]
<1>1. /\ call' = [Idle EXCEPT !.op = c, !.pc = "end", !.len = len, !.start = queue[c].start]
      /\ UNCHANGED <<queue, dev, core, isr, posted, called, moved>> /\ posted[c] < MaxPosts
  BY DEF ReadStart
<1>2. queue[c] \in Queues /\ queue[c].start \in Slots /\ posted[c] \in Nat /\ len \in Lengths
  <2>1. queue[c] \in Queues /\ posted[c] \in Nat
    BY DEF DInv, Types
  <2> QED BY <1>1, <2>1, UsedIs, CallTypes
<1>3. call' = [op |-> c, pc |-> "end", len |-> len, start |-> queue[c].start, end |-> 0]
  BY <1>1 DEF Idle
<1>4. 0 \in Slots
  BY DmaAssumption DEF Slots
<1>5. call' \in CallRecords
  BY <1>2, <1>3, <1>4 DEF CallRecords
<1>6. ASSUME NEW d \in Channels PROVE CallOK(d)'
  <2>1. call'.op = c /\ call'.pc = "end" /\ call'.len = len /\ call'.start = queue[c].start
    BY <1>3
  <2>2. c # "none"
    BY DEF Channels
  <2>3. Used(queue[c]) <= Count(queue[c].start, queue[c].end)
    BY <1>2, UsedIs DEF Used
  <2> QED BY <1>1, <2>1, <2>2, <2>3 DEF CallOK
<1> QED BY <1>1, <1>5, <1>6, NoRequest DEF DInv, Types, TransferOK

LEMMA ReadEndOK ==
    ASSUME DInv, NEW c \in Channels, ReadEnd(c)
    PROVE  DInv' /\ DeviceStep
<1>1. /\ call' = IF Full(call.start, queue[c].end) THEN Idle
                 ELSE [call EXCEPT !.pc = "fill", !.start = 0, !.end = queue[c].end]
      /\ call.op = c /\ call.pc = "end"
      /\ UNCHANGED <<queue, dev, core, isr, posted, called, moved>>
  BY DEF ReadEnd, At
<1>2. queue[c] \in Queues /\ queue[c].start \in Slots /\ queue[c].end \in Slots
      /\ Used(queue[c]) \in Nat
  BY UsedIs DEF DInv, Types
<1>3. call \in CallRecords /\ call.start \in Slots /\ call.len \in Lengths /\ 0 \in Slots
  BY DmaAssumption DEF DInv, Types, CallRecords, Slots
<1>4. CASE Full(call.start, queue[c].end)
  <2>1. call' = Idle /\ Idle.op = "none" /\ Idle.pc = "idle"
    BY <1>1, <1>4 DEF Idle
  <2>2. \A d \in Channels : CallOK(d)'
    BY <2>1 DEF CallOK, Channels
  <2> QED BY <1>1, <2>1, <2>2, CallTypes, NoRequest DEF DInv, Types, TransferOK
<1>5. CASE ~Full(call.start, queue[c].end)
  <2>1. call' = [op |-> c, pc |-> "fill", len |-> call.len, start |-> 0, end |-> queue[c].end]
    BY <1>1, <1>3, <1>5 DEF CallRecords
  <2>2. call' \in CallRecords
    BY <1>2, <1>3, <2>1 DEF CallRecords
  <2>3. /\ Used(queue[c]) <= Count(call.start, queue[c].end)
        /\ posted[c] < MaxPosts /\ call.len = Lens[c][posted[c] + 1]
    BY <1>1 DEF DInv, QueuesOK, CallOK
  <2>4. Count(call.start, queue[c].end) \in Slots /\ Count(call.start, queue[c].end) # NSLOTS - 1
    BY <1>2, <1>3, <1>5, CountIs
  <2>5. Used(queue[c]) < NSLOTS - 1
    BY <1>2, <2>3, <2>4, DmaAssumption DEF Slots
  <2>6. ASSUME NEW d \in Channels PROVE CallOK(d)'
    <3>1. /\ call'.op = c /\ call'.pc = "fill" /\ call'.len = call.len
          /\ call'.end = queue[c].end /\ c # "none"
      BY <2>1 DEF Channels
    <3> QED BY <1>1, <2>3, <2>5, <3>1 DEF CallOK
  <2> QED BY <1>1, <2>2, <2>6, NoRequest DEF DInv, Types, TransferOK
<1> QED BY <1>4, <1>5

\* A queue with another request in a slot, and with another end.
WithSlot(q, c, slot, e) == [q EXCEPT ![c].buf[slot] = e]
WithEnd(q, c, end) == [q EXCEPT ![c].end = end]

LEMMA SetSlot ==
    ASSUME NEW q \in [Channels -> Queues], NEW c \in Channels, NEW slot \in Slots,
           NEW e \in Entries
    PROVE  /\ WithSlot(q, c, slot, e) \in [Channels -> Queues]
           /\ WithSlot(q, c, slot, e)[c].start = q[c].start
           /\ WithSlot(q, c, slot, e)[c].end = q[c].end
           /\ WithSlot(q, c, slot, e)[c].buf = [q[c].buf EXCEPT ![slot] = e]
           /\ \A d \in Channels \ {c} : WithSlot(q, c, slot, e)[d] = q[d]
<1>1. q[c] \in Queues /\ q[c].buf \in [Slots -> Entries]
  BY UsedIs
<1> DEFINE b == [q[c].buf EXCEPT ![slot] = e]
           u == [q[c] EXCEPT !.buf = b]
           f == WithSlot(q, c, slot, e)
<1>2. b \in [Slots -> Entries]
  BY <1>1
<1>3. f = [q EXCEPT ![c] = u]
  BY DEF WithSlot
<1> HIDE DEF b
<1>4. u \in Queues /\ u.buf = b /\ u.start = q[c].start /\ u.end = q[c].end
  BY <1>1, <1>2 DEF Queues
<1> HIDE DEF u, f
<1>5. f \in [Channels -> Queues] /\ f[c] = u /\ \A d \in Channels \ {c} : f[d] = q[d]
  BY <1>3, <1>4
<1> QED BY <1>4, <1>5 DEF b, f

LEMMA SetEnd ==
    ASSUME NEW q \in [Channels -> Queues], NEW c \in Channels, NEW end \in Slots
    PROVE  /\ WithEnd(q, c, end) \in [Channels -> Queues]
           /\ WithEnd(q, c, end)[c].start = q[c].start /\ WithEnd(q, c, end)[c].end = end
           /\ WithEnd(q, c, end)[c].buf = q[c].buf
           /\ \A d \in Channels \ {c} : WithEnd(q, c, end)[d] = q[d]
<1>1. q[c] \in Queues
  OBVIOUS
<1> DEFINE u == [q[c] EXCEPT !.end = end]
           f == WithEnd(q, c, end)
<1>2. f = [q EXCEPT ![c] = u]
  BY DEF WithEnd
<1>3. u \in Queues /\ u.buf = q[c].buf /\ u.start = q[c].start /\ u.end = end
  BY <1>1 DEF Queues
<1> HIDE DEF u, f
<1>4. f \in [Channels -> Queues] /\ f[c] = u /\ \A d \in Channels \ {c} : f[d] = q[d]
  BY <1>2, <1>3
<1> QED BY <1>3, <1>4 DEF f

LEMMA FillOK ==
    ASSUME DInv, NEW c \in Channels, Fill(c)
    PROVE  DInv' /\ DeviceStep
<1> DEFINE e == [id |-> posted[c] + 1, len |-> call.len]
           q == queue[c]
<1>1. /\ queue' = [queue EXCEPT ![c].buf[call.end] = e]
      /\ call' = [call EXCEPT !.pc = "publish", !.len = 0]
      /\ call.op = c /\ call.pc = "fill" /\ isr.pc = "off"
      /\ UNCHANGED <<dev, core, isr, posted, called, moved>>
  BY DEF Fill, Filled, At
<1>2. Types /\ queue \in [Channels -> Queues] /\ q \in Queues /\ call \in CallRecords
      /\ posted[c] \in 0..MaxPosts /\ call.len \in Lengths /\ call.end \in Slots
  BY DEF DInv, Types, CallRecords
<1>3. /\ posted[c] < MaxPosts /\ call.len = Lens[c][posted[c] + 1]
      /\ call.end = q.end /\ Used(q) < NSLOTS - 1
  BY <1>1 DEF DInv, QueuesOK, CallOK
<1>4. e \in Entries
  BY <1>2, <1>3, DmaAssumption DEF Entries
<1> HIDE DEF e
<1>5. /\ queue' \in [Channels -> Queues] /\ queue'[c].start = q.start /\ queue'[c].end = q.end
      /\ queue'[c].buf = [q.buf EXCEPT ![call.end] = e]
      /\ \A d \in Channels \ {c} : queue'[d] = queue[d]
  <2>1. queue' = WithSlot(queue, c, call.end, e)
    BY <1>1 DEF WithSlot
  <2> QED BY <1>2, <1>4, <2>1, SetSlot
<1>6. /\ q.buf \in [Slots -> Entries] /\ q.end \in Slots /\ queue'[c] \in Queues
  BY <1>2, <1>5, UsedIs
<1>7. /\ queue'[c].buf[q.end] = e
      /\ \A s \in Slots \ {q.end} : queue'[c].buf[s] = q.buf[s]
  BY <1>3, <1>5, <1>6
<1>8. /\ Used(queue'[c]) = Used(q)
      /\ \A served \in 0..1 : RingOf(queue'[c], served) = RingOf(q, served)
      /\ Numbered(q, posted[c]) => Numbered(queue'[c], posted[c])
      /\ Used(q) >= 1 => queue'[c].buf[queue'[c].start] = q.buf[q.start]
  BY <1>2, <1>5, <1>6, <1>7, FillQueue
<1> HIDE DEF q
<1>9. \A d \in Channels : /\ Used(queue'[d]) = Used(queue[d])
                          /\ Numbered(queue[d], posted[d]) => Numbered(queue'[d], posted[d])
                          /\ Used(queue[d]) >= 1 =>
                               queue'[d].buf[queue'[d].start] = queue[d].buf[queue[d].start]
  BY <1>5, <1>8 DEF q
<1>10. call' = [op |-> c, pc |-> "publish", len |-> 0, start |-> call.start, end |-> call.end]
       /\ call' \in CallRecords
  <2>1. call' = [op |-> c, pc |-> "publish", len |-> 0, start |-> call.start, end |-> call.end]
        /\ call.start \in Slots /\ call.end \in Slots
    BY <1>1, <1>2 DEF CallRecords
  <2>2. 0 \in Lengths
    BY DEF Lengths
  <2> QED BY <2>1, <2>2 DEF CallRecords
<1>11. Types'
  BY <1>1, <1>2, <1>5, <1>10 DEF Types
<1>12. TransferOK'
  <2>1. Told(queue', dev, core)
    BY <1>9, ToldKeeps DEF DInv, TransferOK
  <2> QED BY <1>1, <1>9, <2>1 DEF DInv, TransferOK
<1>13. ASSUME NEW d \in Channels PROVE CallOK(d)'
  <2>1. call'.op = c /\ call'.pc = "publish" /\ call'.end = call.end /\ c # "none"
    BY <1>10 DEF Channels
  <2>2. queue'[c].buf[call.end] = [id |-> posted[c] + 1, len |-> Lens[c][posted[c] + 1]]
    BY <1>3, <1>7 DEF e
  <2> QED BY <1>1, <1>3, <1>5, <1>8, <2>1, <2>2 DEF CallOK, q
<1>14. ASSUME NEW d \in Channels PROVE CalledOK(d)'
  <2>1. ~Owed(d) /\ ~Owed(d)'
    BY <1>1 DEF Owed
  <2>2. called[d] = posted[d] - Used(queue[d]) - 0
    BY <2>1 DEF DInv, QueuesOK, CalledOK
  <2> QED BY <1>1, <1>9, <2>1, <2>2 DEF CalledOK
<1>15. QueuesOK'
  BY <1>1, <1>9, <1>13, <1>14 DEF DInv, QueuesOK
<1>16. \A d \in Channels : RingOf(queue'[d], Served(d)') = RingOf(queue[d], Served(d))
  <2>1. \A d \in Channels : Served(d)' = Served(d) /\ Served(d) \in 0..1
    BY <1>1 DEF Served
  <2> QED BY <1>5, <1>8, <2>1 DEF q
<1> QED BY <1>1, <1>2, <1>11, <1>12, <1>15, <1>16, Stutter DEF DInv

-----------------------------------------------------------------------------
(* A request is posted, by the thread or by a callback *)

PostsIn(d, len) ==
    LET q == queue[d]
    IN  /\ Used(q) < NSLOTS - 1 /\ posted[d] < MaxPosts
        /\ queue' \in [Channels -> Queues] /\ \A c \in Channels \ {d} : queue'[c] = queue[c]
        /\ queue'[d].start = q.start /\ queue'[d].end = After(q.end)
        /\ queue'[d].buf[q.end] = [id |-> posted[d] + 1, len |-> len]
        /\ \A s \in Slots \ {q.end} : queue'[d].buf[s] = q.buf[s]
        /\ posted' = [posted EXCEPT ![d] = posted[d] + 1]

LEMMA PostedQueues ==
    ASSUME DInv, NEW d \in Channels, NEW len, PostsIn(d, len)
    PROVE  /\ posted' \in [Channels -> 0..MaxPosts]
           /\ \A c \in Channels :
                /\ Numbered(queue'[c], posted'[c])
                /\ posted'[c] - Used(queue'[c]) = posted[c] - Used(queue[c])
                /\ queue'[c].start = queue[c].start
                /\ Used(queue[c]) >= 1 =>
                     /\ Used(queue'[c]) >= 1
                     /\ queue'[c].buf[queue'[c].start] = queue[c].buf[queue[c].start]
           /\ \A served \in 0..1 : served <= Used(queue[d]) =>
                RingOf(queue'[d], served) =
                  Append(RingOf(queue[d], served), [id |-> posted[d] + 1, len |-> len])
           /\ Used(queue'[d]) = Used(queue[d]) + 1
<1>1. /\ queue[d] \in Queues /\ queue'[d] \in Queues
      /\ \A c \in Channels : posted[c] \in 0..MaxPosts /\ Used(queue[c]) \in Nat
  BY UsedIs DEF PostsIn, DInv, Types
<1>2. posted' \in [Channels -> 0..MaxPosts] /\ posted'[d] = posted[d] + 1
      /\ \A c \in Channels \ {d} : posted'[c] = posted[c]
  BY <1>1, DmaAssumption DEF PostsIn, DInv, Types
<1>3. Numbered(queue[d], posted[d])
  BY DEF DInv, QueuesOK
<1>4. /\ Used(queue'[d]) = Used(queue[d]) + 1
      /\ \A served \in 0..1 : served <= Used(queue[d]) =>
           RingOf(queue'[d], served) =
             Append(RingOf(queue[d], served), [id |-> posted[d] + 1, len |-> len])
      /\ Numbered(queue'[d], posted[d] + 1)
      /\ Used(queue[d]) >= 1 => queue'[d].buf[queue'[d].start] = queue[d].buf[queue[d].start]
  <2> DEFINE q == queue[d]
             r == queue'[d]
  <2>1. /\ q \in Queues /\ r \in Queues /\ posted[d] \in Nat /\ Used(q) < NSLOTS - 1
        /\ r.start = q.start /\ r.end = After(q.end)
        /\ \A s \in Slots \ {q.end} : r.buf[s] = q.buf[s]
        /\ r.buf[q.end] = [id |-> posted[d] + 1, len |-> len]
    BY <1>1 DEF PostsIn
  <2>2. r.buf[q.end].id = posted[d] + 1
    BY <2>1
  <2> HIDE DEF q, r
  <2>3. ASSUME NEW served \in 0..1, served <= Used(q)
        PROVE  /\ Used(r) = Used(q) + 1
               /\ RingOf(r, served) = Append(RingOf(q, served), r.buf[q.end])
               /\ Numbered(q, posted[d]) /\ r.buf[q.end].id = posted[d] + 1 => Numbered(r, posted[d] + 1)
               /\ Used(q) >= 1 => r.buf[r.start] = q.buf[q.start]
    BY <2>1, <2>3, PostQueue
  <2>4. 0 \in 0..1 /\ 0 <= Used(q)
    BY <1>1 DEF q
  <2> QED BY <1>3, <2>1, <2>2, <2>3, <2>4 DEF q, r
<1>5. ASSUME NEW c \in Channels \ {d}
      PROVE  queue'[c] = queue[c] /\ posted'[c] = posted[c] /\ Numbered(queue[c], posted[c])
  BY <1>2 DEF PostsIn, DInv, QueuesOK
<1>6. ASSUME NEW c \in Channels
      PROVE  /\ Numbered(queue'[c], posted'[c])
             /\ posted'[c] - Used(queue'[c]) = posted[c] - Used(queue[c])
             /\ queue'[c].start = queue[c].start
             /\ Used(queue[c]) >= 1 =>
                  /\ Used(queue'[c]) >= 1
                  /\ queue'[c].buf[queue'[c].start] = queue[c].buf[queue[c].start]
  <2>1. CASE c = d
    BY <1>1, <1>2, <1>4, <2>1 DEF PostsIn
  <2>2. CASE c # d
    BY <1>5, <2>2
  <2> QED BY <2>1, <2>2
<1> QED BY <1>2, <1>4, <1>6

LEMMA PostedDevice ==
    ASSUME DInv, NEW d \in Channels, NEW len \in Lengths, PostsIn(d, len), Types', TransferOK',
           \A c \in Channels : Served(c)' = Served(c)
    PROVE  /\ Len(Pending[d]) < NSLOTS - 1 /\ Finished' = Finished
           /\ Pending' = [Pending EXCEPT ![d] =
                Append(Pending[d], [id |-> Finished[d] + Len(Pending[d]) + 1, len |-> len])]
<1> DEFINE e == [id |-> posted[d] + 1, len |-> len]
<1>1. ASSUME NEW c \in Channels
      PROVE  /\ Ring(c) = RingOf(queue[c], Served(c)) /\ Len(Ring(c)) = Used(queue[c]) - Served(c)
             /\ Served(c) \in 0..1 /\ Served(c) <= Used(queue[c]) /\ Used(queue[c]) \in Nat
             /\ posted[c] \in Nat
             /\ Ring(c)' = RingOf(queue'[c], Served(c))
             /\ Len(Ring(c)') = Used(queue'[c]) - Served(c)
  <2>1. queue[c] \in Queues /\ posted[c] \in Nat /\ Used(queue[c]) \in Nat
    BY UsedIs DEF DInv, Types
  <2>2. /\ Ring(c) = RingOf(queue[c], Served(c)) /\ Len(Ring(c)) = Used(queue[c]) - Served(c)
        /\ Served(c) \in 0..1 /\ Served(c) <= Used(queue[c])
    BY RingIs DEF DInv
  <2>3. /\ Ring(c)' = RingOf(queue'[c], Served(c)')
        /\ Len(Ring(c)') = Used(queue'[c]) - Served(c)'
    BY RingIsNext
  <2>4. Served(c)' = Served(c)
    OBVIOUS
  <2> QED BY <2>1, <2>2, <2>3, <2>4
<1>2. Ring(d)' = Append(Ring(d), e) /\ Len(Ring(d)') = Len(Ring(d)) + 1
  <2> DEFINE v == Served(d)
  <2>1. v \in 0..1 /\ v <= Used(queue[d]) /\ Ring(d) = RingOf(queue[d], v)
        /\ Ring(d)' = RingOf(queue'[d], v) /\ Len(Ring(d)) = Used(queue[d]) - v
        /\ Len(Ring(d)') = Used(queue'[d]) - v /\ Used(queue[d]) \in Nat
    BY <1>1
  <2> HIDE DEF v
  <2>2. RingOf(queue'[d], v) = Append(RingOf(queue[d], v), e)
        /\ Used(queue'[d]) = Used(queue[d]) + 1
    BY <2>1, PostedQueues
  <2> QED BY <2>1, <2>2
<1>3. \A c \in Channels \ {d} : Ring(c)' = Ring(c)
  BY <1>1 DEF PostsIn
<1>4. posted' = [posted EXCEPT ![d] = posted[d] + 1] /\ posted \in [Channels -> 0..MaxPosts]
      /\ Used(queue[d]) < NSLOTS - 1
  BY DEF PostsIn, DInv, Types
<1>5. Len(Ring(d)) \in Nat /\ Len(Ring(d)) < NSLOTS - 1
  BY <1>1, <1>4, DmaAssumption
<1>6. Finished[d] + Len(Pending[d]) + 1 = posted[d] + 1 /\ Pending[d] = Ring(d)
  BY <1>1, <1>5 DEF Finished, Pending
<1>7. Finished' = Finished
  <2>1. posted'[d] - Len(Ring(d)') = posted[d] - Len(Ring(d))
    BY <1>1, <1>2, <1>4, <1>5
  <2>2. \A c \in Channels \ {d} : posted'[c] - Len(Ring(c)') = posted[c] - Len(Ring(c))
    BY <1>3, <1>4
  <2> QED BY <2>1, <2>2 DEF Finished
<1> HIDE DEF e
<1>8. Pending' = [Pending EXCEPT ![d] = Append(Pending[d], e)]
  BY <1>2, <1>3, <1>6 DEF Pending
<1> QED BY <1>5, <1>6, <1>7, <1>8 DEF e

LEMMA PublishOK ==
    ASSUME DInv, NEW c \in Channels, Publish(c)
    PROVE  DInv' /\ DeviceStep
<1> DEFINE q == queue[c]
           len == Lens[c][posted[c] + 1]
<1>1. /\ queue' = [queue EXCEPT ![c].end = After(call.end)]
      /\ posted' = [posted EXCEPT ![c] = posted[c] + 1]
      /\ call' = [call EXCEPT !.pc = "look", !.end = 0]
      /\ call.op = c /\ call.pc = "publish" /\ isr.pc = "off"
      /\ UNCHANGED <<dev, core, isr, called, moved>>
  BY DEF Publish, At
<1>2. /\ queue \in [Channels -> Queues] /\ q \in Queues /\ q.end \in Slots
      /\ posted[c] \in Nat /\ call \in CallRecords
  BY UsedIs DEF DInv, Types
<1>3. /\ posted[c] < MaxPosts /\ call.end = q.end /\ Used(q) < NSLOTS - 1
      /\ q.buf[q.end] = [id |-> posted[c] + 1, len |-> len]
  BY <1>1 DEF DInv, QueuesOK, CallOK
<1>4. len \in Lengths
  BY <1>2, <1>3, CallTypes
<1> HIDE DEF len
<1>5. /\ queue' \in [Channels -> Queues] /\ queue'[c].start = q.start
      /\ queue'[c].end = After(q.end) /\ queue'[c].buf = q.buf
      /\ \A d \in Channels \ {c} : queue'[d] = queue[d]
  <2>1. After(q.end) \in Slots
    BY <1>2, AfterIs
  <2>2. queue' = WithEnd(queue, c, After(q.end))
    BY <1>1, <1>3 DEF WithEnd
  <2> QED BY <1>2, <2>1, <2>2, SetEnd
<1>6. PostsIn(c, len)
  BY <1>1, <1>3, <1>5 DEF PostsIn
<1>7. call' \in CallRecords /\ call'.op = c /\ call'.pc = "look"
  <2>1. 0 \in Slots
    BY DmaAssumption DEF Slots
  <2> QED BY <1>1, <1>2, <2>1 DEF CallRecords
<1>8. Types'
  BY <1>1, <1>5, <1>6, <1>7, PostedQueues DEF DInv, Types
<1>9. TransferOK'
  <2>1. Told(queue', dev, core)
    BY <1>6, PostedQueues, ToldKeeps DEF DInv, TransferOK
  <2> QED BY <1>1, <1>6, <2>1, PostedQueues DEF DInv, TransferOK
<1>11. ASSUME NEW d \in Channels PROVE CalledOK(d)'
  <2>1. ~Owed(d) /\ ~Owed(d)'
    BY <1>1 DEF Owed
  <2>2. called[d] = posted[d] - Used(queue[d]) - 0 /\ posted[d] \in Int /\ Used(queue[d]) \in Int
    BY <2>1, UsedIs DEF DInv, QueuesOK, CalledOK, Types
  <2>3. posted'[d] - Used(queue'[d]) = posted[d] - Used(queue[d])
    BY <1>6, PostedQueues
  <2> QED BY <1>1, <2>1, <2>2, <2>3 DEF CalledOK
<1>12. \A d \in Channels : CallOK(d)'
  BY <1>7 DEF CallOK, Channels
<1>13. QueuesOK'
  BY <1>6, <1>11, <1>12, PostedQueues DEF QueuesOK
<1>14. \A d \in Channels : Served(d)' = Served(d)
  BY <1>1 DEF Served
<1>15. DeviceStep
  BY <1>1, <1>4, <1>6, <1>8, <1>9, <1>14, PostedDevice, PostIs
<1> QED BY <1>8, <1>9, <1>13, <1>15 DEF DInv

LEMMA LookActiveOK ==
    ASSUME DInv, NEW c \in Channels, LookActive(c)
    PROVE  DInv' /\ DeviceStep
<1>1. /\ call' = IF dev.active THEN Idle ELSE [call EXCEPT !.pc = "launch"]
      /\ call.op = c /\ UNCHANGED <<queue, dev, core, isr, posted, called, moved>>
  BY DEF LookActive, At
<1>2. /\ call' \in CallRecords
      /\ \/ call'.op = "none" /\ call'.pc = "idle"
         \/ call'.op = c /\ call'.pc = "launch"
  <2>1. CASE dev.active
    BY <1>1, <2>1, CallTypes DEF Idle
  <2>2. CASE ~dev.active
    <3>1. call \in CallRecords
      BY DEF DInv, Types
    <3> QED BY <1>1, <2>2, <3>1 DEF CallRecords
  <2> QED BY <2>1, <2>2
<1>3. \A d \in Channels : CallOK(d)'
  BY <1>2 DEF CallOK, Channels
<1> QED BY <1>1, <1>2, <1>3, NoRequest DEF DInv, Types, TransferOK

LEMMA CallLaunchOK ==
    ASSUME IInv, DInv, NEW c \in Channels, CallLaunch(c)
    PROVE  DInv' /\ DeviceStep
<1>1. /\ Launch(queue) /\ call' = Idle /\ ~Busy /\ ~core.done /\ ~core.mixed
      /\ UNCHANGED <<queue, isr, posted, called, moved>>
  BY DEF CallLaunch, At, IInv, Alone
<1>2. /\ queue \in [Channels -> Queues] /\ dev \in DevRecords /\ core \in CoreRecords
      /\ Told(queue, dev, core)
  BY DEF DInv, Types, TransferOK
<1>3. /\ dev' \in DevRecords /\ dev'.stream = dev.stream /\ core' \in CoreRecords
      /\ ~core'.done /\ Told(queue, dev', core')
  BY <1>1, <1>2, LaunchTold
<1>4. core'.done = core.done
  BY <1>1, <1>2, <1>3 DEF CoreRecords
<1>5. \A d \in Channels : CallOK(d)'
  BY <1>1 DEF CallOK, Channels, Idle
<1>6. Types'
  BY <1>1, <1>3, CallTypes DEF DInv, Types
<1> QED BY <1>1, <1>3, <1>4, <1>5, <1>6, NoRequest

\* The requests of ioctl are made on empty queues.

LEMMA IoctlOK ==
    ASSUME DInv, alt_avalon_dma_ioctl
    PROVE  DInv' /\ DeviceStep
<1>1. /\ isr.pc = "off" /\ Settled /\ UNCHANGED <<queue, call, isr, posted, called, moved>>
  BY DEF alt_avalon_dma_ioctl, TxStreamOn, TxStreamOff, RxStreamOn, RxStreamOff, SetMode,
         Ioctl, At
<1>2. /\ dev \in DevRecords /\ core \in CoreRecords /\ queue \in [Channels -> Queues]
      /\ Told(queue, dev, core) /\ Channels = {"tx", "rx"}
  BY DEF DInv, Types, TransferOK, Channels
<1>3. \A c \in Channels : queue[c] \in Queues /\ Used(queue[c]) = 0
  <2> TAKE c \in Channels
  <2>1. queue[c] \in Queues /\ ~Waiting(queue, c)
    BY <1>1, <1>2 DEF Settled
  <2> QED BY <2>1, UsedIs DEF Waiting
<1>4. core.length = 0 /\ ~core.done
  <2>1. core.length = 0
    BY <1>1 DEF Settled, Busy
  <2>2. \E c \in Channels : c # dev.stream
    BY <1>2
  <2> QED BY <1>1, <1>3, <2>1, <2>2 DEF DInv, TransferOK
<1>5. /\ core' \in CoreRecords /\ core'.length = 0 /\ ~core'.done
      /\ core' = core \/ core'.raddr = Register \/ core'.waddr = Register
  <2>1. 0 \in Beyond..MaxPosts
    BY DmaAssumption DEF Beyond
  <2>2. core' = core \/ core' = [core EXCEPT !.raddr = 0] \/ core' = [core EXCEPT !.waddr = 0]
    BY DEF alt_avalon_dma_ioctl, TxStreamOn, TxStreamOff, RxStreamOn, RxStreamOff, SetMode,
           Register
  <2>3. ASSUME core' = [core EXCEPT !.raddr = 0]
        PROVE  core' \in CoreRecords /\ core'.length = 0 /\ ~core'.done /\ core'.raddr = 0
    BY <1>2, <1>4, <2>1, <2>3 DEF CoreRecords
  <2>4. ASSUME core' = [core EXCEPT !.waddr = 0]
        PROVE  core' \in CoreRecords /\ core'.length = 0 /\ ~core'.done /\ core'.waddr = 0
    BY <1>2, <1>4, <2>1, <2>4 DEF CoreRecords
  <2> QED BY <1>2, <1>4, <2>2, <2>3, <2>4 DEF Register
<1>6. /\ dev' \in DevRecords /\ <<dev'.stream, dev'.launch>> \in Modes
      /\ dev'.stream = "tx" => core'.raddr = Register
      /\ dev'.stream = "rx" => core'.waddr = Register
  <2>1. CASE TxStreamOn
    <3>1. dev' = [dev EXCEPT !.stream = "tx", !.launch = "rxonly"]
          /\ core' = [core EXCEPT !.raddr = Register]
      BY <2>1 DEF TxStreamOn
    <3>2. dev' \in DevRecords /\ dev'.stream = "tx" /\ dev'.launch = "rxonly"
      BY <1>2, <3>1 DEF DevRecords
    <3>3. core'.raddr = Register
      BY <1>2, <3>1 DEF CoreRecords
    <3> QED BY <3>2, <3>3 DEF Modes
  <2>2. CASE RxStreamOn
    <3>1. dev' = [dev EXCEPT !.stream = "rx", !.launch = "txonly"]
          /\ core' = [core EXCEPT !.waddr = Register]
      BY <2>2 DEF RxStreamOn
    <3>2. dev' \in DevRecords /\ dev'.stream = "rx" /\ dev'.launch = "txonly"
      BY <1>2, <3>1 DEF DevRecords
    <3>3. core'.waddr = Register
      BY <1>2, <3>1 DEF CoreRecords
    <3> QED BY <3>2, <3>3 DEF Modes
  <2>3. CASE TxStreamOff \/ RxStreamOff
    <3>1. dev' = [dev EXCEPT !.stream = "none", !.launch = "bidir"]
      BY <2>3 DEF TxStreamOff, RxStreamOff
    <3>2. dev' \in DevRecords /\ dev'.stream = "none" /\ dev'.launch = "bidir"
      BY <1>2, <3>1 DEF DevRecords
    <3> QED BY <3>2 DEF Modes
  <2>4. CASE SetMode
    <3>1. core' = core /\ \E unit \in Units : dev' = [dev EXCEPT !.unit = unit]
      BY <2>4 DEF SetMode
    <3>2. dev' \in DevRecords /\ dev'.stream = dev.stream /\ dev'.launch = dev.launch
      BY <1>2, <3>1 DEF DevRecords
    <3> QED BY <1>2, <3>1, <3>2 DEF Told
  <2> QED BY <2>1, <2>2, <2>3, <2>4 DEF alt_avalon_dma_ioctl
<1>7. Types'
  BY <1>1, <1>5, <1>6 DEF DInv, Types
<1>8. TransferOK'
  BY <1>1, <1>5, <1>6 DEF TransferOK, Told
<1>9. QueuesOK'
  <2>1. \A c \in Channels : CalledOK(c)'
    <3> TAKE c \in Channels
    <3>1. ~Owed(c) /\ ~Owed(c)'
      BY <1>1 DEF Owed
    <3> QED BY <1>1, <3>1 DEF DInv, QueuesOK, CalledOK
  <2> QED BY <1>1, <2>1 DEF DInv, QueuesOK, CallOK, Numbered
<1>10. \A c \in Channels : Ring(c) = << >> /\ Ring(c)' = << >>
  <2> TAKE c \in Channels
  <2>1. Served(c) = 0 /\ Served(c)' = 0
    BY <1>4, <1>5 DEF Served
  <2>2. Ring(c) \in Seq(Entries) /\ Len(Ring(c)) = 0
    BY <1>3, <2>1, RingIs DEF DInv
  <2>3. Ring(c)' \in Seq(Entries) /\ Len(Ring(c)') = 0
    BY <1>1, <1>3, <1>7, <1>8, <2>1, RingIsNext
  <2> QED BY <2>2, <2>3, EmptySeq
<1>11. DeviceStep
  <2>1. Pending' = Pending /\ Finished' = Finished /\ \A c \in Channels : Pending[c] = << >>
    BY <1>1, <1>10 DEF Pending, Finished
  <2>2. dev'.stream \in Channels \cup {"none"}
    BY <1>6 DEF DevRecords
  <2> QED BY <1>1, <2>1, <2>2, SetStreamIs
<1> QED BY <1>7, <1>8, <1>9, <1>11 DEF DInv

-----------------------------------------------------------------------------
(* The controller *)

LEMMA TransferIs ==
    ASSUME \A c \in Channels : c # dev.stream => Pending[c] # << >>,
           dev.stream \in Channels \cup {"none"},
           dev.stream = "none" =>
             moved' = [from |-> Head(Pending["tx"]).id, to |-> Head(Pending["rx"]).id,
                       len |-> Shorter(Head(Pending["tx"]).len, Head(Pending["rx"]).len)],
           dev.stream = "rx" => moved' = [from |-> Head(Pending["tx"]).id, to |-> Register,
                                          len |-> Head(Pending["tx"]).len],
           dev.stream = "tx" => moved' = [from |-> Register, to |-> Head(Pending["rx"]).id,
                                          len |-> Head(Pending["rx"]).len],
           Pending' = [c \in Channels |-> IF c # dev.stream THEN Tail(Pending[c])
                                          ELSE Pending[c]],
           Finished' = [c \in Channels |-> IF c # dev.stream THEN Finished[c] + 1
                                           ELSE Finished[c]],
           UNCHANGED <<called, dev.stream>>
    PROVE  DeviceStep
<1> DEFINE tx == Head(Pending["tx"])
           rx == Head(Pending["rx"])
           asked == Channels \ {dev.stream}
<1>1. moved' = CASE dev.stream = "none" -> [from |-> tx.id, to |-> rx.id,
                                            len |-> Shorter(tx.len, rx.len)]
                 [] dev.stream = "rx" -> [from |-> tx.id, to |-> Register, len |-> tx.len]
                 [] OTHER -> [from |-> Register, to |-> rx.id, len |-> rx.len]
  <2> HIDE DEF tx, rx
  <2>1. CASE dev.stream = "none"
    BY <2>1 DEF tx, rx
  <2>2. CASE dev.stream = "rx"
    BY <2>2 DEF tx, rx
  <2>3. CASE dev.stream = "tx"
    BY <2>3 DEF tx, rx
  <2> QED BY <2>1, <2>2, <2>3 DEF Channels
<1>2. /\ \A c \in asked : Pending[c] # << >>
      /\ Pending' = [c \in Channels |-> IF c \in asked THEN Tail(Pending[c]) ELSE Pending[c]]
      /\ Finished' = [c \in Channels |-> IF c \in asked THEN Finished[c] + 1 ELSE Finished[c]]
  OBVIOUS
<1>3. Device!Transfer
  BY <1>1, <1>2 DEF Device!Transfer, Device!Asked, Device!Channels, Device!Register,
     Device!Shorter, Channels, Register, Shorter, Pending, Finished
<1> QED BY <1>3 DEF DeviceStep, Device!Next

LEMMA CoreDoneOK ==
    ASSUME IInv, DInv, CoreDone
    PROVE  DInv' /\ DeviceStep
<1>1. /\ moved' = [from |-> core.raddr, to |-> core.waddr,
                   len |-> IF core.mixed THEN Beyond ELSE core.length]
      /\ core' = [raddr |-> IF dev.stream = "tx" THEN core.raddr ELSE Beyond,
                  waddr |-> IF dev.stream = "rx" THEN core.waddr ELSE Beyond,
                  length |-> 0, mixed |-> FALSE, done |-> TRUE]
      /\ Busy /\ UNCHANGED <<queue, dev, call, isr, posted, called>>
  BY DEF CoreDone
<1>2. ~core.mixed /\ ~core.done /\ isr.pc # "clear" /\ core.length # 0
  BY <1>1 DEF IInv, Alone, Busy
<1>3. /\ dev \in DevRecords /\ core \in CoreRecords /\ queue \in [Channels -> Queues]
      /\ Told(queue, dev, core) /\ Channels = {"tx", "rx"}
      /\ dev.stream \in Channels \cup {"none"}
  BY DEF DInv, Types, TransferOK, Channels, DevRecords
<1>4. core' \in CoreRecords
  <2>1. Beyond \in Beyond..MaxPosts /\ 0 \in Lengths
    BY DmaAssumption DEF Beyond, Lengths
  <2>2. core.raddr \in Beyond..MaxPosts /\ core.waddr \in Beyond..MaxPosts
    BY <1>3 DEF CoreRecords
  <2> QED BY <1>1, <2>1, <2>2 DEF CoreRecords
<1>5. Types'
  BY <1>1, <1>4 DEF DInv, Types
<1>6. \A c \in Channels : c # dev.stream => Used(queue[c]) >= 1
  BY <1>2, <1>3 DEF Told
<1>7. TransferOK'
  <2>1. core'.length = 0 /\ (dev.stream = "tx" => core'.raddr = core.raddr)
        /\ (dev.stream = "rx" => core'.waddr = core.waddr)
    BY <1>1
  <2> QED BY <1>1, <1>3, <1>6, <2>1 DEF TransferOK, Told
<1>8. QueuesOK'
  BY <1>1 DEF DInv, QueuesOK, CalledOK, CallOK, Numbered, Owed
<1>9. \A c \in Channels :
        /\ Served(c) = 0 /\ Served(c)' = IF c # dev.stream THEN 1 ELSE 0
        /\ Ring(c) = RingOf(queue[c], 0) /\ Len(Ring(c)) = Used(queue[c])
        /\ Used(queue[c]) \in Nat /\ posted[c] \in Nat
  <2> TAKE c \in Channels
  <2>1. Served(c) = 0 /\ Served(c)' = IF c # dev.stream THEN 1 ELSE 0
    BY <1>1, <1>2 DEF Served
  <2>2. queue[c] \in Queues /\ posted[c] \in Nat
    BY <1>3 DEF DInv, Types
  <2> QED BY <2>1, <2>2, RingIs, UsedIs DEF DInv
<1>10. ASSUME NEW c \in Channels, c # dev.stream
       PROVE  /\ Ring(c) # << >> /\ Head(Ring(c)) = First(queue, c)
              /\ Ring(c)' = Tail(Ring(c)) /\ Len(Ring(c)') = Len(Ring(c)) - 1
  <2>1. queue[c] \in Queues /\ Used(queue[c]) >= 1
    BY <1>3, <1>6, <1>10
  <2>2. Ring(c)' = RingOf(queue[c], 1) /\ Len(Ring(c)') = Used(queue[c]) - 1
    BY <1>1, <1>5, <1>7, <1>9, <1>10, RingIsNext
  <2> QED BY <1>9, <2>1, <2>2, RingTail DEF First
<1>11. ASSUME NEW c \in Channels, c = dev.stream PROVE Ring(c)' = Ring(c)
  BY <1>1, <1>5, <1>7, <1>9, <1>11, RingIsNext
<1>12. /\ \A c \in Channels : c # dev.stream => Pending[c] # << >>
       /\ Pending' = [c \in Channels |-> IF c # dev.stream THEN Tail(Pending[c])
                                         ELSE Pending[c]]
  BY <1>10, <1>11 DEF Pending
<1>13. Finished' = [c \in Channels |-> IF c # dev.stream THEN Finished[c] + 1 ELSE Finished[c]]
  <2>1. \A c \in Channels : posted[c] - Len(Ring(c)') =
          IF c # dev.stream THEN posted[c] - Len(Ring(c)) + 1 ELSE posted[c] - Len(Ring(c))
    BY <1>9, <1>10, <1>11
  <2> QED BY <1>1, <2>1 DEF Finished
<1>14. moved' = [from |-> core.raddr, to |-> core.waddr, len |-> core.length]
  BY <1>1, <1>2
<1>15. \A c \in Channels : c # dev.stream => Head(Pending[c]) = First(queue, c)
  BY <1>10 DEF Pending
<1>16. /\ "tx" \in Channels /\ "rx" \in Channels
       /\ dev.stream = "none" => dev.stream # "tx" /\ dev.stream # "rx"
  BY <1>3
<1>17. /\ dev.stream = "none" =>
            moved' = [from |-> Head(Pending["tx"]).id, to |-> Head(Pending["rx"]).id,
                      len |-> Shorter(Head(Pending["tx"]).len, Head(Pending["rx"]).len)]
       /\ dev.stream = "rx" => moved' = [from |-> Head(Pending["tx"]).id, to |-> Register,
                                         len |-> Head(Pending["tx"]).len]
       /\ dev.stream = "tx" => moved' = [from |-> Register, to |-> Head(Pending["rx"]).id,
                                         len |-> Head(Pending["rx"]).len]
  BY <1>2, <1>3, <1>14, <1>15, <1>16 DEF Told
<1>18. DeviceStep
  BY <1>1, <1>3, <1>12, <1>13, <1>17, TransferIs
<1> QED BY <1>5, <1>7, <1>8, <1>18 DEF DInv

-----------------------------------------------------------------------------
(* The interrupt routine *)

LEMMA IsrAdvanceOK ==
    ASSUME IInv, DInv, IsrAdvance
    PROVE  DInv' /\ DeviceStep
<1>1. /\ isr.pc = "off" /\ core.done
      /\ isr' = [pc |-> "clear", tx |-> queue["tx"].start, rx |-> queue["rx"].start]
      /\ queue' = [c \in Channels |-> [queue[c] EXCEPT !.start = Advance(c)]]
      /\ UNCHANGED <<dev, core, call, posted, called, moved>>
  BY DEF IsrAdvance
<1>2. ~Busy /\ core.length = 0
  BY <1>1 DEF IInv, Alone, Busy
<1>3. ASSUME NEW c \in Channels
      PROVE  /\ queue[c] \in Queues /\ posted[c] \in Nat /\ Used(queue[c]) \in Nat
             /\ queue[c].start \in Slots /\ isr'[c] = queue[c].start
  <2>1. queue[c] \in Queues /\ posted[c] \in Nat
    BY DEF DInv, Types
  <2>2. isr'["tx"] = queue["tx"].start /\ isr'["rx"] = queue["rx"].start
    BY <1>1
  <2> QED BY <2>1, <2>2, UsedIs DEF Channels
<1>4. ASSUME NEW c \in Channels
      PROVE  /\ queue'[c] \in Queues /\ queue'[c].buf = queue[c].buf
             /\ queue'[c].end = queue[c].end
             /\ queue'[c].start = IF dev.stream = c THEN queue[c].start ELSE After(queue[c].start)
             /\ dev.stream = c => queue'[c] = queue[c]
  <2> DEFINE s == Advance(c)
  <2>1. queue'[c] = [queue[c] EXCEPT !.start = s]
    BY <1>1
  <2>2. s \in Slots /\ s = IF dev.stream = c THEN queue[c].start ELSE After(queue[c].start)
    BY <1>3, AfterIs DEF Advance
  <2> HIDE DEF s
  <2>3. queue[c] \in Queues
    BY <1>3
  <2> QED BY <2>1, <2>2, <2>3 DEF Queues
<1>5. queue' \in [Channels -> Queues]
  <2> DEFINE q(c) == [queue[c] EXCEPT !.start = Advance(c)]
  <2>1. queue' = [c \in Channels |-> q(c)]
    BY <1>1
  <2> HIDE DEF q
  <2> QED BY <1>4, <2>1
<1>6. ASSUME NEW c \in Channels, c # dev.stream
      PROVE  /\ Used(queue[c]) >= 1 /\ Used(queue'[c]) = Used(queue[c]) - 1
             /\ RingOf(queue'[c], 0) = RingOf(queue[c], 1)
             /\ Numbered(queue'[c], posted[c])
             /\ queue[c].buf[queue[c].start].id = posted[c] - Used(queue[c]) + 1
  <2>1. Used(queue[c]) >= 1
    BY <1>1, <1>6 DEF DInv, TransferOK
  <2>2. Numbered(queue[c], posted[c])
    BY DEF DInv, QueuesOK
  <2>3. queue'[c].start = After(queue[c].start)
    BY <1>4, <1>6
  <2> QED BY <1>3, <1>4, <2>1, <2>2, <2>3, AdvanceQueue
<1>7. isr' \in IsrRecords
  <2>1. queue["tx"].start \in Slots /\ queue["rx"].start \in Slots
    BY <1>3 DEF Channels
  <2> QED BY <1>1, <2>1 DEF IsrRecords
<1>8. Types'
  BY <1>1, <1>5, <1>7 DEF DInv, Types
<1>9. TransferOK'
  BY <1>1, <1>2 DEF DInv, TransferOK, Told
<1>10. ASSUME NEW c \in Channels
       PROVE  Numbered(queue'[c], posted'[c]) /\ CalledOK(c)' /\ CallOK(c)'
  <2>1. ~Owed(c) /\ (Owed(c)' <=> c # dev.stream)
    BY <1>1 DEF Owed
  <2>2. /\ called[c] = posted[c] - Used(queue[c]) - 0 /\ Numbered(queue[c], posted[c])
        /\ CallOK(c)
    BY <2>1 DEF DInv, QueuesOK, CalledOK
  <2>3. CASE c = dev.stream
    BY <1>1, <1>4, <2>1, <2>2, <2>3 DEF CalledOK, CallOK
  <2>4. CASE c # dev.stream
    <3>1. CalledOK(c)'
      <4>1. called[c] = posted[c] - Used(queue'[c]) - 1
        BY <1>3, <1>6, <2>2, <2>4
      <4>2. After(isr'[c]) = queue'[c].start /\ queue'[c].buf[isr'[c]].id = called[c] + 1
        BY <1>3, <1>4, <1>6, <2>2, <2>4
      <4> QED BY <1>1, <2>1, <2>4, <4>1, <4>2 DEF CalledOK
    <3>2. Used(queue'[c]) \in Int /\ Used(queue'[c]) <= Used(queue[c])
      BY <1>3, <1>6, <2>4
    <3>3. CallOK(c)'
      <4>1. call' = call /\ posted' = posted /\ queue'[c].buf = queue[c].buf
            /\ queue'[c].end = queue[c].end
        BY <1>1, <1>4
      <4>2. call.op = c /\ call.pc = "end" => Used(queue'[c]) <= Count(call.start, queue[c].end)
        <5>1. Count(call.start, queue[c].end) \in Nat
          BY <1>3, CountIs, UsedIs DEF DInv, Types, CallRecords
        <5> QED BY <1>3, <2>2, <3>2, <5>1 DEF CallOK
      <4>3. call.op = c /\ call.pc \in {"fill", "publish"} => Used(queue'[c]) < NSLOTS - 1
        BY <1>3, <2>2, <3>2, DmaAssumption DEF CallOK
      <4> QED BY <2>2, <4>1, <4>2, <4>3 DEF CallOK
    <3> QED BY <1>1, <1>6, <2>4, <3>1, <3>3
  <2> QED BY <2>3, <2>4
<1>11. QueuesOK'
  BY <1>10 DEF QueuesOK
<1>12. \A c \in Channels : RingOf(queue'[c], Served(c)') = RingOf(queue[c], Served(c))
  <2> TAKE c \in Channels
  <2>1. Served(c)' = 0 /\ Served(c) = IF c # dev.stream THEN 1 ELSE 0
    BY <1>1 DEF Served
  <2>2. CASE c = dev.stream
    BY <1>4, <2>1, <2>2
  <2>3. CASE c # dev.stream
    BY <1>6, <2>1, <2>3
  <2> QED BY <2>2, <2>3
<1>13. DeviceStep
  BY <1>1, <1>8, <1>9, <1>12, Stutter DEF DInv
<1> QED BY <1>8, <1>9, <1>11, <1>13 DEF DInv

\* Steps of the routine that leave the queues alone.

LEMMA IsrGoesOn ==
    ASSUME DInv, NEW pc \in {"launch", "tx"}, isr.pc \in {"clear", "launch"},
           isr' = [isr EXCEPT !.pc = pc], core' \in CoreRecords, ~core'.done,
           core.done => isr.pc = "clear", dev' \in DevRecords,
           Told(queue, dev', core'), UNCHANGED <<queue, call, posted, called, moved, dev.stream>>
    PROVE  DInv' /\ DeviceStep
<1>1. isr \in IsrRecords /\ isr' \in IsrRecords /\ isr'.pc = pc
      /\ isr'["tx"] = isr["tx"] /\ isr'["rx"] = isr["rx"]
  BY DEF DInv, Types, IsrRecords, Channels
<1>2. Types'
  BY <1>1 DEF DInv, Types
<1>3. TransferOK'
  BY DEF TransferOK
<1>4. ASSUME NEW c \in Channels
      PROVE  /\ Owed(c)' <=> Owed(c)
             /\ isr'[c] = isr[c] /\ Served(c)' = 0 /\ Served(c) = 0
  <2>1. Served(c)' = 0 /\ Served(c) = 0
    BY DEF Served
  <2>2. c = "tx" \/ c = "rx"
    BY DEF Channels
  <2>3. isr'[c] = isr[c]
    BY <1>1, <2>2
  <2>4. isr.pc \in {"clear", "launch"} /\ isr'.pc \in {"launch", "tx"} /\ dev'.stream = dev.stream
    BY <1>1
  <2>5. Owed(c)' <=> Owed(c)
    BY <2>2, <2>4 DEF Owed
  <2> QED BY <2>1, <2>3, <2>5
<1>5. QueuesOK'
  BY <1>4 DEF DInv, QueuesOK, CalledOK, CallOK, Numbered
<1>6. \A c \in Channels : RingOf(queue'[c], Served(c)') = RingOf(queue[c], Served(c))
  BY <1>4
<1> QED BY <1>2, <1>3, <1>5, <1>6, Stutter DEF DInv

LEMMA IsrClearOK ==
    ASSUME IInv, DInv, IsrClear
    PROVE  DInv' /\ DeviceStep
<1>1. /\ isr.pc = "clear" /\ core' = [core EXCEPT !.done = FALSE]
      /\ isr' = [isr EXCEPT !.pc = "launch"]
      /\ UNCHANGED <<queue, dev, call, posted, called, moved>>
  BY DEF IsrClear
<1>2. core \in CoreRecords /\ dev \in DevRecords /\ Told(queue, dev, core)
      /\ core.length = 0
  BY <1>1 DEF DInv, Types, TransferOK, IInv, Alone, Busy
<1>3. core' \in CoreRecords /\ ~core'.done /\ core'.length = 0
      /\ core'.raddr = core.raddr /\ core'.waddr = core.waddr
  BY <1>1, <1>2 DEF CoreRecords
<1>4. Told(queue, dev, core')
  BY <1>2, <1>3 DEF Told
<1> QED BY <1>1, <1>2, <1>3, <1>4, IsrGoesOn

LEMMA IsrLaunchOK ==
    ASSUME IInv, DInv, IsrLaunch
    PROVE  DInv' /\ DeviceStep
<1>1. /\ isr.pc = "launch" /\ Launch(queue) /\ isr' = [isr EXCEPT !.pc = "tx"]
      /\ UNCHANGED <<queue, call, posted, called, moved>>
  BY DEF IsrLaunch
<1>2. ~Busy /\ ~core.done /\ ~core.mixed
  BY <1>1 DEF IInv, Alone
<1>3. /\ queue \in [Channels -> Queues] /\ dev \in DevRecords /\ core \in CoreRecords
      /\ Told(queue, dev, core)
  BY DEF DInv, Types, TransferOK
<1>4. /\ dev' \in DevRecords /\ dev'.stream = dev.stream /\ core' \in CoreRecords
      /\ ~core'.done /\ Told(queue, dev', core')
  BY <1>1, <1>2, <1>3, LaunchTold
<1> QED BY <1>1, <1>2, <1>4, IsrGoesOn

\* What a callback of channel c, made or not, leaves owed.

LEMMA CallbackOwes ==
    ASSUME DInv, NEW c \in Channels, isr.pc = c, dev'.stream = dev.stream,
           isr' = IF c = "tx" THEN [isr EXCEPT !.pc = "rx", !.tx = 0] ELSE Off
    PROVE  /\ isr' \in IsrRecords /\ isr.pc # "clear" /\ isr'.pc # "clear"
           /\ Owed(c) <=> dev.stream # c
           /\ ~Owed(c)'
           /\ \A d \in Channels \ {c} : /\ Owed(d)' <=> Owed(d)
                                        /\ Owed(d) => isr'[d] = isr[d] /\ isr[d] \in Slots
<1>1. isr \in IsrRecords /\ 0 \in Slots
  BY DmaAssumption DEF DInv, Types, Slots
<1>2. CASE c = "tx"
  <2>1. isr' = [pc |-> "rx", tx |-> 0, rx |-> isr.rx] /\ isr.rx \in Slots
    BY <1>1, <1>2 DEF IsrRecords
  <2>2. isr' \in IsrRecords
    BY <1>1, <2>1 DEF IsrRecords, Channels
  <2>3. isr'.pc = "rx" /\ isr'["rx"] = isr["rx"] /\ isr["rx"] \in Slots
    BY <2>1
  <2>4. (Owed(c) <=> dev.stream # c) /\ ~Owed(c)'
    BY <1>2, <2>3 DEF Owed
  <2>5. ASSUME NEW d \in Channels \ {c}
        PROVE  (Owed(d)' <=> Owed(d)) /\ (Owed(d) => isr'[d] = isr[d] /\ isr[d] \in Slots)
    <3>1. d = "rx"
      BY <1>2 DEF Channels
    <3> QED BY <1>2, <2>3, <3>1 DEF Owed
  <2> QED BY <1>2, <2>2, <2>3, <2>4, <2>5
<1>3. CASE c = "rx"
  <2>1. isr' = [pc |-> "off", tx |-> 0, rx |-> 0]
    BY <1>3 DEF Off
  <2>2. isr' \in IsrRecords /\ isr'.pc = "off"
    <3>1. 0 \in Slots /\ "off" \in {"off", "clear", "launch"} \cup Channels
      BY <1>1
    <3> DEFINE off == [pc |-> "off", tx |-> 0, rx |-> 0]
    <3>2. off \in IsrRecords /\ off.pc = "off"
      BY <3>1 DEF IsrRecords
    <3>3. isr' = off
      BY <2>1
    <3> QED BY <3>2, <3>3
  <2>3. (Owed(c) <=> dev.stream # c) /\ ~Owed(c)'
    BY <1>3, <2>2 DEF Owed
  <2>4. ASSUME NEW d \in Channels \ {c} PROVE ~Owed(d) /\ ~Owed(d)'
    <3>1. d = "tx"
      BY <1>3 DEF Channels
    <3> QED BY <1>3, <2>2, <3>1 DEF Owed
  <2> QED BY <1>3, <2>2, <2>3, <2>4
<1> QED BY <1>2, <1>3 DEF Channels

\* A callback is of the request in its slot, and that one has been carried out.

LEMMA CallbackCounts ==
    ASSUME DInv, NEW c \in Channels, Owed(c), isr.pc = c,
           called' = [called EXCEPT ![c] = queue[c].buf[isr[c]].id]
    PROVE  /\ called' = [called EXCEPT ![c] = called[c] + 1]
           /\ called' \in [Channels -> Nat] /\ called'[c] = called[c] + 1
           /\ \A d \in Channels \ {c} : called'[d] = called[d]
           /\ called[c] = posted[c] - Used(queue[c]) - 1
           /\ called[c] < Finished[c]
<1>1. /\ queue[c].buf[isr[c]].id = called[c] + 1
      /\ called[c] = posted[c] - Used(queue[c]) - 1
  BY DEF DInv, QueuesOK, CalledOK
<1>2. called \in [Channels -> Nat] /\ queue[c] \in Queues /\ posted[c] \in Nat
      /\ Used(queue[c]) \in Nat
  BY UsedIs DEF DInv, Types
<1>3. Served(c) \in 0..1 /\ Len(Ring(c)) = Used(queue[c]) - Served(c)
  BY RingIs DEF DInv
<1>4. called[c] < posted[c] - Len(Ring(c))
  BY <1>1, <1>2, <1>3
<1>5. Finished[c] = posted[c] - Len(Ring(c))
  BY DEF Finished
<1> QED BY <1>1, <1>2, <1>4, <1>5

\* A callback that posts nothing, and the end of the routine without one.

LEMMA QuietCallbackOK ==
    ASSUME DInv, NEW c \in Channels, isr.pc = c,
           isr' = IF c = "tx" THEN [isr EXCEPT !.pc = "rx", !.tx = 0] ELSE Off,
           IF dev.stream = c THEN called' = called
           ELSE called' = [called EXCEPT ![c] = queue[c].buf[isr[c]].id],
           UNCHANGED <<queue, posted, dev, core, call, moved>>
    PROVE  DInv' /\ DeviceStep
<1>1. /\ isr' \in IsrRecords /\ isr.pc # "clear" /\ isr'.pc # "clear"
      /\ Owed(c) <=> dev.stream # c
      /\ ~Owed(c)'
      /\ \A d \in Channels \ {c} : /\ Owed(d)' <=> Owed(d)
                                   /\ Owed(d) => isr'[d] = isr[d]
  BY CallbackOwes
<1>2. /\ dev.stream # c =>
           /\ called' = [called EXCEPT ![c] = called[c] + 1]
           /\ called'[c] = called[c] + 1
           /\ called[c] = posted[c] - Used(queue[c]) - 1
           /\ called[c] < Finished[c]
      /\ \A d \in Channels \ {c} : called'[d] = called[d]
      /\ called' \in [Channels -> Nat]
  <2>1. CASE dev.stream = c
    BY <2>1 DEF DInv, Types
  <2>2. CASE dev.stream # c
    BY <1>1, <2>2, CallbackCounts
  <2> QED BY <2>1, <2>2
<1>3. Types'
  BY <1>1, <1>2 DEF DInv, Types
<1>4. TransferOK'
  BY <1>1 DEF DInv, TransferOK
<1>5. ASSUME NEW d \in Channels PROVE CalledOK(d)'
  <2>1. queue[d] \in Queues /\ Used(queue[d]) \in Nat /\ posted[d] \in Nat /\ CalledOK(d)
    BY UsedIs DEF DInv, Types, QueuesOK
  <2>2. CASE d = c
    <3>1. called'[c] = posted[c] - Used(queue[c])
      <4>1. CASE dev.stream = c
        <5>1. called' = called /\ ~Owed(c)
          BY <1>1, <4>1
        <5> QED BY <2>1, <2>2, <5>1 DEF CalledOK
      <4>2. CASE dev.stream # c
        BY <1>2, <2>1, <2>2, <4>2
      <4> QED BY <4>1, <4>2
    <3> QED BY <1>1, <2>1, <2>2, <3>1 DEF CalledOK
  <2>3. CASE d # c
    BY <1>1, <1>2, <2>1, <2>3 DEF CalledOK
  <2> QED BY <2>2, <2>3
<1>6. QueuesOK'
  BY <1>5 DEF DInv, QueuesOK, CallOK, Numbered
<1>7. \A d \in Channels : Served(d)' = Served(d)
  BY <1>1 DEF Served
<1>8. \A d \in Channels : Ring(d)' = Ring(d)
  BY <1>3, <1>4, <1>7, RingIs, RingIsNext DEF DInv
<1>9. Pending' = Pending /\ Finished' = Finished
  BY <1>8 DEF Pending, Finished
<1>10. DeviceStep
  <2>1. CASE dev.stream = c
    BY <1>3, <1>4, <1>7, <2>1, Stutter DEF DInv
  <2>2. CASE dev.stream # c
    BY <1>2, <1>9, <2>2, CallbackIs
  <2> QED BY <2>1, <2>2
<1> QED BY <1>3, <1>4, <1>6, <1>10 DEF DInv

\* A callback that posts a request, which the thread is not doing meanwhile.

LEMMA PostingCallbackOK ==
    ASSUME ~Reentrant, IInv, DInv, NEW c \in Channels, isr.pc = c, dev.stream # c,
           isr' = IF c = "tx" THEN [isr EXCEPT !.pc = "rx", !.tx = 0] ELSE Off,
           called' = [called EXCEPT ![c] = queue[c].buf[isr[c]].id],
           CallbackPosts, UNCHANGED <<call, moved>>
    PROVE  DInv' /\ DeviceStep
<1>1. PICK d \in Channels :
        LET len == Lens[d][posted[d] + 1]
            slot == queue[d].end
            q == [Filled(queue, d, slot, len) EXCEPT ![d].end = After(slot)]
        IN  /\ posted[d] < MaxPosts /\ Valid(len) /\ ~Full(queue[d].start, slot)
            /\ call.pc = "idle" /\ queue' = q
            /\ posted' = [posted EXCEPT ![d] = @ + 1]
            /\ IF dev.active THEN UNCHANGED <<dev, core>> ELSE Launch(q)
  BY DEF CallbackPosts
<1> DEFINE len == Lens[d][posted[d] + 1]
           slot == queue[d].end
           e == [id |-> posted[d] + 1, len |-> len]
<1>2. /\ posted[d] < MaxPosts /\ ~Full(queue[d].start, slot) /\ call.pc = "idle"
      /\ queue' = WithEnd(WithSlot(queue, d, slot, e), d, After(slot))
      /\ posted' = [posted EXCEPT ![d] = posted[d] + 1]
      /\ IF dev.active THEN UNCHANGED <<dev, core>> ELSE Launch(queue')
  BY <1>1 DEF Filled, WithEnd, WithSlot
<1>3. /\ queue \in [Channels -> Queues] /\ queue[d] \in Queues
      /\ slot \in Slots /\ queue[d].start \in Slots /\ queue[d].buf \in [Slots -> Entries]
      /\ posted[d] \in Nat
      /\ dev \in DevRecords /\ core \in CoreRecords /\ Told(queue, dev, core)
  BY UsedIs DEF DInv, Types, TransferOK
<1>4. len \in Lengths
  BY <1>2, <1>3, CallTypes
<1> HIDE DEF len
<1>5. e \in Entries
  BY <1>2, <1>3, <1>4, DmaAssumption DEF Entries
<1>6. Used(queue[d]) < NSLOTS - 1 /\ After(slot) # queue[d].start
  <2>1. Count(queue[d].start, slot) \in Slots /\ Count(queue[d].start, slot) # NSLOTS - 1
    BY <1>2, <1>3, CountIs
  <2>2. Used(queue[d]) < NSLOTS - 1
    BY <2>1, DmaAssumption DEF Slots, Used
  <2> QED BY <1>2, <2>2 DEF Full
<1>7. /\ queue' \in [Channels -> Queues] /\ queue'[d].start = queue[d].start
      /\ queue'[d].end = After(slot) /\ queue'[d].buf = [queue[d].buf EXCEPT ![slot] = e]
      /\ \A k \in Channels \ {d} : queue'[k] = queue[k]
  <2> DEFINE f == WithSlot(queue, d, slot, e)
  <2> HIDE DEF slot, e
  <2>1. /\ f \in [Channels -> Queues] /\ f[d].start = queue[d].start
        /\ f[d].buf = [queue[d].buf EXCEPT ![slot] = e]
        /\ \A k \in Channels \ {d} : f[k] = queue[k]
    BY <1>3, <1>5, SetSlot
  <2>2. After(slot) \in Slots /\ queue' = WithEnd(f, d, After(slot))
    BY <1>2, <1>3, AfterIs
  <2> HIDE DEF f
  <2>3. /\ queue' \in [Channels -> Queues] /\ queue'[d].start = f[d].start
        /\ queue'[d].end = After(slot) /\ queue'[d].buf = f[d].buf
        /\ \A k \in Channels \ {d} : queue'[k] = f[k]
    BY <2>1, <2>2, SetEnd
  <2> QED BY <2>1, <2>3
<1>8. /\ queue'[d].buf[slot] = e
      /\ \A s \in Slots \ {slot} : queue'[d].buf[s] = queue[d].buf[s]
  BY <1>3, <1>7
<1>9. PostsIn(d, len)
  BY <1>2, <1>6, <1>7, <1>8 DEF PostsIn
<1> HIDE DEF e, slot
<1>10. /\ posted' \in [Channels -> 0..MaxPosts]
       /\ \A k \in Channels :
            /\ Numbered(queue'[k], posted'[k])
            /\ posted'[k] - Used(queue'[k]) = posted[k] - Used(queue[k])
            /\ queue'[k].start = queue[k].start
            /\ Used(queue[k]) >= 1 =>
                 /\ Used(queue'[k]) >= 1
                 /\ queue'[k].buf[queue'[k].start] = queue[k].buf[queue[k].start]
  BY <1>9, PostedQueues
<1>11. Told(queue', dev, core)
  BY <1>3, <1>10, ToldKeeps
<1>12. /\ dev' \in DevRecords /\ dev'.stream = dev.stream
       /\ core' \in CoreRecords /\ core'.done = core.done /\ Told(queue', dev', core')
  <2>1. CASE dev.active
    BY <1>2, <1>3, <1>11, <2>1
  <2>2. CASE ~dev.active
    <3>1. ~Busy /\ ~core.done /\ ~core.mixed /\ Launch(queue')
      BY <1>2, <2>2 DEF IInv, Alone
    <3>2. /\ dev' \in DevRecords /\ dev'.stream = dev.stream
          /\ core' \in CoreRecords /\ ~core'.done /\ Told(queue', dev', core')
      BY <1>3, <1>7, <1>11, <3>1, LaunchTold
    <3> QED BY <1>3, <3>1, <3>2 DEF CoreRecords
  <2> QED BY <2>1, <2>2
<1>13. /\ isr' \in IsrRecords /\ isr.pc # "clear" /\ isr'.pc # "clear"
       /\ Owed(c) /\ ~Owed(c)'
       /\ \A k \in Channels \ {c} : /\ Owed(k)' <=> Owed(k)
                                    /\ Owed(k) => isr'[k] = isr[k] /\ isr[k] \in Slots
  BY <1>12, CallbackOwes
<1>14. /\ called' = [called EXCEPT ![c] = called[c] + 1]
       /\ called' \in [Channels -> Nat] /\ called'[c] = called[c] + 1
       /\ \A k \in Channels \ {c} : called'[k] = called[k]
       /\ called[c] = posted[c] - Used(queue[c]) - 1
       /\ called[c] < Finished[c]
  BY <1>13, CallbackCounts
<1>15. Types'
  BY <1>7, <1>10, <1>12, <1>13, <1>14 DEF DInv, Types
<1>16. TransferOK'
  BY <1>10, <1>12, <1>13 DEF DInv, TransferOK
<1>17. ASSUME NEW k \in Channels PROVE CalledOK(k)'
  <2>1. /\ queue[k] \in Queues /\ Used(queue[k]) \in Nat /\ posted[k] \in Nat /\ CalledOK(k)
        /\ posted'[k] - Used(queue'[k]) = posted[k] - Used(queue[k])
        /\ queue'[k].start = queue[k].start
    BY <1>10, UsedIs DEF DInv, Types, QueuesOK
  <2>2. CASE k = c
    <3>1. called'[c] = posted'[c] - Used(queue'[c])
      BY <1>14, <2>1, <2>2
    <3>2. Used(queue'[c]) \in Nat /\ posted'[c] \in Nat
      BY <1>7, <1>10, UsedIs
    <3> QED BY <1>13, <2>2, <3>1, <3>2 DEF CalledOK
  <2>3. CASE k # c
    <3>1. called'[k] = called[k] /\ (Owed(k)' <=> Owed(k))
      BY <1>13, <1>14, <2>3
    <3>2. ASSUME Owed(k)
          PROVE  /\ After(isr'[k]) = queue'[k].start
                 /\ queue'[k].buf[isr'[k]].id = called[k] + 1
      <4>1. isr'[k] = isr[k] /\ isr[k] \in Slots
        BY <1>13, <2>3, <3>2
      <4>2. After(isr[k]) = queue[k].start /\ queue[k].buf[isr[k]].id = called[k] + 1
        BY <2>1, <3>2 DEF CalledOK
      <4>3. queue'[k].buf[isr[k]] = queue[k].buf[isr[k]]
        <5>1. CASE k = d
          BY <1>6, <1>8, <4>1, <4>2, <5>1
        <5>2. CASE k # d
          BY <1>7, <5>2
        <5> QED BY <5>1, <5>2
      <4> QED BY <2>1, <4>1, <4>2, <4>3
    <3>3. called[k] = posted'[k] - Used(queue'[k]) - (IF Owed(k) THEN 1 ELSE 0)
      BY <2>1 DEF CalledOK
    <3> QED BY <3>1, <3>2, <3>3 DEF CalledOK
  <2> QED BY <2>2, <2>3
<1>18. ASSUME NEW k \in Channels PROVE CallOK(k)'
  <2>1. call.op = "none" /\ k # "none" /\ call' = call
    BY <1>2 DEF DInv, QueuesOK, CallOK, Channels
  <2> QED BY <1>2, <2>1 DEF CallOK
<1>19. QueuesOK'
  BY <1>10, <1>17, <1>18 DEF QueuesOK
<1>20. \A k \in Channels : Served(k)' = Served(k)
  BY <1>12, <1>13 DEF Served
<1>21. DeviceStep
  <2>1. /\ Len(Pending[d]) < NSLOTS - 1 /\ Finished' = Finished
        /\ Pending' = [Pending EXCEPT ![d] =
             Append(Pending[d], [id |-> Finished[d] + Len(Pending[d]) + 1, len |-> len])]
    BY <1>4, <1>9, <1>15, <1>16, <1>20, PostedDevice
  <2>2. moved' = moved /\ dev'.stream = dev.stream
    BY <1>12
  <2> QED BY <1>4, <1>14, <2>1, <2>2, CallbackAndPostIs
<1> QED BY <1>15, <1>16, <1>19, <1>21 DEF DInv

LEMMA IsrCallbackOK ==
    ASSUME ~Reentrant, IInv, DInv, NEW c \in Channels, IsrCallback(c)
    PROVE  DInv' /\ DeviceStep
<1>1. /\ isr.pc = c /\ UNCHANGED <<call, moved>>
      /\ isr' = IF c = "tx" THEN [isr EXCEPT !.pc = "rx", !.tx = 0] ELSE Off
      /\ dev.stream = c => UNCHANGED <<called, queue, posted, dev, core>>
      /\ dev.stream # c => /\ called' = [called EXCEPT ![c] = queue[c].buf[isr[c]].id]
                           /\ UNCHANGED <<queue, posted, dev, core>> \/ CallbackPosts
  BY DEF IsrCallback
<1>2. CASE dev.stream # c /\ CallbackPosts
  BY <1>1, <1>2, PostingCallbackOK
<1>3. CASE UNCHANGED <<queue, posted, dev, core>>
  BY <1>1, <1>3, QuietCallbackOK
<1> QED BY <1>1, <1>2, <1>3

-----------------------------------------------------------------------------
(* All steps *)

LEMMA InitDInv == Init => DInv /\ Device!Init
<1> SUFFICES ASSUME Init PROVE DInv /\ Device!Init
  OBVIOUS
<1>1. /\ 0 \in Slots /\ 0 \in Lengths /\ 0 \in 0..MaxPosts /\ 0 \in Beyond..MaxPosts
      /\ Idle \in CallRecords
  BY DmaAssumption, CallTypes DEF Slots, Lengths, Beyond
<1>2. queue \in [Channels -> Queues] /\ \A c \in Channels : Used(queue[c]) = 0
  <2>1. Empty \in Entries
    BY <1>1 DEF Empty, Entries
  <2>2. [buf |-> [s \in Slots |-> Empty], start |-> 0, end |-> 0] \in Queues
    BY <1>1, <2>1 DEF Queues
  <2>3. Used([buf |-> [s \in Slots |-> Empty], start |-> 0, end |-> 0]) = 0
    BY DEF Used, Count
  <2> QED BY <2>2, <2>3 DEF Init
<1>3. Types
  <2>1. core \in CoreRecords
    BY <1>1 DEF Init, CoreRecords, Register
  <2>2. dev \in DevRecords
    BY DEF Init, DevRecords
  <2>3. isr \in IsrRecords
    BY <1>1 DEF Init, Off, IsrRecords
  <2> QED BY <1>1, <1>2, <2>1, <2>2, <2>3 DEF Init, Types
<1>4. TransferOK
  BY DEF Init, TransferOK, Told, Modes
<1>5. QueuesOK
  <2> SUFFICES ASSUME NEW c \in Channels
               PROVE  Numbered(queue[c], posted[c]) /\ CalledOK(c) /\ CallOK(c)
    BY DEF QueuesOK
  <2>1. ~Owed(c)
    BY DEF Init, Owed, Off
  <2>2. posted[c] = 0 /\ called[c] = 0 /\ Used(queue[c]) = 0
    BY <1>2 DEF Init
  <2>3. Numbered(queue[c], posted[c])
    BY <2>2 DEF Numbered
  <2>4. CalledOK(c)
    <3>1. (IF Owed(c) THEN 1 ELSE 0) = 0
      BY <2>1
    <3>2. called[c] = posted[c] - Used(queue[c]) - 0
      BY <2>2
    <3> QED BY <2>1, <3>1, <3>2 DEF CalledOK
  <2>5. CallOK(c)
    BY DEF Init, Idle, CallOK, Channels
  <2> QED BY <2>3, <2>4, <2>5
<1>6. \A c \in Channels : Ring(c) = << >> /\ Len(Ring(c)) = 0
  <2> TAKE c \in Channels
  <2>1. Served(c) = 0
    BY DEF Init, Served
  <2>2. Ring(c) \in Seq(Entries) /\ Len(Ring(c)) = 0
    BY <1>2, <1>3, <1>4, <2>1, RingIs
  <2> QED BY <2>2, EmptySeq
<1>7. Pending = [c \in Channels |-> << >>] /\ Finished = [c \in Channels |-> 0]
  BY <1>6 DEF Init, Pending, Finished
<1>8. Device!Init
  BY <1>7 DEF Init, Device!Init, Device!Channels, Device!Nothing, Device!Register, Channels,
              Register, Pending, Finished
<1> QED BY <1>3, <1>4, <1>5, <1>8 DEF DInv

LEMMA NextDInv ==
    ASSUME ~Reentrant, IInv, DInv, [Next]_vars
    PROVE  DInv' /\ DeviceStep
<1>1. CASE UNCHANGED vars
  <2>1. DInv'
    BY <1>1 DEF vars, DInv, Types, QueuesOK, TransferOK, CalledOK, CallOK, Owed
  <2>2. \A c \in Channels : RingOf(queue'[c], Served(c)') = RingOf(queue[c], Served(c))
    BY <1>1 DEF vars, Served
  <2> QED BY <1>1, <2>1, <2>2, Stutter DEF vars, DInv
<1>2. ASSUME NEW c \in Channels, Posts(c) PROVE DInv' /\ DeviceStep
  BY <1>2, ReadStartOK, ReadEndOK, FillOK, PublishOK, LookActiveOK, CallLaunchOK DEF Posts
<1>3. CASE alt_avalon_dma_ioctl
  BY <1>3, IoctlOK
<1>4. CASE alt_avalon_dma_irq
  BY <1>4, IsrAdvanceOK, IsrClearOK, IsrLaunchOK, IsrCallbackOK DEF alt_avalon_dma_irq
<1>5. CASE CoreDone
  BY <1>5, CoreDoneOK
<1> QED BY <1>1, <1>2, <1>3, <1>4, <1>5
        DEF Next, alt_dma_txchan, alt_dma_rxchan, alt_avalon_dma_send, alt_avalon_dma_prepare,
            Channels

LEMMA Dma_DInv == ASSUME ~Reentrant PROVE Spec => []DInv
<1>1. Init => DInv
  BY InitDInv
<1>2. IInv /\ DInv /\ [Next]_vars => DInv'
  BY NextDInv
<1> QED BY <1>1, <1>2, Dma_IInv, PTL DEF Spec

\* Unless a callback posts while the thread is posting: every field stays in range.

THEOREM Dma_TypeCorrect == ASSUME ~Reentrant PROVE Spec => []TypeOK
<1>1. DInv => TypeOK
  <2> SUFFICES ASSUME DInv PROVE TypeOK
    OBVIOUS
  <2>1. ASSUME NEW c \in Channels PROVE called[c] \in 0..MaxPosts
    <3>1. /\ called[c] \in Nat /\ posted[c] \in 0..MaxPosts /\ Used(queue[c]) \in Nat
          /\ called[c] = posted[c] - Used(queue[c]) - (IF Owed(c) THEN 1 ELSE 0)
      BY UsedIs DEF DInv, Types, QueuesOK, CalledOK
    <3>2. (IF Owed(c) THEN 1 ELSE 0) \in 0..1
      OBVIOUS
    <3> QED BY <3>1, <3>2, DmaAssumption
  <2>2. called \in [Channels -> 0..MaxPosts]
    BY <2>1 DEF DInv, Types
  <2>3. ASSUME NEW c \in Channels
        PROVE  /\ queue[c].start \in Slots /\ queue[c].end \in Slots
               /\ queue[c].buf \in [Slots -> Entries]
    BY UsedIs DEF DInv, Types
  <2> QED BY <2>2, <2>3 DEF DInv, Types, TypeOK, CallRecords, CoreRecords, DevRecords,
                           IsrRecords, Entries
<1> QED BY <1>1, Dma_DInv, PTL

\* Unless a callback posts while the thread is posting: the callback of a request
\* that has been carried out still finds it in its slot.
THEOREM Dma_CallbackFindsItsSlot == ASSUME ~Reentrant PROVE Spec => []CallbackFindsItsSlot
<1>1. DInv => CallbackFindsItsSlot
  BY DEF DInv, QueuesOK, CalledOK, CallbackFindsItsSlot
<1> QED BY <1>1, Dma_DInv, PTL

\* Unless a callback posts while the thread is posting: the driver and the
\* controller are two channels that carry the requests out in order, each once, and
\* follow each by its own callback.
THEOREM Dma_ImplementsChannels == ASSUME ~Reentrant PROVE Spec => ImplementsChannels
<1>1. Init => Device!Init
  BY InitDInv
<1>2. IInv /\ DInv /\ [Next]_vars => [Device!Next]_(Device!vars)
  BY NextDInv DEF DeviceStep
<1> QED BY <1>1, <1>2, Dma_IInv, Dma_DInv, PTL DEF Spec, ImplementsChannels, Device!Spec
=============================================================================

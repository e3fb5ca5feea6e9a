------------------------------ MODULE JtagUart ------------------------------
(***************************************************************************)
(* The interrupt-driven driver of the JTAG UART (drivers/src/              *)
(* altera_avalon_jtag_uart_*.c) on the core of the system                  *)
(* (NiosIISystem_jtag_uart.v), used by one thread, with the host program   *)
(* (nios2-terminal) at the other end.                                      *)
(*                                                                         *)
(* The thread advances by one access to shared state per step; between any *)
(* two of them the core may interrupt it, unless the code has disabled     *)
(* interrupts.  The interrupt routine advances by one device access per    *)
(* step: the thread stands still meanwhile, the host does not.             *)
(***************************************************************************)
EXTENDS Integers, Sequences

CONSTANTS BUF_LEN,      \* ALTERA_AVALON_JTAG_UART_BUF_LEN
          Depth,        \* characters of each FIFO of the core
          Threshold,    \* READ_THRESHOLD and WRITE_THRESHOLD
          INT_MAX,
          Timeout,      \* ALTERA_AVALON_JTAG_UART_DEFAULT_TIMEOUT
          NewTimeouts,  \* arguments of TIOCSTIMEOUT
          MaxCount,     \* most characters of a call
          MaxChars      \* bound: characters sent, both ways together

\* One slot of a ring stays free, so that a ring of one slot would hold nothing.
ASSUME SizesAssumption ==
    /\ BUF_LEN \in Nat /\ BUF_LEN >= 2 /\ Depth \in Nat \ {0}
    /\ Threshold \in 0..(Depth - 1)
    /\ INT_MAX \in Nat /\ INT_MAX >= 4
    /\ Timeout \in 2..(INT_MAX - 1) /\ NewTimeouts \subseteq Int
    /\ MaxCount \in Nat /\ MaxChars \in Nat

VARIABLES sp,    \* altera_avalon_jtag_uart_state
          core,  \* FIFOs, pause_irq and ac of the core
          typed, \* number of the host's next character
          call,  \* the call in progress and its local variables
          isr,   \* the interrupt routine and its local variables
          next   \* number of the program's next character to write

vars == <<sp, core, typed, call, isr, next>>

-----------------------------------------------------------------------------
(* The core: interrupt conditions, data and control register *)

ReadIrq == /\ "RE" \in sp.irq_enable
           /\ core.pause \/ Depth - Len(core.rx) <= Threshold

WriteIrq == /\ "WE" \in sp.irq_enable
            /\ Len(core.tx) <= Threshold

Irq == ReadIrq \/ WriteIrq

ReadData(c) == [c EXCEPT !.rx = IF @ = <<>> THEN @ ELSE Tail(@),
                         !.pause = FALSE]

WriteData(c, char) ==
    [c EXCEPT !.tx = IF Len(@) = Depth THEN @ ELSE Append(@, char)]

-----------------------------------------------------------------------------
(* altera_avalon_jtag_uart_init, and the calls *)

Idle == [op |-> "none", pc |-> "idle", count |-> 0, nonblock |-> FALSE,
         done |-> 0, in |-> 0, out |-> 0, n |-> 0, got |-> <<>>]

Off == [pc |-> "off", wi |-> FALSE, space |-> 0, avail |-> FALSE]

Init ==
    /\ sp = [timeout |-> Timeout, irq_enable |-> {"RE"}, host_inactive |-> 0,
             rx_in |-> 0, rx_out |-> 0, tx_in |-> 0, tx_out |-> 0,
             rx_buf |-> [s \in 0..(BUF_LEN - 1) |-> 0],
             tx_buf |-> [s \in 0..(BUF_LEN - 1) |-> 0]]
    /\ core = [tx |-> <<>>, rx |-> <<>>, pause |-> FALSE, ac |-> FALSE]
    /\ call = Idle /\ isr = Off /\ next = 0 /\ typed = 0

\* The thread runs only outside the interrupt routine.
At(op, pc) == isr.pc = "off" /\ call.op = op /\ call.pc = pc

Least(a, b) == IF a < b THEN a ELSE b

\* Characters the calls so far have been given, and the host has sent.
Sent == next + typed + IF call.op = "write" THEN call.done + call.count ELSE 0

Begin == /\ At("none", "idle")
         /\ \E op \in {"write", "read", "close"}, count \in 0..MaxCount,
               nonblock \in BOOLEAN :
                /\ op = "close" => count = 0
                /\ op = "write" => Sent + count <= MaxChars
                /\ call' = [Idle EXCEPT !.op = op, !.pc = "look",
                                        !.count = count, !.nonblock = nonblock]
         /\ UNCHANGED <<sp, core, typed, isr, next>>

-----------------------------------------------------------------------------
(* altera_avalon_jtag_uart_write *)

\* Slip: the slot before the first of the ring is not kept free.
WriteRoomToTheEnd(in, out) == IF in < out THEN out - 1 - in ELSE BUF_LEN - in

WriteRoom(in, out) == IF in < out THEN out - 1 - in
                      ELSE IF out > 0 THEN BUF_LEN - in
                      ELSE BUF_LEN - 1 - in

WriteLook ==
    /\ At("write", "look")
    /\ LET room == WriteRoom(sp.tx_in, sp.tx_out)
       IN  call' = IF call.count = 0 THEN [call EXCEPT !.pc = "enable"]
                   ELSE IF room = 0
                   THEN [call EXCEPT !.pc = "enable", !.out = sp.tx_out]
                   ELSE [call EXCEPT !.pc = "copy", !.in = sp.tx_in,
                                     !.n = Least(room, call.count)]
    /\ UNCHANGED <<sp, core, typed, isr, next>>

WriteCopy ==
    /\ At("write", "copy")
    /\ sp' = [sp EXCEPT
         !.tx_buf = [s \in DOMAIN @ |->
                       IF s \in call.in..(call.in + call.n - 1)
                       THEN next + call.done + s - call.in ELSE @[s]],
         !.tx_in = (call.in + call.n) % BUF_LEN]
    /\ call' = [call EXCEPT !.pc = "look", !.done = @ + call.n,
                            !.count = @ - call.n, !.in = 0, !.n = 0]
    /\ UNCHANGED <<core, typed, isr, next>>

WriteEnable ==
    /\ At("write", "enable")
    /\ sp' = [sp EXCEPT !.irq_enable = @ \cup {"WE"}]
    /\ call' = [call EXCEPT !.pc = IF call.count = 0 \/ call.nonblock
                                   THEN "return" ELSE "wait"]
    /\ UNCHANGED <<core, typed, isr, next>>

\* Slip: the wait for room does not look at the timeout.
WriteWaitForRoomOnly ==
    /\ At("write", "wait")
    /\ call.out # sp.tx_out
    /\ call' = [call EXCEPT !.pc = "check"]
    /\ UNCHANGED <<sp, core, typed, isr, next>>

WriteWait ==
    /\ At("write", "wait")
    /\ call.out # sp.tx_out \/ sp.host_inactive >= sp.timeout
    /\ call' = [call EXCEPT !.pc = "check"]
    /\ UNCHANGED <<sp, core, typed, isr, next>>

WriteCheck ==
    /\ At("write", "check")
    /\ call' = [call EXCEPT !.pc = IF sp.host_inactive # 0 THEN "return" ELSE "look"]
    /\ UNCHANGED <<sp, core, typed, isr, next>>

EIO == 5
EWOULDBLOCK == 11

Result == IF call.done # 0 THEN call.done
          ELSE IF call.nonblock THEN -EWOULDBLOCK ELSE -EIO

\* The program goes on with the first character that was not accepted.
WriteReturn ==
    /\ At("write", "return")
    /\ next' = IF Result < 0 THEN next ELSE next + Result
    /\ call' = Idle
    /\ UNCHANGED <<sp, core, typed, isr>>

-----------------------------------------------------------------------------
(* altera_avalon_jtag_uart_read *)

ReadRun(in, out) == IF in >= out THEN in - out ELSE BUF_LEN - out

ReadLook ==
    /\ At("read", "look")
    /\ LET run == ReadRun(sp.rx_in, sp.rx_out)
       IN  call' = IF call.count # 0 /\ run # 0
                   THEN [call EXCEPT !.pc = "copy", !.out = sp.rx_out,
                                     !.n = Least(run, call.count)]
                   ELSE IF call.count = 0 \/ call.done # 0 \/ call.nonblock
                   THEN [call EXCEPT !.pc = "return"]
                   ELSE [call EXCEPT !.pc = "wait", !.in = sp.rx_in]
    /\ UNCHANGED <<sp, core, typed, isr, next>>

ReadCopy ==
    /\ At("read", "copy")
    /\ call' = [call EXCEPT !.pc = IF call.count = call.n THEN "return" ELSE "look",
                            !.done = @ + call.n, !.count = @ - call.n,
                            !.out = 0, !.n = 0,
                            !.got = @ \o [i \in 1..call.n |->
                                            sp.rx_buf[call.out + i - 1]]]
    /\ sp' = [sp EXCEPT !.rx_out = (call.out + call.n) % BUF_LEN]
    /\ UNCHANGED <<core, typed, isr, next>>

ReadWait ==
    /\ At("read", "wait")
    /\ call.in # sp.rx_in \/ sp.host_inactive >= sp.timeout
    /\ call' = [call EXCEPT !.pc = "check"]
    /\ UNCHANGED <<sp, core, typed, isr, next>>

ReadCheck ==
    /\ At("read", "check")
    /\ call' = [call EXCEPT !.pc = IF call.in = sp.rx_in THEN "return" ELSE "look"]
    /\ UNCHANGED <<sp, core, typed, isr, next>>

\* Slip: the receive interrupt is not turned on again.
ReadReturnStaysOff ==
    /\ At("read", "return")
    /\ call' = Idle
    /\ UNCHANGED <<sp, core, typed, isr, next>>

ReadReturn ==
    /\ At("read", "return")
    /\ sp' = IF call.done # 0 THEN [sp EXCEPT !.irq_enable = @ \cup {"RE"}] ELSE sp
    /\ call' = Idle
    /\ UNCHANGED <<core, typed, isr, next>>

-----------------------------------------------------------------------------
(* altera_avalon_jtag_uart_close and _ioctl *)

Drained == sp.tx_out = sp.tx_in

CloseReturn ==
    /\ At("close", "look")
    /\ Drained \/ sp.host_inactive >= sp.timeout \/ call.nonblock
    /\ call' = Idle
    /\ UNCHANGED <<sp, core, typed, isr, next>>

SetTimeout ==
    /\ At("none", "idle")
    /\ sp.timeout # INT_MAX
    /\ \E timeout \in NewTimeouts :
         sp' = [sp EXCEPT !.timeout = IF timeout >= 2 /\ timeout < INT_MAX
                                      THEN timeout ELSE INT_MAX - 1]
    /\ UNCHANGED <<core, typed, call, isr, next>>

\* TIOCGCONNECTED
Connected == sp.host_inactive < sp.timeout

-----------------------------------------------------------------------------
(* altera_avalon_jtag_uart_irq and _timeout *)

\* The routine is entered, or starts its loop again, and reads the control
\* register.
IsrControl ==
    /\ (isr.pc = "off" /\ Irq) \/ isr.pc = "control"
    /\ isr' = IF ~Irq THEN Off
              ELSE [pc |-> IF ReadIrq THEN "rx" ELSE "tx", wi |-> WriteIrq,
                    space |-> IF WriteIrq THEN Depth - Len(core.tx) ELSE 0,
                    avail |-> TRUE]
    /\ UNCHANGED <<sp, core, typed, call, next>>

RxFull == (sp.rx_in + 1) % BUF_LEN = sp.rx_out

IsrRead ==
    /\ isr.pc = "rx" /\ ~RxFull /\ core.rx # <<>>
    /\ sp' = [sp EXCEPT !.rx_buf[sp.rx_in] = Head(core.rx),
                        !.rx_in = (@ + 1) % BUF_LEN]
    /\ core' = ReadData(core)
    /\ isr' = [isr EXCEPT !.avail = Tail(core.rx) # <<>>]
    /\ UNCHANGED <<typed, call, next>>

\* The end of the inner loop: the ring is full, or the data register had
\* nothing (RVALID is low, and with it RAVAIL is zero).
IsrReadEnd ==
    /\ isr.pc = "rx" /\ (RxFull \/ core.rx = <<>>)
    /\ core' = IF RxFull THEN core ELSE ReadData(core)
    /\ sp' = IF RxFull /\ isr.avail THEN [sp EXCEPT !.irq_enable = @ \ {"RE"}]
             ELSE sp
    /\ isr' = [isr EXCEPT !.pc = IF isr.wi THEN "tx" ELSE "control", !.avail = FALSE]
    /\ UNCHANGED <<typed, call, next>>

IsrWrite ==
    /\ isr.pc = "tx" /\ isr.space > 0 /\ ~Drained
    /\ core' = WriteData(core, sp.tx_buf[sp.tx_out])
    /\ sp' = [sp EXCEPT !.tx_out = (@ + 1) % BUF_LEN]
    /\ isr' = [isr EXCEPT !.space = @ - 1]
    /\ UNCHANGED <<typed, call, next>>

\* Slip: the transmit interrupt is turned off also when the FIFO was full.
IsrWriteEndAlwaysOff ==
    /\ isr.pc = "tx" /\ ~(isr.space > 0 /\ ~Drained)
    /\ sp' = [sp EXCEPT !.irq_enable = @ \ {"WE"}]
    /\ isr' = [isr EXCEPT !.pc = "control", !.wi = FALSE, !.space = 0]
    /\ UNCHANGED <<core, typed, call, next>>

IsrWriteEnd ==
    /\ isr.pc = "tx" /\ ~(isr.space > 0 /\ ~Drained)
    /\ sp' = IF isr.space > 0 THEN [sp EXCEPT !.irq_enable = @ \ {"WE"}] ELSE sp
    /\ isr' = [isr EXCEPT !.pc = "control", !.wi = FALSE, !.space = 0]
    /\ UNCHANGED <<core, typed, call, next>>

\* Slip: the counter goes on to the value that stands for "never".
InactiveToTheEnd(ticks) == IF ticks < INT_MAX - 1 THEN ticks + 1 ELSE ticks

Inactive(ticks) == IF ticks < INT_MAX - 2 THEN ticks + 1 ELSE ticks

\* Called by alt_tick, once per second.
TimeoutTick ==
    /\ isr.pc = "off"
    /\ core' = [core EXCEPT !.ac = FALSE]
    /\ sp' = [sp EXCEPT !.host_inactive = IF core.ac THEN 0 ELSE Inactive(@)]
    /\ UNCHANGED <<typed, call, isr, next>>

-----------------------------------------------------------------------------
(* The host, through the core *)

HostSends ==
    /\ Len(core.rx) < Depth /\ Sent < MaxChars
    /\ core' = [core EXCEPT !.rx = Append(@, typed), !.ac = TRUE]
    /\ typed' = typed + 1
    /\ UNCHANGED <<sp, call, isr, next>>

HostPolls ==
    /\ core' = [core EXCEPT !.pause = @ \/ core.rx # <<>>, !.ac = TRUE]
    /\ UNCHANGED <<sp, typed, call, isr, next>>

HostTakes ==
    /\ core.tx # <<>>
    /\ core' = [core EXCEPT !.tx = Tail(@)]
    /\ UNCHANGED <<sp, typed, call, isr, next>>

-----------------------------------------------------------------------------

Thread == \/ WriteLook \/ WriteCopy \/ WriteEnable \/ WriteWait \/ WriteCheck
          \/ WriteReturn
          \/ ReadLook \/ ReadCopy \/ ReadWait \/ ReadCheck \/ ReadReturn
          \/ CloseReturn

Isr == IsrControl \/ IsrRead \/ IsrReadEnd \/ IsrWrite \/ IsrWriteEnd

Next == \/ Begin \/ SetTimeout \/ Thread \/ Isr \/ TimeoutTick
        \/ HostSends \/ HostPolls \/ HostTakes

Spec == Init /\ [][Next]_vars

\* The thread, the interrupts and the tick run on; nothing is said of the host.
FairSpec == /\ Spec
            /\ WF_vars(Thread) /\ WF_vars(Isr) /\ WF_vars(TimeoutTick)

-----------------------------------------------------------------------------
(* Properties *)

Slots == 0..(BUF_LEN - 1)
Numbers == 0..MaxChars

\* The fields stay in range: pointers in the rings, FIFOs within their depth,
\* host_inactive below the value that stands for "never".
TypeOK ==
    /\ sp.timeout \in 2..(INT_MAX - 1)
    /\ sp.irq_enable \subseteq {"RE", "WE"}
    /\ sp.host_inactive \in 0..(INT_MAX - 2)
    /\ {sp.rx_in, sp.rx_out, sp.tx_in, sp.tx_out} \subseteq Slots
    /\ sp.rx_buf \in [Slots -> Numbers] /\ sp.tx_buf \in [Slots -> Numbers]
    /\ Len(core.tx) <= Depth /\ Len(core.rx) <= Depth
    /\ {core.pause, core.ac, isr.wi, isr.avail} \subseteq BOOLEAN
    /\ {typed, next} \subseteq Numbers
    /\ isr.pc \in {"off", "control", "rx", "tx"} /\ isr.space \in 0..Depth
    /\ call.op \in {"none", "write", "read", "close"}
    /\ call.pc \in {"idle", "look", "copy", "enable", "wait", "check", "return"}
    /\ call.count + call.done \in 0..MaxCount /\ Sent <= MaxChars

RingOf(buf, in, out) ==
    [i \in 1..((in + BUF_LEN - out) % BUF_LEN) |-> buf[(out + i - 1) % BUF_LEN]]

\* Whatever the timing of interrupts, ticks and the host, the driver and the core
\* are a queue of characters each way: nothing lost, doubled or overtaken, and
\* a write call returns exactly the number of characters it has accepted.
Port == INSTANCE SerialPort WITH
    given <- next + (IF call.op = "write" THEN call.done ELSE 0),
    toHost <- core.tx \o RingOf(sp.tx_buf, sp.tx_in, sp.tx_out),
    typed <- typed,
    toProgram <- RingOf(sp.rx_buf, sp.rx_in, sp.rx_out) \o core.rx,
    got <- call.got

ImplementsPort == Port!Spec

\* Neither direction goes to sleep: the receive interrupt is off only while the
\* thread has something to read, or has just read and is about to turn it on
\* again; the transmit interrupt, with characters in the ring, only while the
\* write call that put them there has not yet turned it on.
InterruptsResume ==
    /\ "RE" \in sp.irq_enable \/ sp.rx_in # sp.rx_out
       \/ (call.op = "read" /\ call.done # 0)
    /\ "WE" \in sp.irq_enable \/ Drained
       \/ (call.op = "write" /\ call.pc \in {"look", "copy", "enable"})

\* A host that stays polls again and again, also while characters wait for the
\* program, and takes what is in the FIFO; one that stays away does nothing.
HostStays == /\ []<>core.ac
             /\ []<>(core.rx = <<>> \/ core.pause)
             /\ []<>(core.tx = <<>>)
HostStaysAway == <>[][~(HostSends \/ HostPolls \/ HostTakes)]_vars

\* A write or close call returns, with a host that stays or stays away, unless
\* the timeout is "never".
CallsReturn ==
    (HostStays \/ HostStaysAway) =>
        (call.op \in {"write", "close"} /\ sp.timeout < INT_MAX - 1
            ~> call.op \notin {"write", "close"})

\* What a write call has accepted goes out to a host that stays, and what
\* such a host has sent ends the read call that waits for it.
HostIsServed ==
    HostStays =>
        /\ \A k \in Slots : (~Drained /\ sp.tx_out = k ~> sp.tx_out # k)
        /\ (call.op = "read" /\ core.rx # <<>> ~> call.op # "read")
=============================================================================

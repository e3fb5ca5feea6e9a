-------------------------------- MODULE Dma --------------------------------
(***************************************************************************)
(* The driver of the DMA device (drivers/src/altera_avalon_dma.c) on the   *)
(* controller of the system (NiosIISystem_dma.v).                          *)
(*                                                                         *)
(* One thread calls send, prepare and ioctl; between any two of its steps  *)
(* the controller may interrupt it.  The interrupt routine is not itself   *)
(* interrupted, but the controller works on meanwhile.  The requests of a  *)
(* channel are numbered; a number stands for the address of the request.   *)
(*                                                                         *)
(* posted, called and moved are not in the code: how many requests have    *)
(* been accepted, whose callback was made last, what the last transfer     *)
(* has moved.                                                              *)
(***************************************************************************)
EXTENDS Integers, Sequences

CONSTANTS NSLOTS,      \* ALT_AVALON_DMA_NSLOTS
          Lens,        \* of each channel, the lengths of its requests in bytes
          MaxLength,   \* max_length of the device
          Units,       \* bytes per unit, as set by ioctl
          CoreUnits,   \* units the controller has been generated for
          Reentrant,   \* may a callback post while the thread is posting?
          MaxPosts     \* bound: requests of each channel

ASSUME DmaAssumption ==
    /\ NSLOTS \in Nat \ {0} /\ MaxPosts \in Nat /\ MaxLength \in Nat
    /\ \A c \in {"tx", "rx"} : \A n \in 1..MaxPosts : Lens[c][n] \in Nat \ {0}
    /\ Units \subseteq {1, 2, 4, 8, 16} /\ CoreUnits \subseteq {1, 2, 4, 8, 16}
    /\ Reentrant \in BOOLEAN

VARIABLES queue,   \* tx_buf, tx_start, tx_end and the same of rx
          dev,     \* the other fields of alt_avalon_dma_priv
          core,    \* registers of the controller, and what it is doing
          call,    \* the call of the thread in progress
          isr,     \* the interrupt routine, with the slots it serves
          posted, called, moved

vars == <<queue, dev, core, call, isr, posted, called, moved>>

Channels == {"tx", "rx"}
Slots == 0..(NSLOTS - 1)

After(slot) == (slot + 1) % NSLOTS

\* Addresses other than those of requests: the register of the program, and
\* wherever a transfer has left an incrementing address.
Register == 0
Beyond == -1

Idle == [op |-> "none", pc |-> "idle", len |-> 0, start |-> 0, end |-> 0]
Off == [pc |-> "off", tx |-> 0, rx |-> 0]
Empty == [id |-> 0, len |-> 0]

Init ==
    /\ queue = [c \in Channels |->
                  [buf |-> [s \in Slots |-> Empty], start |-> 0, end |-> 0]]
    /\ dev = [unit |-> 4, stream |-> "none", launch |-> "bidir", active |-> FALSE]
    /\ core = [raddr |-> Register, waddr |-> Register, length |-> 0,
               mixed |-> FALSE, done |-> FALSE]
    /\ call = Idle /\ isr = Off
    /\ posted = [c \in Channels |-> 0] /\ called = [c \in Channels |-> 0]
    /\ moved = [from |-> Register, to |-> Register, len |-> 0]

-----------------------------------------------------------------------------
(* The controller *)

Busy == core.length # 0

\* A length written while a transfer is going on mixes the two.
WriteLength(c, len) == [c EXCEPT !.length = len, !.mixed = Busy]

\* The end of a transfer.  Without a unit it was generated for, the controller
\* never counts its length down.
CoreDone ==
    /\ Busy /\ dev.unit \in CoreUnits
    /\ moved' = [from |-> core.raddr, to |-> core.waddr,
                 len |-> IF core.mixed THEN Beyond ELSE core.length]
    /\ core' = [raddr |-> IF dev.stream = "tx" THEN core.raddr ELSE Beyond,
                waddr |-> IF dev.stream = "rx" THEN core.waddr ELSE Beyond,
                length |-> 0, mixed |-> FALSE, done |-> TRUE]
    /\ UNCHANGED <<queue, dev, call, isr, posted, called>>

-----------------------------------------------------------------------------
(* alt_avalon_dma_launch_bidir, _txonly and _rxonly: priv->launch *)

Waiting(q, c) == q[c].start # q[c].end

First(q, c) == q[c].buf[q[c].start]

\* Slip: the comparison is the wrong way round.
Longer(a, b) == IF a < b THEN b ELSE a

Shorter(a, b) == IF a < b THEN a ELSE b

LaunchBidir(q) ==
    /\ Waiting(q, "tx") /\ Waiting(q, "rx")
    /\ core' = WriteLength([core EXCEPT !.raddr = First(q, "tx").id,
                                        !.waddr = First(q, "rx").id],
                           Shorter(First(q, "tx").len, First(q, "rx").len))

LaunchTxOnly(q) ==
    /\ Waiting(q, "tx")
    /\ core' = WriteLength([core EXCEPT !.raddr = First(q, "tx").id], First(q, "tx").len)

LaunchRxOnly(q) ==
    /\ Waiting(q, "rx")
    /\ core' = WriteLength([core EXCEPT !.waddr = First(q, "rx").id], First(q, "rx").len)

CanLaunch(q) == CASE dev.launch = "bidir" -> Waiting(q, "tx") /\ Waiting(q, "rx")
                  [] dev.launch = "txonly" -> Waiting(q, "tx")
                  [] OTHER -> Waiting(q, "rx")

\* Nothing is running when it is called, so that nothing of this device can
\* come between its accesses.
Launch(q) ==
    /\ dev' = [dev EXCEPT !.active = CanLaunch(q)]
    /\ \/ dev.launch = "bidir" /\ LaunchBidir(q)
       \/ dev.launch = "txonly" /\ LaunchTxOnly(q)
       \/ dev.launch = "rxonly" /\ LaunchRxOnly(q)
       \/ ~CanLaunch(q) /\ UNCHANGED core

-----------------------------------------------------------------------------
(* alt_avalon_dma_send and alt_avalon_dma_prepare, in the thread *)

At(op, pc) == isr.pc = "off" /\ call.op = op /\ call.pc = pc

\* -EINVAL leaves everything as it was.
Valid(len) == len % dev.unit = 0 /\ len <= MaxLength

ReadStart(c) ==
    /\ At("none", "idle") /\ posted[c] < MaxPosts
    /\ LET len == Lens[c][posted[c] + 1]
       IN  /\ Valid(len)
           /\ call' = [Idle EXCEPT !.op = c, !.pc = "end", !.len = len,
                                   !.start = queue[c].start]
    /\ UNCHANGED <<queue, dev, core, isr, posted, called, moved>>

\* Slip: nobody looks for room.
NeverFull(start, end) == FALSE

\* -ENOSPC: one slot always stays free.
Full(start, end) == After(end) = start

ReadEnd(c) ==
    /\ At(c, "end")
    /\ call' = IF Full(call.start, queue[c].end) THEN Idle
               ELSE [call EXCEPT !.pc = "fill", !.start = 0, !.end = queue[c].end]
    /\ UNCHANGED <<queue, dev, core, isr, posted, called, moved>>

Filled(q, c, slot, len) ==
    [q EXCEPT ![c].buf[slot] = [id |-> posted[c] + 1, len |-> len]]

Fill(c) ==
    /\ At(c, "fill")
    /\ queue' = Filled(queue, c, call.end, call.len)
    /\ call' = [call EXCEPT !.pc = "publish", !.len = 0]
    /\ UNCHANGED <<dev, core, isr, posted, called, moved>>

Publish(c) ==
    /\ At(c, "publish")
    /\ queue' = [queue EXCEPT ![c].end = After(call.end)]
    /\ posted' = [posted EXCEPT ![c] = @ + 1]
    /\ call' = [call EXCEPT !.pc = "look", !.end = 0]
    /\ UNCHANGED <<dev, core, isr, called, moved>>

\* Slip: the transfer is launched also when one is going on.
LookNowhere(c) ==
    /\ At(c, "look")
    /\ call' = [call EXCEPT !.pc = "launch"]
    /\ UNCHANGED <<queue, dev, core, isr, posted, called, moved>>

LookActive(c) ==
    /\ At(c, "look")
    /\ call' = IF dev.active THEN Idle ELSE [call EXCEPT !.pc = "launch"]
    /\ UNCHANGED <<queue, dev, core, isr, posted, called, moved>>

CallLaunch(c) ==
    /\ At(c, "launch")
    /\ Launch(queue)
    /\ call' = Idle
    /\ UNCHANGED <<queue, isr, posted, called, moved>>

Posts(c) == \/ ReadStart(c) \/ ReadEnd(c) \/ Fill(c) \/ Publish(c)
            \/ LookActive(c) \/ CallLaunch(c)

alt_avalon_dma_send == Posts("tx")

alt_avalon_dma_prepare == Posts("rx")

alt_avalon_dma_space(start, end) ==
    IF start > end THEN start - end - 1 ELSE NSLOTS + start - end - 1

-----------------------------------------------------------------------------
(* alt_avalon_dma_ioctl, in the thread *)

\* The call fails with -EIO while requests are pending or the device runs.
Settled == (\A c \in Channels : ~Waiting(queue, c)) /\ ~Busy

Ioctl ==
    /\ At("none", "idle") /\ Settled
    /\ UNCHANGED <<queue, call, isr, posted, called, moved>>

\* The transmit side reads a register of the program from now on: refused
\* while the receive side writes one.
TxStreamOn ==
    /\ Ioctl /\ dev.stream # "rx"
    /\ core' = [core EXCEPT !.raddr = Register]
    /\ dev' = [dev EXCEPT !.stream = "tx", !.launch = "rxonly"]

\* Bound on the program: it turns off only the stream that is on.  (With the
\* other one on, the code would keep that stream and launch as without one.)
TxStreamOff ==
    /\ Ioctl /\ dev.stream = "tx"
    /\ dev' = [dev EXCEPT !.stream = "none", !.launch = "bidir"]
    /\ UNCHANGED core

RxStreamOn ==
    /\ Ioctl /\ dev.stream # "tx"
    /\ core' = [core EXCEPT !.waddr = Register]
    /\ dev' = [dev EXCEPT !.stream = "rx", !.launch = "txonly"]

RxStreamOff ==
    /\ Ioctl /\ dev.stream = "rx"
    /\ dev' = [dev EXCEPT !.stream = "none", !.launch = "bidir"]
    /\ UNCHANGED core

SetMode ==
    /\ Ioctl
    /\ \E unit \in Units : dev' = [dev EXCEPT !.unit = unit]
    /\ UNCHANGED core

alt_avalon_dma_ioctl ==
    TxStreamOn \/ TxStreamOff \/ RxStreamOn \/ RxStreamOff \/ SetMode

-----------------------------------------------------------------------------
(* alt_avalon_dma_irq *)

Advance(c) == IF dev.stream = c THEN queue[c].start ELSE After(queue[c].start)

IsrAdvance ==
    /\ isr.pc = "off" /\ core.done
    /\ isr' = [pc |-> "clear", tx |-> queue["tx"].start, rx |-> queue["rx"].start]
    /\ queue' = [c \in Channels |-> [queue[c] EXCEPT !.start = Advance(c)]]
    /\ UNCHANGED <<dev, core, call, posted, called, moved>>

IsrClear ==
    /\ isr.pc = "clear"
    /\ core' = [core EXCEPT !.done = FALSE]
    /\ isr' = [isr EXCEPT !.pc = "launch"]
    /\ UNCHANGED <<queue, dev, call, posted, called, moved>>

\* Slip: the next transfer is left to the next call.
IsrLaunchesNothing ==
    /\ isr.pc = "launch"
    /\ isr' = [isr EXCEPT !.pc = "tx"]
    /\ UNCHANGED <<queue, dev, core, call, posted, called, moved>>

IsrLaunch ==
    /\ isr.pc = "launch"
    /\ Launch(queue)
    /\ isr' = [isr EXCEPT !.pc = "tx"]
    /\ UNCHANGED <<queue, call, posted, called, moved>>

\* What a callback on the interrupt may do: post one request.
CallbackPosts ==
    \E d \in Channels :
      LET len == Lens[d][posted[d] + 1]
          slot == queue[d].end
          q == [Filled(queue, d, slot, len) EXCEPT ![d].end = After(slot)]
      IN  /\ posted[d] < MaxPosts /\ Valid(len)
          /\ ~Full(queue[d].start, slot)
          /\ Reentrant \/ call.pc = "idle"
          /\ queue' = q
          /\ posted' = [posted EXCEPT ![d] = @ + 1]
          /\ IF dev.active THEN UNCHANGED <<dev, core>> ELSE Launch(q)

\* The callback of channel c, read from the slot the transfer was made from.
IsrCallback(c) ==
    /\ isr.pc = c
    /\ isr' = IF c = "tx" THEN [isr EXCEPT !.pc = "rx", !.tx = 0] ELSE Off
    /\ IF dev.stream = c
       THEN UNCHANGED <<called, queue, posted, dev, core>>
       ELSE /\ called' = [called EXCEPT ![c] = queue[c].buf[isr[c]].id]
            /\ UNCHANGED <<queue, posted, dev, core>> \/ CallbackPosts
    /\ UNCHANGED <<call, moved>>

alt_avalon_dma_irq == IsrAdvance \/ IsrClear \/ IsrLaunch \/ \E c \in Channels : IsrCallback(c)

-----------------------------------------------------------------------------

\* alt_dma.h: calls on an open channel; on NULL they fail and change nothing.
\* Either channel takes the requests that are about the other one.
alt_dma_txchan == alt_avalon_dma_send \/ alt_avalon_dma_ioctl
alt_dma_rxchan == alt_avalon_dma_prepare \/ alt_avalon_dma_ioctl

Next == alt_dma_txchan \/ alt_dma_rxchan \/ alt_avalon_dma_irq \/ CoreDone

Spec == Init /\ [][Next]_vars

\* A call that has begun goes on, interrupts are taken, transfers end.
FairSpec ==
    /\ Spec
    /\ WF_vars(call.op # "none" /\ \E c \in Channels : Posts(c))
    /\ WF_vars(alt_avalon_dma_irq) /\ WF_vars(CoreDone)

-----------------------------------------------------------------------------
(* Properties *)

Lengths == {0} \cup {Lens[c][n] : c \in Channels, n \in 1..MaxPosts}

\* The fields stay in range.
TypeOK ==
    /\ \A c \in Channels : /\ queue[c].start \in Slots /\ queue[c].end \in Slots
                           /\ queue[c].buf \in [Slots -> [id : 0..MaxPosts, len : Lengths]]
    /\ dev \in [unit : Units \cup {4}, stream : Channels \cup {"none"},
                launch : {"bidir", "txonly", "rxonly"}, active : BOOLEAN]
    /\ core \in [raddr : Beyond..MaxPosts, waddr : Beyond..MaxPosts,
                 length : Lengths, mixed : BOOLEAN, done : BOOLEAN]
    /\ call.op \in Channels \cup {"none"}
    /\ call.pc \in {"idle", "end", "fill", "publish", "look", "launch"}
    /\ isr \in [pc : {"off", "clear", "launch"} \cup Channels, tx : Slots, rx : Slots]
    /\ posted \in [Channels -> 0..MaxPosts] /\ called \in [Channels -> 0..MaxPosts]

\* A launch never comes on top of a transfer: the controller runs only while
\* the driver counts it as active, and never with an interrupt to be served.
OneTransferAtATime ==
    /\ ~core.mixed
    /\ Busy => dev.active /\ (~core.done \/ isr.pc = "clear")
    /\ call.pc = "launch" /\ isr.pc = "off" => ~dev.active /\ ~Busy /\ ~core.done

\* The slot whose callback is still to be made is not given to a new request.
Owed(c) == /\ dev.stream # c
           /\ isr.pc \in (IF c = "tx" THEN {"clear", "launch", "tx"}
                          ELSE {"clear", "launch", "tx", "rx"})
CallbackFindsItsSlot ==
    \A c \in Channels :
        Owed(c) => queue[c].buf[isr[c]].id = called[c] + 1

\* From the slot after a transfer that is over, but not yet advanced past.
Ring(c) ==
    LET served == IF core.done /\ isr.pc # "clear" /\ dev.stream # c THEN 1 ELSE 0
        first == (queue[c].start + served) % NSLOTS
        n == ((queue[c].end + NSLOTS - queue[c].start) % NSLOTS) - served
    IN  [i \in 1..n |-> queue[c].buf[(first + i - 1) % NSLOTS]]

\* Whatever the timing of calls, interrupts and transfers, requests are carried
\* out in order, tx with rx, each once, each followed by its own callback.
Device == INSTANCE DmaChannels WITH
    Capacity <- NSLOTS - 1, Lens <- Lengths,
    pending <- [c \in Channels |-> Ring(c)],
    finished <- [c \in Channels |-> posted[c] - Len(Ring(c))],
    stream <- dev.stream

ImplementsChannels == Device!Spec

\* What a transfer needs: a request from each side without a fixed register.
Movable == /\ dev.unit \in CoreUnits
           /\ \A c \in Channels : dev.stream # c => Ring(c) # <<>>

\* Requests that can be carried out are: the driver never goes to sleep on them,
\* whichever of the thread and the interrupt routine comes first.
RequestsProceed ==
    LET made == called["tx"] + called["rx"]
    IN  \A parity \in {0, 1} : (Movable /\ made % 2 = parity) ~> (made % 2 # parity)
=============================================================================

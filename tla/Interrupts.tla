----------------------------- MODULE Interrupts -----------------------------
(***************************************************************************)
(* Interrupts of the board support package (HAL/src/alt_irq_handler.c,     *)
(* alt_iic.c, alt_iic_isr_register.c, HAL/inc/priv/alt_legacy_irq.h,       *)
(* HAL/inc/sys/alt_irq.h), and the end of the heap (HAL/src/alt_sbrk.c),   *)
(* which interrupt routines may move as well as the thread.                *)
(*                                                                         *)
(* contexts is the stack: the thread, and an interrupt handler for every   *)
(* interrupt taken and not returned from.  The context on top advances by  *)
(* one access to shared state per step.  The processor takes an interrupt  *)
(* before the next step whenever one is pending and enabled.               *)
(***************************************************************************)
EXTENDS Integers, Sequences, FiniteSetsExt

CONSTANTS ALT_NIRQ,     \* interrupts are numbered from 0, the most urgent
          Handlers,     \* routines the program registers
          IsrEnables,   \* do routines call alt_ic_irq_enable and _disable?
          Incrs,        \* bound: arguments of sbrk, sizes of blocks to allocate
          Heap          \* __alt_heap_limit - __alt_heap_start

ASSUME InterruptsAssumption ==
    /\ ALT_NIRQ \in Nat \ {0} /\ Heap \in Nat
    /\ Incrs \subseteq Nat /\ IsrEnables \in BOOLEAN
    /\ "NULL" \notin Handlers

VARIABLES line,               \* interrupts requested by the devices
          pie, ienable,       \* registers of the processor
          alt_irq_active,
          alt_priority_mask,
          alt_irq,            \* the table of handlers and their contexts
          heap_end,
          contexts,
          blocks              \* what sbrk has returned: not in the code

cpu == <<pie, ienable>>
masks == <<alt_irq_active, alt_priority_mask>>
heap == <<heap_end, blocks>>
interrupt_vars == <<line, cpu, masks, alt_irq, heap, contexts>>

Irqs == 0..(ALT_NIRQ - 1)

NoCall == [op |-> "none", irq |-> 0, handler |-> "NULL", incr |-> 0,
           pc |-> "idle", saved |-> << >>, active |-> {}, prev |-> -1]

\* The thread is less urgent than every interrupt.
Thread == [irq |-> ALT_NIRQ, pc |-> "thread", called |-> [handler |-> "NULL", context |-> "NULL"],
           mask |-> {}, call |-> NoCall, calls |-> 0]

\* After alt_irq_init, before the drivers register their routines.
InterruptInit ==
    /\ line = {} /\ pie = TRUE /\ ienable = {}
    /\ alt_irq_active = {} /\ alt_priority_mask = Irqs
    /\ alt_irq = [i \in Irqs |-> [handler |-> "NULL", context |-> "NULL"]]
    /\ heap_end = 0 /\ blocks = {}
    /\ contexts = <<Thread>>

-----------------------------------------------------------------------------
(* The processor *)

alt_irq_pending == line \cap ienable

Interrupted == pie /\ alt_irq_pending # {}

Top == Len(contexts)
Current == contexts[Top]

\* A device requests an interrupt.
Raise(i) ==
    /\ i \notin line
    /\ line' = line \cup {i}
    /\ UNCHANGED <<cpu, masks, alt_irq, heap, contexts>>

\* alt_irq_handler is entered.
Take ==
    /\ Interrupted
    /\ pie' = FALSE
    /\ contexts' = Append(contexts, [Thread EXCEPT !.pc = "loop"])
    /\ UNCHANGED <<line, ienable, masks, alt_irq, heap>>

Outside(pc) == ~Interrupted /\ Current.pc = pc /\ Current.call.op = "none"

Inside(pc) == ~Interrupted /\ Current.call.pc = pc

Goes(context) == contexts' = [contexts EXCEPT ![Top] = context]

CallGoes(call) == Goes([Current EXCEPT !.call = call])

-----------------------------------------------------------------------------
(* alt_irq_handler *)

Dispatch ==
    /\ Outside("loop") /\ alt_irq_pending # {}
    /\ LET i == Min(alt_irq_pending)
       IN  Goes([Current EXCEPT !.pc = "isr", !.irq = i, !.called = alt_irq[i]])
    /\ UNCHANGED <<line, cpu, masks, alt_irq, heap>>

\* The instruction eret restores the status of the interrupted context.
HandlerReturns ==
    /\ Outside("loop") /\ alt_irq_pending = {}
    /\ contexts' = SubSeq(contexts, 1, Top - 1)
    /\ pie' = TRUE
    /\ UNCHANGED <<line, ienable, masks, alt_irq, heap>>

-----------------------------------------------------------------------------
(* A routine.  It makes its device withdraw the request, and may let more  *)
(* urgent interrupts in for the rest of its work.                          *)

Serve ==
    /\ Outside("isr")
    /\ line' = line \ {Current.irq}
    /\ Goes([Current EXCEPT !.pc = "body"])
    /\ UNCHANGED <<cpu, masks, alt_irq, heap>>

\* Slip: a routine may be interrupted by its own interrupt.
AllowedWithOwn(priority) == {i \in Irqs : i <= priority}

Allowed(priority) == {i \in Irqs : i < priority}

alt_irq_interruptible ==
    /\ Outside("body")
    /\ alt_priority_mask' = Allowed(Current.irq)
    /\ ienable' = alt_irq_active \cap alt_priority_mask'
    /\ pie' = TRUE
    /\ Goes([Current EXCEPT !.pc = "open", !.mask = alt_priority_mask])
    /\ UNCHANGED <<line, alt_irq_active, alt_irq, heap>>

Closed == [Thread EXCEPT !.pc = "loop"]

\* Slip: the mask of the interrupted context is not brought back.
NonInterruptibleKeepsMask ==
    /\ Outside("open")
    /\ pie' = FALSE
    /\ Goes(Closed)
    /\ UNCHANGED <<line, ienable, masks, alt_irq, heap>>

alt_irq_non_interruptible ==
    /\ Outside("open")
    /\ pie' = FALSE
    /\ alt_priority_mask' = Current.mask
    /\ ienable' = Current.mask \cap alt_irq_active
    /\ Goes(Closed)
    /\ UNCHANGED <<line, alt_irq_active, alt_irq, heap>>

RoutineReturns ==
    /\ Outside("body")
    /\ Goes(Closed)
    /\ UNCHANGED <<line, cpu, masks, alt_irq, heap>>

-----------------------------------------------------------------------------
(* Calls of the thread and of the routines *)

Begin(op, irq, handler, incr) ==
    /\ ~Interrupted /\ Current.pc \in {"thread", "body", "open"}
    /\ Current.call.op = "none"
    /\ Current.pc # "thread" => Current.calls = 0
    /\ Goes([Current EXCEPT
         !.calls = IF Current.pc = "thread" THEN 0 ELSE 1,
         !.call = [NoCall EXCEPT !.op = op, !.irq = irq, !.handler = handler,
                                 !.incr = incr, !.pc = "disable"]])
    /\ UNCHANGED <<line, cpu, masks, alt_irq, heap>>

\* The drivers register routines, and NULL to withdraw them, in the thread; an
\* interrupt is enabled only while it has a routine.
ProgramCalls ==
    \/ \E i \in Irqs, h \in Handlers \cup {"NULL"} :
         Current.pc = "thread" /\ Begin("register", i, h, 0)
    \/ \E i \in Irqs, op \in {"enable", "disable"} :
         /\ Current.pc # "thread" => IsrEnables
         /\ alt_irq[i].handler # "NULL"
         /\ Begin(op, i, "NULL", 0)
    \/ \E incr \in Incrs : Begin("sbrk", 0, "NULL", incr)

After(call) ==
    IF call.op = "sbrk" THEN "align"
    ELSE IF call.op = "register" /\ call.saved = << >> THEN "handler" ELSE "read"

\* Slip: the critical section does not begin.
DisableAllKeepsPie ==
    /\ Inside("disable")
    /\ LET call == Current.call
       IN  CallGoes([call EXCEPT !.pc = After(call), !.saved = Append(@, pie)])
    /\ UNCHANGED <<line, cpu, masks, alt_irq, heap>>

alt_irq_disable_all ==
    /\ Inside("disable")
    /\ pie' = FALSE
    /\ LET call == Current.call
       IN  CallGoes([call EXCEPT !.pc = After(call), !.saved = Append(@, pie)])
    /\ UNCHANGED <<line, ienable, masks, alt_irq, heap>>

\* Slip: interrupts are on after every section.
RestoredAlwaysOn(context) == TRUE

Restored(context) == context

\* Nested calls restore the status they have found, the outermost returns.
alt_irq_enable_all ==
    /\ Inside("restore")
    /\ LET call == Current.call
           n == Len(call.saved)
       IN  /\ pie' = Restored(call.saved[n])
           /\ CallGoes(IF n = 1 THEN NoCall
                       ELSE [call EXCEPT !.saved = SubSeq(@, 1, n - 1)])
           /\ blocks' = IF n = 1 /\ call.prev >= 0
                        THEN blocks \cup {call.prev..(call.prev + call.incr - 1)}
                        ELSE blocks
    /\ UNCHANGED <<line, ienable, masks, alt_irq, heap_end>>

\* alt_iic_isr_register, which then enables or disables the interrupt.
RegisterHandler ==
    /\ Inside("handler")
    /\ alt_irq' = [alt_irq EXCEPT ![Current.call.irq].handler = Current.call.handler]
    /\ CallGoes([Current.call EXCEPT !.pc = "context"])
    /\ UNCHANGED <<line, cpu, masks, heap>>

RegisterContext ==
    /\ Inside("context")
    /\ alt_irq' = [alt_irq EXCEPT ![Current.call.irq].context = Current.call.handler]
    /\ CallGoes([Current.call EXCEPT !.pc = "disable"])
    /\ UNCHANGED <<line, cpu, masks, heap>>

\* alt_irq_enable and alt_irq_disable
Enabling(call) == call.op = "enable" \/ (call.op = "register" /\ call.handler # "NULL")

ReadActive ==
    /\ Inside("read")
    /\ CallGoes([Current.call EXCEPT !.pc = "write", !.active = alt_irq_active])
    /\ UNCHANGED <<line, cpu, masks, alt_irq, heap>>

WriteActive ==
    /\ Inside("write")
    /\ LET call == Current.call
       IN  /\ alt_irq_active' = IF Enabling(call) THEN call.active \cup {call.irq}
                                ELSE call.active \ {call.irq}
           /\ CallGoes([call EXCEPT !.pc = "ienable", !.active = {}])
    /\ UNCHANGED <<line, cpu, alt_priority_mask, alt_irq, heap>>

WriteIenable ==
    /\ Inside("ienable")
    /\ ienable' = alt_irq_active
    /\ CallGoes([Current.call EXCEPT !.pc = "restore"])
    /\ UNCHANGED <<line, pie, masks, alt_irq, heap>>

\* alt_sbrk
Align(end) == ((end + 3) \div 4) * 4

SbrkAlign ==
    /\ Inside("align")
    /\ heap_end' = Align(heap_end)
    /\ CallGoes([Current.call EXCEPT !.pc = "check"])
    /\ UNCHANGED <<line, cpu, masks, alt_irq, blocks>>

SbrkCheck ==
    /\ Inside("check")
    /\ CallGoes(IF heap_end + Current.call.incr > Heap
                THEN [Current.call EXCEPT !.pc = "restore"]
                ELSE [Current.call EXCEPT !.pc = "extend", !.prev = heap_end])
    /\ UNCHANGED <<line, cpu, masks, alt_irq, heap>>

SbrkExtend ==
    /\ Inside("extend")
    /\ heap_end' = heap_end + Current.call.incr
    /\ CallGoes([Current.call EXCEPT !.pc = "restore"])
    /\ UNCHANGED <<line, cpu, masks, alt_irq, blocks>>

-----------------------------------------------------------------------------

alt_irq_handler == Take \/ Dispatch \/ HandlerReturns

Routine == Serve \/ alt_irq_interruptible \/ alt_irq_non_interruptible \/ RoutineReturns

Register == RegisterHandler \/ RegisterContext
EnableOne == ReadActive \/ WriteActive \/ WriteIenable
alt_sbrk == SbrkAlign \/ SbrkCheck \/ SbrkExtend

Step == \/ alt_irq_handler \/ Routine \/ alt_irq_disable_all \/ alt_irq_enable_all
        \/ Register \/ EnableOne \/ alt_sbrk

InterruptNext == Step \/ ProgramCalls \/ \E i \in Irqs : Raise(i)

InterruptSpec == InterruptInit /\ [][InterruptNext]_interrupt_vars

\* The processor runs on.
FairInterruptSpec == InterruptSpec /\ WF_interrupt_vars(Step)

-----------------------------------------------------------------------------
(* Properties *)

\* Routines in progress, the interrupted before the interrupting one.
Executing == {n \in 1..Top : contexts[n].pc \in {"isr", "body", "open"}}

\* A routine is interrupted only if it allows it, and then only by more urgent
\* interrupts: never by its own, and never twice by the same.
NestsByPriority ==
    \A m, n \in Executing :
        m < n => contexts[m].pc = "open" /\ contexts[n].irq < contexts[m].irq

\* Every routine is called with the context it was registered with, whatever
\* registrations are going on, and never through a NULL pointer.
HandlersMatch ==
    \A n \in Executing : /\ contexts[n].called.handler # "NULL"
                       /\ contexts[n].called.context = contexts[n].called.handler

\* Interrupts are on exactly where no critical section or closed routine is, and
\* then the processor lets in just the active interrupts the routines allow:
\* nested sections do not end early, and no return leaves a mask behind.
MasksExact ==
    Current.call.op = "none" =>
        /\ pie <=> Current.pc \in {"thread", "open"}
        /\ ienable = alt_irq_active \cap alt_priority_mask
        /\ Current.pc = "thread" => alt_priority_mask = Irqs

\* Memory is given out once, wherever interrupts fall and whoever asks, at word
\* boundaries and within the limit.  alt_sbrk.c:46 says that nothing checks the
\* limit; line 88 does, and the property is about the code.
BlocksDisjoint ==
    /\ \A a, b \in blocks : a = b \/ a \cap b = {}
    /\ \A a \in blocks : a \subseteq 0..(Heap - 1)
    /\ \A a \in blocks : \A byte \in a : byte % 4 = 0 \/ byte - 1 \in a

\* The most urgent interrupt is served, or withdrawn by the program.
MostUrgentIsServed == []<>(0 \notin line \/ 0 \notin alt_irq_active)
=============================================================================

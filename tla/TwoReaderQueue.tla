--------------------------- MODULE TwoReaderQueue ---------------------------
(***************************************************************************)
(* What a W or I buffer of a processing element promises: every accepted   *)
(* word is delivered once and in order to each of two readers, the         *)
(* neighbouring PE (toP) and the PE's own MAC unit (toM), which drain at   *)
(* their own pace; a word is refused exactly when one of the readers is    *)
(* Capacity words behind.  In one clock any of the three may act.          *)
(***************************************************************************)
EXTENDS Integers, Sequences

CONSTANTS Capacity, Data

VARIABLES toP, toM

vars == <<toP, toM>>

Init == toP = << >> /\ toM = << >>

Step(q, push, d, pop) ==
    LET rest == IF pop THEN Tail(q) ELSE q
    IN  IF push THEN Append(rest, d) ELSE rest

Clock(push, d, popP, popM) ==
    /\ push => Len(toP) < Capacity /\ Len(toM) < Capacity
    /\ popP => toP # << >>
    /\ popM => toM # << >>
    /\ toP' = Step(toP, push, d, popP)
    /\ toM' = Step(toM, push, d, popM)

Reset == toP' = << >> /\ toM' = << >>

Next ==
    \/ \E push, popP, popM \in BOOLEAN, d \in Data : Clock(push, d, popP, popM)
    \/ Reset

Spec == Init /\ [][Next]_vars
=============================================================================

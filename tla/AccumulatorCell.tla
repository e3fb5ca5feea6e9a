--------------------------- MODULE AccumulatorCell ---------------------------
(***************************************************************************)
(* What one accumulator promises the array, clock by clock: the cell of    *)
(* Cells, on its own, with any words of Word and any timing at its wires.  *)
(***************************************************************************)
EXTENDS Cells

CONSTANT Word

VARIABLE cell

Init == cell = ACCReset

Clock ==
    \E offer \in {Nothing} \cup {<<d>> : d \in Word}, rdy \in BOOLEAN :
        cell' = ACCClock(cell, offer, rdy)

Reset == cell' = ACCReset

Next == Clock \/ Reset

Spec == Init /\ [][Next]_cell
=============================================================================

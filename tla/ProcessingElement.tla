-------------------------- MODULE ProcessingElement --------------------------
(***************************************************************************)
(* What one processing element promises its neighbours: the cell of Cells, *)
(* on its own, with any words and any timing at its wires.  A clock is     *)
(* PEClock of some input, stated register by register.                     *)
(***************************************************************************)
EXTENDS Cells

CONSTANT Word

VARIABLES W, I, O, MAC

cell == [W |-> W, I |-> I, O |-> O, MAC |-> MAC]

Init ==
    /\ W = SideReset
    /\ I = SideReset
    /\ O = << >>
    /\ MAC = Pipe(MAC_Stages)

Offers == {Nothing} \cup {<<d>> : d \in Word}

Side(before, after, mac) ==
    \E offer \in Offers, rdy \in BOOLEAN :
        after = SideClock(before, offer, rdy, mac)

Clock ==
    \E mac \in BOOLEAN :
        /\ mac => Issue(cell, TRUE)
        /\ MAC' = Shifted(MAC, IF mac THEN MACResult(cell) ELSE Nothing)
        /\ \E offer \in Offers :
              O' = Step(O, IF O_DataInRdy(cell) THEN offer ELSE Nothing, mac)
        /\ Side(W, W', mac)
        /\ Side(I, I', mac)

Reset ==
    /\ W' = SideReset
    /\ I' = SideReset
    /\ O' = << >>
    /\ MAC' = Pipe(MAC_Stages)

Next == Clock \/ Reset

Spec == Init /\ [][Next]_<<W, I, O, MAC>>
=============================================================================

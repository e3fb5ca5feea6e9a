------------------------------- MODULE MC_Dma -------------------------------
(* Values for TLC: the four slots of the driver, and requests of which now  *)
(* the one, now the other side is shorter.                                  *)
EXTENDS Dma

MCLens == [tx |-> <<8, 4, 8, 4, 8>>, rx |-> <<4, 8, 4, 8, 4>>]
=============================================================================

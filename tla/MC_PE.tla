-------------------------------- MODULE MC_PE --------------------------------
(***************************************************************************)
(* A PE over two words, multiplied and added modulo 2.  Weights are 0 or   *)
(* 1; image words and partial outputs are 1, against the 0 of a cleared    *)
(* slot.  The word beside a low valid is 0.  Image words are passed on at  *)
(* once, as at the edge of the array; weights wait for their neighbour.    *)
(***************************************************************************)
EXTENDS PE

Times(a, b) == (a * b) % 2
Plus(a, b) == (a + b) % 2

Wires ==
    {in \in [wv : BOOLEAN, w : {0, 1}, wr : BOOLEAN, iv : BOOLEAN, i : {1},
             ir : {TRUE}, ov : BOOLEAN, o : {1}, or : BOOLEAN] :
        ~in.wv => in.w = 0}
=============================================================================

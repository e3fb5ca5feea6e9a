---------------------------- MODULE MC_Accelerator ----------------------------
(***************************************************************************)
(* Numbers for the accelerator.  The multiplication and the addition tell  *)
(* their operands and their order apart, so that a result names what was   *)
(* added to what; every element of the program's arrays is different.      *)
(***************************************************************************)
EXTENDS Accelerator

Prime == 9973
Times(a, b) == (7 * a + 31 * b + 5 * a * b + 1) % Prime
Plus(a, b) == (11 * a + 3 * b + 2) % Prime

Weights(k) == (k * k + 17) % Prime
ImageWords(k) == (3 * k + 101) % Prime
Outputs(k) == 5000 + k
=============================================================================

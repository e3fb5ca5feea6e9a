---------------------------- MODULE MC_TimeOfDay ----------------------------
(* Values for TLC: a counter of eight ticks that wraps again and again, three *)
(* ticks of two units each per second.                                      *)
EXTENDS TimeOfDay

MCTimes == {[sec |-> 5, usec |-> 2, zone |-> 1]}
=============================================================================

------------------------------- MODULE MC_ACC -------------------------------
(***************************************************************************)
(* ACC with sums that remember what was added and in which order: a word   *)
(* is the sequence of the words in it.  Sums of more than NOPCount words   *)
(* keep the last NOPCount of them, which makes the set of words finite     *)
(* and closed; no correct sum is that long.                                *)
(***************************************************************************)
EXTENDS ACC

LOCAL INSTANCE SequencesExt

CONSTANT Items

MCInput == {<<x>> : x \in Items}
MCData == SeqOf(Items, NOPCount)
MCZero == << >>
MCAdd(item, acc) ==
    LET s == acc \o item
    IN  IF Len(s) <= NOPCount THEN s
        ELSE SubSeq(s, Len(s) - NOPCount + 1, Len(s))
=============================================================================

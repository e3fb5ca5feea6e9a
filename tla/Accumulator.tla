----------------------------- MODULE Accumulator -----------------------------
(***************************************************************************)
(* What the accumulator at the foot of a column of processing elements     *)
(* promises: the words it accepts are added up in the order they came, in  *)
(* groups of Group words, each group starting from Zero, and the sums are  *)
(* handed out once each and in order.  Additions take no time here.        *)
(***************************************************************************)
EXTENDS Integers, Sequences

CONSTANTS Group, Data, Zero, Add(_, _)

VARIABLES
    todo,       \* accepted words not added yet
    partial,    \* sum of the words of the group begun
    count,      \* how many words that is
    done        \* sums not handed out yet

vars == <<todo, partial, count, done>>

Init ==
    /\ todo = << >>
    /\ partial = Zero
    /\ count = 0
    /\ done = << >>

Step(q, push, d, pop) ==
    LET rest == IF pop THEN Tail(q) ELSE q
    IN  IF push THEN Append(rest, d) ELSE rest

\* One clock may accept a word, add a word, and hand out a sum.
Clock(accept, d, add, take) ==
    LET sum  == Add(Head(todo), partial)
        last == add /\ count = Group - 1
    IN  /\ add => todo # << >>
        /\ take => done # << >>
        /\ todo' = Step(todo, accept, d, add)
        /\ done' = Step(done, last, sum, take)
        /\ partial' = IF last THEN Zero ELSE IF add THEN sum ELSE partial
        /\ count' = IF last THEN 0 ELSE IF add THEN count + 1 ELSE count

Reset ==
    /\ todo' = << >>
    /\ partial' = Zero
    /\ count' = 0
    /\ done' = << >>

Next ==
    \/ \E accept, add, take \in BOOLEAN, d \in Data : Clock(accept, d, add, take)
    \/ Reset

Spec == Init /\ [][Next]_vars
=============================================================================

----------------------------- MODULE AlarmClock -----------------------------
(***************************************************************************)
(* What the alarms promise: an alarm executes in the tick it is due, not   *)
(* before and not after, and no tick is over before all its alarms have    *)
(* executed.  An alarm that executes may start or stop others.             *)
(***************************************************************************)
EXTENDS Integers

CONSTANTS Alarms, Longest  \* most ticks until an alarm is due

VARIABLES due,     \* ticks until the alarm executes, or Stopped
          ticking  \* is a tick being processed?

Stopped == -1

Init == due = [a \in Alarms |-> Stopped] /\ ticking = FALSE

\* One alarm is started or stopped.
Changed(d, e) ==
    \E a \in Alarms, t \in {Stopped} \cup 1..Longest : e = [d EXCEPT ![a] = t]

Set == ~ticking /\ Changed(due, due') /\ UNCHANGED ticking

Tick == /\ ~ticking /\ ticking' = TRUE
        /\ due' = [a \in Alarms |-> IF due[a] = Stopped THEN Stopped ELSE due[a] - 1]

Execute(a) ==
    /\ ticking /\ due[a] = 0
    /\ \E t \in {Stopped} \cup 1..Longest :
         LET d == [due EXCEPT ![a] = t] IN due' = d \/ Changed(d, due')
    /\ UNCHANGED ticking

TickOver == /\ ticking /\ \A a \in Alarms : due[a] # 0
            /\ ticking' = FALSE /\ UNCHANGED due

Next == Set \/ Tick \/ (\E a \in Alarms : Execute(a)) \/ TickOver

Spec == Init /\ [][Next]_<<due, ticking>>
=============================================================================

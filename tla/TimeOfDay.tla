----------------------------- MODULE TimeOfDay -----------------------------
(***************************************************************************)
(* The wall clock of the board support package (HAL/src/alt_gettod.c,      *)
(* alt_settod.c, alt_times.c) on the tick counter of Alarm.                *)
(*                                                                         *)
(* calibrated is not in the code: what the last settimeofday was given,    *)
(* when, and the ticks since.                                              *)
(***************************************************************************)
EXTENDS Alarm

CONSTANTS ALT_US,  \* microseconds per second
          Times    \* arguments of settimeofday: [sec, usec, zone]

ASSUME ClockAssumption ==
    /\ ALT_US \in Nat /\ ALT_US >= Freq
    /\ Times \subseteq [sec : Nat, usec : 0..(ALT_US - 1), zone : Int]

VARIABLES alt_resettime, alt_timezone, calibrated

vars == <<alarmVars, alt_resettime, alt_timezone, calibrated>>

Never == [time |-> [sec |-> 0, usec |-> 0, zone |-> 0], at |-> -1, since |-> 0]

Init == /\ AlarmInit
        /\ alt_resettime = [sec |-> 0, usec |-> 0] /\ alt_timezone = 0
        /\ calibrated = Never

TickUs == ALT_US \div rate

\* Slip: no second is borrowed when the microseconds come out negative.
gettimeofdayWithoutBorrow ==
    LET usec == alt_resettime.usec + ((nticks * TickUs) % ALT_US)
    IN  [sec |-> alt_resettime.sec + (nticks \div rate) + IF usec < 0 THEN 0 ELSE usec \div ALT_US,
         usec |-> usec % ALT_US, zone |-> alt_timezone]

\* gettimeofday: the product has 64 bits.
gettimeofday ==
    LET sec == alt_resettime.sec + (nticks \div rate)
        usec == alt_resettime.usec + ((nticks * TickUs) % ALT_US)
        borrow == IF usec < 0 THEN 1 ELSE 0
        carry == usec \div ALT_US
    IN  IF usec < 0 /\ sec <= 0
        THEN [sec |-> 0, usec |-> 0, zone |-> alt_timezone]
        ELSE IF usec < 0
        THEN [sec |-> sec - borrow, usec |-> usec + ALT_US, zone |-> alt_timezone]
        ELSE [sec |-> sec + carry, usec |-> usec % ALT_US, zone |-> alt_timezone]

\* settimeofday: the product has the width of alt_u32.
settimeofday(t) ==
    /\ walk = "none" /\ rate # 0
    /\ alt_resettime' = [sec |-> t.sec - (nticks \div rate),
                         usec |-> t.usec - (Wrap(nticks * TickUs) % ALT_US)]
    /\ alt_timezone' = t.zone
    /\ calibrated' = [time |-> t, at |-> nticks, since |-> 0]
    /\ UNCHANGED alarmVars

\* The clock of the times system call.
times == nticks

Next == \/ /\ AlarmNext
           /\ calibrated' = IF nticks' = nticks \/ calibrated = Never THEN calibrated
                            ELSE IF nticks' = 0 THEN Never
                            ELSE [calibrated EXCEPT !.since = @ + 1]
           /\ UNCHANGED <<alt_resettime, alt_timezone>>
        \/ \E t \in Times : settimeofday(t)

Spec == Init /\ [][Next]_vars

\* A tick that has begun goes on.
FairSpec == Spec /\ WF_alarmVars((\E a \in Alarms : Pass(a) \/ Fire(a)) \/ TickEnds)

-----------------------------------------------------------------------------
(* Properties *)

\* Counter, times and links stay in range.
TypeOK ==
    /\ nticks \in 0..(Word - 1) /\ rate \in {0, Freq}
    /\ walk \in Alarms \cup {alt_alarm_list, "none"}
    /\ llist \in [Alarms \cup {alt_alarm_list} ->
                    [next : Alarms \cup {alt_alarm_list}, previous : Alarms \cup {alt_alarm_list}]]
    /\ alarm \in [Alarms -> [time : 0..(Word - 1), rollover : BOOLEAN]]
    /\ due \in [Alarms -> Stopped..Word]
    /\ alt_resettime.usec \in (1 - ALT_US)..(ALT_US - 1)

\* Following next from the head reaches the running alarms, each once, and
\* comes back; previous is its inverse; a stopped alarm points to itself.
ListOK ==
    LET ring == {alt_alarm_list} \cup Running
    IN  /\ \A n \in ring : llist[n].next \in ring /\ llist[llist[n].next].previous = n
        /\ \A S \in SUBSET Running :
             S # {} => \E a \in S : llist[a].next \notin S
        /\ \A a \in Alarms \ Running : llist[a] = [next |-> a, previous |-> a]

\* An alarm executes in the tick it is due, across every wrap of the counter.
Clock == INSTANCE AlarmClock WITH
    Longest <- Word - 1, ticking <- walk # "none"

ImplementsAlarmClock == Clock!Spec

\* The walk of a tick comes to its end, with interrupts disabled meanwhile.
EveryTickEnds == walk # "none" ~> walk = "none"

\* The time that gettimeofday has to return: what was set and the ticks since.
Expected ==
    LET usec == calibrated.time.usec + ((calibrated.since * TickUs) % ALT_US)
    IN  [sec |-> calibrated.time.sec + (calibrated.since \div rate) + (usec \div ALT_US),
         usec |-> usec % ALT_US, zone |-> calibrated.time.zone]

\* settimeofday calibrates the clock: from then on, until the tick counter
\* wraps, gettimeofday returns the time set and the ticks since.  This holds of
\* a clock set while its 32-bit product does not overflow, and not of others.
WallClockSetEarly ==
    calibrated # Never /\ calibrated.at * TickUs < Word => gettimeofday = Expected
=============================================================================

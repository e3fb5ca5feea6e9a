------------------------------- MODULE Alarm -------------------------------
(***************************************************************************)
(* The system clock and the alarms of the board support package            *)
(* (HAL/src/alt_tick.c, alt_alarm_start.c, HAL/inc/sys/alt_llist.h,        *)
(* drivers/src/altera_avalon_timer_sc.c).                                  *)
(*                                                                         *)
(* The tick counter wraps at Word.  Registered alarms form a doubly        *)
(* linked list, which the tick walks with interrupts disabled, one alarm   *)
(* per step; callbacks run inside the walk and may start other alarms.     *)
(*                                                                         *)
(* due is not in the code: the number of ticks until an alarm has to       *)
(* execute, counted apart from the wrapping counter.                       *)
(***************************************************************************)
EXTENDS Integers, FiniteSets

CONSTANTS Alarms,        \* alt_alarm structures of the program
          Word,          \* 2^32, the values of alt_u32
          Freq,          \* ticks per second
          Delays,        \* nticks given to alt_alarm_start
          Periods,       \* intervals returned by callbacks, not zero
          CallbackStops  \* may a callback stop other alarms?

Wrap(i) == i % Word

ASSUME AlarmAssumption ==
    /\ IsFiniteSet(Alarms) /\ Word \in Nat \ {0} /\ Freq \in Nat \ {0}
    /\ Delays \subseteq 0..(Word - 2)
    /\ Periods \subseteq 1..(Word - 1)
    /\ CallbackStops \in BOOLEAN
    /\ {"alt_alarm_list", "none"} \cap Alarms = {}

VARIABLES nticks,  \* _alt_nticks
          rate,    \* _alt_tick_rate
          llist,   \* next and previous of the head and of every alarm
          alarm,   \* time and rollover of every alarm
          walk,    \* the alarm alt_tick looks at, or "none" outside it
          due

alarmVars == <<nticks, rate, llist, alarm, walk, due>>

-----------------------------------------------------------------------------
(* alt_llist.h *)

alt_alarm_list == "alt_alarm_list"

Insert(links, entry) ==
    LET first == links[alt_alarm_list].next
        linked == [links EXCEPT ![entry] = [next |-> first, previous |-> alt_alarm_list]]
    IN  [[linked EXCEPT ![first].previous = entry] EXCEPT ![alt_alarm_list].next = entry]

\* Slip: the successor keeps its pointer to the removed entry.
RemoveOneWay(links, entry) ==
    [[links EXCEPT ![links[entry].previous].next = links[entry].next]
            EXCEPT ![entry] = [next |-> entry, previous |-> entry]]

Remove(links, entry) ==
    LET next == links[entry].next
        previous == links[entry].previous
        unlinked == [[links EXCEPT ![next].previous = previous]
                            EXCEPT ![previous].next = next]
    IN  [unlinked EXCEPT ![entry] = [next |-> entry, previous |-> entry]]

-----------------------------------------------------------------------------

Stopped == -1

Running == {a \in Alarms : due[a] # Stopped}

\* Nothing reads the fields of an alarm that has stopped before it is started
\* again, so they need not be remembered.
Unset == [time |-> 0, rollover |-> FALSE]

AlarmInit ==
    /\ nticks = 0 /\ rate = 0 /\ walk = "none"
    /\ llist = [n \in Alarms \cup {alt_alarm_list} |-> [next |-> n, previous |-> n]]
    /\ alarm = [a \in Alarms |-> Unset]
    /\ due = [a \in Alarms |-> Stopped]

\* alt_avalon_timer_sc_init: the timer runs from here on.
SysclkInit ==
    /\ rate = 0
    /\ rate' = Freq
    /\ UNCHANGED <<nticks, llist, alarm, walk, due>>

\* What alt_alarm_start writes into the structure, at tick now.
Started(delay, now) ==
    LET time == Wrap(delay + now + 1)
    IN  [time |-> time, rollover |-> time < now]

\* Without a system clock the call fails with -ENOTSUP and changes nothing.
\* A running alarm is not started again: its links would be lost.
alt_alarm_start(a, delay) ==
    /\ walk = "none" /\ rate # 0 /\ a \notin Running
    /\ alarm' = [alarm EXCEPT ![a] = Started(delay, nticks)]
    /\ llist' = Insert(llist, a)
    /\ due' = [due EXCEPT ![a] = delay + 1]
    /\ UNCHANGED <<nticks, rate, walk>>

alt_alarm_stop(a) ==
    /\ walk = "none" /\ rate # 0
    /\ llist' = Remove(llist, a)
    /\ alarm' = [alarm EXCEPT ![a] = Unset]
    /\ due' = [due EXCEPT ![a] = Stopped]
    /\ UNCHANGED <<nticks, rate, walk>>

\* alt_avalon_timer_sc_irq, and alt_tick up to its loop.
TickBegins ==
    /\ walk = "none" /\ rate # 0
    /\ nticks' = Wrap(nticks + 1)
    /\ walk' = llist[alt_alarm_list].next
    /\ due' = [a \in Alarms |-> IF a \in Running THEN due[a] - 1 ELSE due[a]]
    /\ UNCHANGED <<rate, llist, alarm>>

RolloverAfterWrap(a) == alarm[a].rollover /\ nticks # 0

\* Slip: an alarm set beyond the wrap executes before it.
ExpiredBeforeWrap(a) == alarm[a].time <= nticks

Expired(a) == alarm[a].time <= nticks /\ ~RolloverAfterWrap(a)

\* The loop body for an alarm that has not expired.
Pass(a) ==
    /\ walk = a /\ ~Expired(a)
    /\ walk' = llist[a].next
    /\ alarm' = [alarm EXCEPT ![a].rollover = RolloverAfterWrap(a)]
    /\ UNCHANGED <<nticks, rate, llist, due>>

\* The alarm after its callback has returned period, which is not zero.
Again(a, period) ==
    LET time == Wrap(alarm[a].time + period)
    IN  [time |-> time, rollover |-> time < nticks]

\* Slip: the successor is read when the alarm may have been removed.
SuccessorAfter(a, before, after) == after[a].next

\* The successor is read before the callback.
Successor(a, before, after) == before[a].next

\* The loop body for an alarm that has expired: its callback may start an
\* alarm that is not running and, where CallbackStops, stop one that is; it
\* returns the ticks until the next call, or zero to be deactivated.
Fire(a) ==
    /\ walk = a /\ Expired(a)
    /\ \E starts \in SUBSET (Alarms \ Running), delay \in Delays,
          stops \in SUBSET (Running \ {a}), period \in Periods \cup {0} :
        /\ Cardinality(starts) + Cardinality(stops) <= 1
        /\ stops # {} => CallbackStops
        /\ LET called == IF starts # {} THEN Insert(llist, CHOOSE b \in starts : TRUE)
                         ELSE IF stops # {} THEN Remove(llist, CHOOSE b \in stops : TRUE)
                         ELSE llist
           IN  /\ llist' = IF period = 0 THEN Remove(called, a) ELSE called
               /\ alarm' = [b \in Alarms |->
                              IF b \in starts THEN Started(delay, nticks)
                              ELSE IF b # a THEN alarm[b]
                              ELSE IF period # 0 THEN Again(a, period)
                              ELSE Unset]
               /\ due' = [b \in Alarms |->
                            IF b \in starts THEN delay + 1
                            ELSE IF b \in stops THEN Stopped
                            ELSE IF b # a THEN due[b]
                            ELSE IF period # 0 THEN due[a] + period ELSE Stopped]
    /\ walk' = Successor(a, llist, llist')
    /\ UNCHANGED <<nticks, rate>>

TickEnds ==
    /\ walk = alt_alarm_list
    /\ walk' = "none"
    /\ UNCHANGED <<nticks, rate, llist, alarm, due>>

AlarmNext ==
    \/ SysclkInit
    \/ \E a \in Alarms : \/ \E delay \in Delays : alt_alarm_start(a, delay)
                         \/ alt_alarm_stop(a) \/ Pass(a) \/ Fire(a)
    \/ TickBegins \/ TickEnds
=============================================================================

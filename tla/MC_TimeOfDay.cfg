SPECIFICATION FairSpec
CONSTANTS
    Alarms = {a1, a2, a3}
    Word = 8
    Freq = 3
    Delays = {0, 6}
    Periods = {1, 7}
    CallbackStops = FALSE
    ALT_US = 6
    Times <- MCTimes
INVARIANTS ListOK WallClockSetEarly
PROPERTIES ImplementsAlarmClock EveryTickEnds

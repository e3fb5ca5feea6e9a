SPECIFICATION FairInterruptSpec
CONSTANTS
    ALT_NIRQ = 3
    Handlers = {"a"}
    IsrEnables = FALSE
    Incrs = {3}
    Heap = 8
INVARIANTS NestsByPriority HandlersMatch MasksExact BlocksDisjoint
PROPERTY MostUrgentIsServed

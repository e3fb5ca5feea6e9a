SPECIFICATION FairSpec
CONSTANTS
    NSLOTS = 4
    Lens <- MCLens
    MaxLength = 8
    Units = {4, 8}
    CoreUnits = {1, 4}
    Reentrant = FALSE
    MaxPosts = 5
INVARIANTS OneTransferAtATime CallbackFindsItsSlot
PROPERTIES ImplementsChannels RequestsProceed
CHECK_DEADLOCK FALSE

SPECIFICATION TiersSpec
CONSTANTS
    Five = 2
    Hour = 4
    RawKeep = 8
    FiveKeep = 12
    HourKeep = 14
    MaxLate = 2
    MidLimit = 6
    RollEvery = 2
    SweepEvery = 2
    Chunk = 1
    LastSlot = 3
    MaxNow = 19
    MaxFaults = 0
PROPERTIES AggregatesOnlyGrow
CHECK_DEADLOCK FALSE

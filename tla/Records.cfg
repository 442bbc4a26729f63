SPECIFICATION RecordsSpec
CONSTANTS
    Policies <- MCPolicies
    FirstPolicy <- MCFirst
    Slots = {s1}
    Commands = {c1}
    Faults = {"write", "purge", "load", "fetch", "transition"}
    MaxPuts = 3
    MaxEdits = 0
    NoPolicy = NoPolicy
    ChunkLines = 2
    MaxLines = 3
    MaxLive = 1
    MaxTroubles = 2
    Five = 2
    Hour = 4
    RawKeep = 8
    FiveKeep = 12
    HourKeep = 14
    MaxLate = 2
    MidLimit = 6
    RollEvery = 2
    SweepEvery = 2
    Chunk = 9
    LastSlot = 3
    MaxNow = 19
    MaxFaults = 1
    Modes = {0, 1}
    Grace = 0
    Repeat = 0
    MaxToday = 9
    MaxDrainFaults = 1
INVARIANTS
    NoCommandCrosses SnapshotFollowsPolicy
    AutoTierCovers PipeFollowsTheLog AuditIsComplete EachAlertIsTold
PROPERTIES RollupsAreWhole HistoryIsTrue

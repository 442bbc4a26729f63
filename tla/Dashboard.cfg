SPECIFICATION DashSpec
CONSTANTS
    Hosts = {h1}
    Workers = {w1, w2}
    StaleAfter = 2
    OpTimeout = 1
    Faults = {"storage"}
    MaxNow = 3
    Streams = {s1, s2}
    Publishers = {p1, p2}
    Spikes = {x1}
    States = {a, b}
    Capacity = 1
    MaxSubscribers = 2
    MaxChanges = 2
    Conns = {c1}
    Requests = {r1, r2}
    Contexts = {g1, g2, g3}
    Tokens = {k1}
    IdleLimit = 1
    AgeLimit = 3
    MaxHour = 5
    Privacies = {"full", "hidden"}
    Retention = 0
    MaxInstance = 3
    MaxSequence = 2
    MaxWall = 2
    SettingsRequests = {d1}
    Commands = {m1}
    Boot = boot
    MaxEdits = 2
    MaxFaults = 1
    Last = 3
    Named = {2}
    PageSize = 1
    MaxCount = 1
    MaxWrites = 1
INVARIANTS
    RemovedStaysOut OutagesAreTrue NoSilentGap SpikeShownOnce HandshakesAccounted
    RunningIsCurrent ViewFollowsTheAgent FileIsSealed FleetReadsTrue
PROPERTIES OnlyNamedBlocksChange
CHECK_DEADLOCK FALSE

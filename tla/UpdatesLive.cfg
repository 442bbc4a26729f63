SPECIFICATION MCFairSpec
CONSTANTS
    Ids = {i1, i2}
    Window = 2
    LedgerCap = 3
    OutboxCap = 1
    Faults = {"restart", "crash", "loss", "enqueue", "ack", "ledger"}
    MaxNow = 3
    MaxAccepts = 3
    MaxFaults = 2
    None = None
    Channels = {stable, prerelease}
    MaxVersion = 2
    FirstVersion = 1
    FirstChannel = stable
    MaxBackoff = 1
    UpdaterFaults = {"fetch", "deadline", "install", "crash"}
    MaxPublish = 2
    MaxConfig = 1
    MaxForced = 1
    MaxManual = 1
    MaxUpdaterFaults = 1
    NoTag = NoTag
INVARIANTS OutboxIsPending AcknowledgedIsAnswered TagMeansSettled
PROPERTIES AtMostOnce EveryCommandSettles EventuallyCurrent
CHECK_DEADLOCK FALSE

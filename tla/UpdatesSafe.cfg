SPECIFICATION MCSpec
CONSTANTS
    Ids = {i1, i2, i3}
    Window = 2
    LedgerCap = 2
    OutboxCap = 3
    Faults = {"crash", "loss", "enqueue", "ack", "ledger"}
    MaxNow = 1
    MaxAccepts = 3
    MaxFaults = 2
    None = None
    Channels = {stable, prerelease}
    MaxVersion = 3
    FirstVersion = 2
    FirstChannel = stable
    MaxBackoff = 2
    UpdaterFaults = {"fetch", "deadline", "download", "verify", "spawn", "install", "crash", "ledger"}
    MaxPublish = 2
    MaxConfig = 1
    MaxForced = 1
    MaxManual = 1
    MaxUpdaterFaults = 2
    NoTag = NoTag
PROPERTIES FenceHolds ReplayIsDuplicate
CHECK_DEADLOCK FALSE

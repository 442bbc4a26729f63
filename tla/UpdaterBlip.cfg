SPECIFICATION UpdaterFairSpec
CONSTANTS
    Channels = {stable, prerelease}
    MaxVersion = 2
    FirstVersion = 1
    FirstChannel = stable
    MaxBackoff = 2
    UpdaterFaults = {"download"}
    MaxPublish = 1
    MaxConfig = 0
    MaxForced = 0
    MaxManual = 0
    MaxUpdaterFaults = 1
    NoTag = NoTag
PROPERTY EventuallyCurrent

SPECIFICATION ServiceSpec
CONSTANTS
    Remotes = {u1, u2}
    Here = here
    NoUrl = none
    Interval = 1
    MaxBackoff = 4
    MaxEdits = 2
    MaxTime = 2
    Channels = {k1, k2}
    Cooldown = 3
    MaxTries = 2
    MaxLearned = 1
    MaxBucket = 4
    MaxActs = 2
    MaxOverrides = 2
    PollEvery = 2
    AlertDelay = 4
    RepeatAfter = 2
    MaxAccum = 2
    MaxReloads = 1
    MaxSamples = 3
    LastMinute = 4
    Callers = {c1, c2}
    Endpoints = {t1, t2}
    NoTarget = nowhere
    MaxStarts = 1
SYMMETRY Symmetric
INVARIANTS LoopIsConsistent SettingsHold CommandsAreTrue
PROPERTIES RestartsCarryOver AlertsAreEarned
CHECK_DEADLOCK FALSE

SPECIFICATION FileSpec
CONSTANTS
    SettingsRequests = {d1, d2}
    Commands = {c1}
    Boot = boot
    MaxEdits = 2
    MaxFaults = 1
PROPERTIES AbsentFieldsAreLeft
CHECK_DEADLOCK FALSE

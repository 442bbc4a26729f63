CONSTANTS
  Hosts = {h1}
  LocalHosts = {}
  Actions = {a1}
  Keys = {k1}
  TTL = 1
  Retention = 4
  LedgerRetention = 4
  Skew = 0
  BatchLimit = 1
  MaxTime = 3
  MaxLogon = 0
  MaxStray = 0
  NoAction = none
SPECIFICATION LiveSpec
PROPERTIES EveryCommandCloses QueueDrains

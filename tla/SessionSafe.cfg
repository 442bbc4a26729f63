CONSTANTS
  Hosts = {h1}
  LocalHosts = {}
  Actions = {a1,a2}
  Keys = {k1,k2}
  TTL = 1
  Retention = 0
  LedgerRetention = 2
  Skew = 1
  BatchLimit = 1
  MaxTime = 3
  MaxLogon = 1
  MaxStray = 1
  NoAction = none
SPECIFICATION MCSpec
SYMMETRY Symmetric
INVARIANTS EffectAtMostOnce OutcomeIsTrue QueueFitsReport RetryMakesNoSecondCommand
PROPERTIES KeepsItsPromises

CONSTANTS
  Run = {d1, d2, d3}
  Status = {s1, s2}
  NoOne = none
  MaxKills = 2
  MaxSignals = 2
  Daemons = FALSE
SPECIFICATION FairSpec
INVARIANTS
  TypeOK
  SingleInstance
  CommandsUnderLock
PROPERTIES
  WatchdogReturns
  ShutdownCompletes

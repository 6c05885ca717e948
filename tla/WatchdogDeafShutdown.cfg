CONSTANTS
  Run = {d1}
  Status = {s1}
  NoOne = none
  MaxKills = 0
  MaxSignals = 1
  Daemons = TRUE
SPECIFICATION FairSpec
PROPERTY ShutdownCompletes

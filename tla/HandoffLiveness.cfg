CONSTANTS
  Sup = sup
  Rec = {r1}
  Disp = {d1}
  Settle = 1
  Cooldown = 1
  ReadyAge = 0
  MaxActivations = 1
  Faults = {"crash"}
SPECIFICATION FairSpec
PROPERTIES
  QueuedJobRuns
  PauseTakesEffect
  OptionalReturns

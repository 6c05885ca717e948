CONSTANTS
  first = first
  second = second
  Order <- TwoWatches
  Admission = {second}
  Subject = second
  NoWatch = none
  Interval <- Intervals
  Confirm <- Confirms
  Cooldown <- Cooldowns
  Timeout <- Timeouts
  Stabilize <- Stabilizations
  Poll <- Polls
  MaxRestarts = 1
  MaxCount = 2
SPECIFICATION FairSpec
INVARIANTS
  TypeOK
  RepairsOnlyConfirmed
  Punctual
  StatsAgree
PROPERTIES
  RepairsSpaced
  DownIsRepaired

SPECIFICATION Spec
CONSTANTS
  bitcoind = bitcoind  stratum = stratum  mempool = mempool  runtime = runtime
  unset = unset  absent = absent
  Name <- MCName
  Mempool <- mempool
  Required <- MCRequired
  Absent <- absent
  Var <- MCVar
  Value <- MCValue
  Unset <- unset
  HostVar = "HOST"
  DefaultHost = "here"
  EnvFile <- MCEnvFile
  Environment <- MCEnvironment
  Example <- MCExample
  DefaultConfig <- MCDefaultConfig
  Hosts <- MCHosts
  Commands <- MCCommands
  Listens <- MCListens
  StartupTime = 15
  Attempts = 5
  Checks = 4
  Starts = 2
  MaxFaults = 0
INVARIANT RecoversForwarding

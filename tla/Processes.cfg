SPECIFICATION MCSpec
CONSTANTS
  Cmds <- Invocations
  Kind <- Kinds
  MaxFaults = 1
  MaxKills = 1
INVARIANTS
  OneRunner RunnerStoppable ServedWhole
  ChannelSound
PROPERTIES
  StoppedMeansStopped WaitsEnd
CHECK_DEADLOCK FALSE

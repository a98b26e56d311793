CONSTANTS
  TicksPerTenth = 1
  TicksPerSecond = 2
  N = 2
  Outputs = {1, 2}
  Configs <- MCConfigs
  InitConfig <- MCInitConfig
  Positions = {1, 3, 6}
  MaxTicks = 2
  MaxCommands = 3
  MaxWrites = 0
  MaxMoves = 0
SPECIFICATION Spec
INVARIANT FrogToggles
CHECK_DEADLOCK FALSE

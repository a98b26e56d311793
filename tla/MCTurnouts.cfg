CONSTANTS
  TicksPerTenth = 1
  TicksPerSecond = 2
  N = 2
  Outputs = {1, 2}
  Configs <- MCConfigs
  InitConfig <- MCInitConfig
  Positions = {1, 3, 6}
  MaxTicks = 2
  MaxCommands = 2
  MaxWrites = 2
  MaxMoves = 1
SPECIFICATION FairSpec
INVARIANTS BusyIsTicked BusIsRight DisabledIsOff FrogFollows
PROPERTY MotionEnds
CHECK_DEADLOCK FALSE

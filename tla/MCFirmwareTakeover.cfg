CONSTANTS
  Partitions <- MCPartitions
  PartSize = 4
  Sector = 2
  Size <- MCSize
  Compatible <- MCCompatible
  Lens = {1, 2}
  First = "A"
  FirstImage = 1
  Abrupt = TRUE
  MaxFaults = 0
  MaxClients = 2
SPECIFICATION Spec
PROPERTY StartsOver
CHECK_DEADLOCK FALSE

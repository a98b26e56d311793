CONSTANTS
  Partitions <- MCPartitions
  PartSize = 4
  Sector = 2
  Size <- MCSize
  Compatible <- MCCompatible
  Lens = {1, 2}
  First = "A"
  FirstImage = 1
  Abrupt = FALSE
  MaxFaults = 3
  MaxClients = 3
SPECIFICATION FairSpec
INVARIANTS Bootable AckedIsStored
PROPERTIES OnlyBadImagesRejected NoFalseSuccess TrialEnds TransferEnds
CHECK_DEADLOCK FALSE

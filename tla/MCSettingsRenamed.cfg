CONSTANTS
  s = s
  a = a
  Own = Own
  None = None
  Ids <- MCIds
  StandIn <- MCStandIn
  Patient = FALSE
  MaxWrites = 0
  MaxRenames = 2
  MaxFaults = 0
SPECIFICATION Spec
INVARIANT EventsFollow
CHECK_DEADLOCK FALSE

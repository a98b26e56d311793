CONSTANTS
  s = s
  a = a
  Own = Own
  None = None
  Ids <- MCIds
  StandIn <- MCStandIn
  Patient = TRUE
  MaxWrites = 2
  MaxRenames = 2
  MaxFaults = 1
SPECIFICATION FairSpec
INVARIANTS EventsFollow
PROPERTIES SettingsSurvive WritesSaved LightEnds
CHECK_DEADLOCK FALSE

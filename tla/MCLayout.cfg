CONSTANTS
  LocalQueueLen = 1
  IdentifyBatch = 5
  NoEvent = NoEvent
  H = 2
  S = 2
  Events = {"close", "throw", "is_closed", "is_thrown", "stop", "caution"}
  Command <- MCCommand
  Feedback <- MCFeedback
  HostEvents = {"throw", "caution"}
  HostRequests <- MCRequests
  InitConfig <- MCInitConfig
  Configs <- MCConfigs
  InboxLen = 2
  MaxEvents = 2
  MaxRequests = 1
  MaxWrites = 1
  MaxChanges = 2
SPECIFICATION Spec
INVARIANTS HostKnows HeadsInStep InputAgrees AllAnswered
CHECK_DEADLOCK FALSE

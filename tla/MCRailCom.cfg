CONSTANTS
  N = 1
  AddrPair = 1
  AddrTimeout = 3
  SignalTimeout = 2
  QueueLen = 1
  Trains <- MCTrains
  Rails = {"A"}
  MaxVisits = 2
  MaxLapses = 1
  MaxWrites = 1
SPECIFICATION Spec
INVARIANT ReportsAgree
PROPERTIES NoGhost SilentBeforeVacant VacancyReported

SPECIFICATION FairSpec
CONSTANTS
  Operators = {o1, o2}
  Puller = puller
  Pulling = TRUE
  Versions = {1, 2}
  Initial = 1
  None = None
  Cut = Cut
  HistoryLimit = 1
  MaxCalls = 3
INVARIANTS PreviousUsable HistoryIsWhatWasInstalled
PROPERTIES OfferedIsPulled
CHECK_DEADLOCK FALSE

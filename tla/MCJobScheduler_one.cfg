SPECIFICATION FairSpec
CONSTANTS
  fast = fast
  slow = slow
  Schedules = {fast, slow}
  Tickers = {t1}
  Interval <- MCInterval
  None = None
  MaxTime = 5
  MaxAborts = 2
INVARIANTS TypeOK OneDuplicatePerAbort
PROPERTIES NoEarlyRepeat DueEventuallyAdvances
CHECK_DEADLOCK FALSE

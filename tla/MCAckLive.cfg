\* Two slots reused once; every message gets a timer that select watches.
CONSTANTS
  N = 2
  MaxRetry = 2
  MaxId = 3
  MaxFd = 3
  WatchLimit = 4
  AllocMayFail = FALSE
SPECIFICATION FairSpec
PROPERTIES PendingSettles

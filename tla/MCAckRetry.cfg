\* Three slots, four messages: a slot is reused while an ack of its last user
\* is on its way.  Three numbers besides standard input, so that they run out;
\* allocations may fail; number 3 is beyond what select looks at.
CONSTANTS
  N = 3
  MaxRetry = 1
  MaxId = 4
  MaxFd = 3
  WatchLimit = 3
  AllocMayFail = TRUE
SPECIFICATION Spec
INVARIANTS TypeOK TimersOwned CountCoversWaiting TransmissionsBounded EarlyAckStops
PROPERTIES ResendsAreDue OnlyOwnAckSettles

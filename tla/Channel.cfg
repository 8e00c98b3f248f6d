SPECIFICATION FairSpec
CONSTANTS
  Threads = {t1, t2, t3}
  Values <- MCValues
  Junk <- MCJunk
  Capacities = {0, 1, 2, 3, 4}
  WordLimit = 3
  ArenaLimit = 2
INVARIANTS TypeOK RingConsistent NoLostWakeup ClosedNobodySleeps
PROPERTIES ImplementsFifo CloseReleases NobodyStranded
CHECK_DEADLOCK FALSE

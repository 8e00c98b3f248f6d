SPECIFICATION MCSpec
CONSTANTS
  Main = main
  Threads = {main, a, b}
  NULL = NULL
  MaxTests = 1
  Mutexes = {m}
INVARIANTS ReleasedOnce Observed JoinedIsOver DestroyedStaysShut
PROPERTY JoinEnds
CHECK_DEADLOCK FALSE

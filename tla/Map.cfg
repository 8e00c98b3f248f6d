SPECIFICATION Spec
CONSTANTS
  ka = ka
  kb = kb
  kc = kc
  kz = kz
  Keys <- MCKeys
  Canon <- MCCanon
  Values = {1}
  Junk = Junk
  Hashes = {3, 7}
  Capacities = {4, 8}
  Hints = {0, 5}
  MaxLoops = 2
  LoopKinds = {"label"}
SYMMETRY MCSymmetry
INVARIANTS TableConsistent FindsEveryKey RebuildMakesRoom LabelLoopsStable
PROPERTY ImplementsOrderedMap
CHECK_DEADLOCK FALSE

SPECIFICATION Spec
CONSTANTS
  ka = ka
  kb = kb
  kc = kc
  kz = kz
  Keys <- MCFewKeys
  Canon <- MCFewCanon
  Values = {1, 2}
  Junk = Junk
  Hashes = {3}
  Capacities = {4, 8, 16}
  Hints = {0}
  MaxLoops = 1
  LoopKinds = {"label", "path"}
INVARIANT LoopedKeysFixed
CHECK_DEADLOCK FALSE

SPECIFICATION Spec
CONSTANTS
  Sizes = {0, 5, 8, 24}
  UserSizes <- MCUserSizes
  ManagedSize = 16
  MinSize = 8
  MaxSize = 32
  Cap = 48
  Handles = {h1, h2}
  MaxAllocs = 5
  MaxMarks = 2
  MaxResets = 2
INVARIANT DestroyedPointersCaught
CHECK_DEADLOCK FALSE

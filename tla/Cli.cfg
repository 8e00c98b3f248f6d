SPECIFICATION CliSpec
CONSTANTS
  Sources = {main, lib}
  Main = main
  FileSizes = {1}
  MaxEdits = 3
  MaxTime = 2
  MaxInstalls = 3
INVARIANTS RunsPerEdit Recoverable UpdateReturnsWorking
PROPERTY RerunsCatchUp
CHECK_DEADLOCK FALSE

SPECIFICATION Spec
CONSTANTS
  Paths = {p, q, r}
  Input = p
  NoPath = none
  Commands <- MCCommands
  Disks <- MCDisks
  DiskMayFill = TRUE
  MaxOutputs = 2
  Kinds = {"bad", "compile"}
INVARIANTS
  OnlyOutputsChange
  FailureLeavesNoCode
  SuccessWritesAll
  NoDanglingStream
  NothingLeaks
PROPERTIES
  KeepsPromise
CHECK_DEADLOCK FALSE

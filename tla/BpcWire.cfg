SPECIFICATION Spec
CONSTANTS
  MinOf <- MCMinOf
  MaxOf <- MCMaxOf
  Document <- MCDocument
  Links <- MCLinks
  Counts = {0, 2}
INVARIANTS
  DeliveredIntact
  NothingLeftOut
  CppObjectIsWhole
  OnlyATailIsLost
  UnknownIsRefused
CHECK_DEADLOCK FALSE

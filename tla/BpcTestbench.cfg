SPECIFICATION Spec
CONSTANTS
  MinOf <- MCMinOf
  MaxOf <- MCMaxOf
  Document <- MCDocument
  Messages = {"natural", "empty", "packers", "strings", "structs", "tails"}
  ListLength = 2
  Readers = {"python", "csharp", "cpp"}
  MaxRuns = 3
INVARIANTS
  NoFalseAlarm
  OnlyTheseAreMissed
CHECK_DEADLOCK FALSE

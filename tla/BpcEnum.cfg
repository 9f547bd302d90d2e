SPECIFICATION EnumSpec
CONSTANTS
  MinOf <- MCMinOf
  MaxOf <- MCMaxOf
  Calls <- MCCalls
INVARIANTS
  DistinctValues
  ValuesInRange
  EnumAgreesWithRules
  AsInC
CHECK_DEADLOCK FALSE

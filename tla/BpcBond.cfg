SPECIFICATION BondSpec
CONSTANTS
  MaxVariables = 3
  BondRules <- MCBondRules
INVARIANTS
  CoversInOrder
  GroupsAreRuns
PROPERTIES
  BondAgreesWithRules
CHECK_DEADLOCK FALSE

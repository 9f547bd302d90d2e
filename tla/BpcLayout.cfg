SPECIFICATION LayoutSpec
CONSTANTS
  MinOf <- MCMinOf
  MaxOf <- MCMaxOf
  Inputs <- MCInputs
  Modifiers <- MCModifiers
INVARIANTS
  LayoutSound
  SameAsC
  LayoutAgreesWithRules
CHECK_DEADLOCK FALSE

\* The mock rounds quotients down, and has no word to overflow.
CONSTANTS
  Half = 16
  StrSize = 4
  Precision = 3
  LineSize = 6
  ChoiceValues = 8
  Lines <- MCLines
  Foreign <- MCForeign
SPECIFICATION Spec
CHECK_DEADLOCK FALSE
INVARIANT
  MockLikeKernel

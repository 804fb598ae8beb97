\* One user at each client on each server; words of 5 bits, doubles of 3, a
\* buffer of 6 for the terminal.
CONSTANTS
  Half = 16
  StrSize = 4
  Precision = 3
  LineSize = 6
  ChoiceValues = 8
  Lines <- MCLines
  Foreign <- MCForeign
SPECIFICATION Spec
CHECK_DEADLOCK FALSE
INVARIANTS
  CTypeOK
  ShownRight
PROPERTY
  AnswersTaken

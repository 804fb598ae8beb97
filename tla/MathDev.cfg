\* Two threads on one open file, the operands that matter.
CONSTANTS
  Half = 4
  Thread = {t1, t2}
  File = {f1}
  Operands <- MCOperands
  NoThread = NoThread
  NoFile = NoFile
  MaxCalls = 1
SPECIFICATION FairSpec
CHECK_DEADLOCK FALSE
INVARIANTS
  TypeOK
  UnwindExact
  NoUseAfterFree
  CountExact
  ResultRight
PROPERTIES
  CallsReturn

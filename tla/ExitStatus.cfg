\* The C client alone.
CONSTANTS
  py = py
  cc = cc
  Client = {cc}
  Python = {}
  Nobody = Nobody
  Sendable <- MCSendable
  MaxMessages <- MCMaxMessages
SPECIFICATION GSpec
CHECK_DEADLOCK FALSE
INVARIANTS
  ExitStatusTells

\* One client is enough to show it.
CONSTANTS
  c1 = c1
  c2 = c2
  Client = {c1}
  Nobody = Nobody
  Sendable <- MCSendable
  MaxMessages <- MCMaxMessages
SPECIFICATION Spec
CHECK_DEADLOCK FALSE
INVARIANTS
  MalformedAnswered

\* One client that may send anything, one that competes with it for the device,
\* and the shutdown at any moment.
CONSTANTS
  c1 = c1
  c2 = c2
  Client = {c1, c2}
  Nobody = Nobody
  Sendable <- MCSendable
  MaxMessages <- MCMaxMessages
SPECIFICATION FairSpec
CHECK_DEADLOCK FALSE
INVARIANTS
  TypeOK
  OneReplyEach
  Serialised
PROPERTIES
  SessionsKept
  Stops

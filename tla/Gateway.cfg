\* The Python client and the C client on one server.
CONSTANTS
  py = py
  cc = cc
  Client = {py, cc}
  Python = {py}
  Nobody = Nobody
  Sendable <- MCSendable
  MaxMessages <- MCMaxMessages
SPECIFICATION GFairSpec
CHECK_DEADLOCK FALSE
INVARIANTS
  GTypeOK
  NeverRefused
PROPERTIES
  AnswersOwnRequest
  NoClientHangs

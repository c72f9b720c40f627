CONSTANTS
  MaxNonce = 7
  Batch = 3
  MaxJoin = 2
  None = None
  Refused = Refused
SPECIFICATION Spec
INVARIANTS
  TypeOK
  NonceUsedOnce
  SentIsReserved
  SessionsAreFresh
PROPERTIES
  RegisterSpec

CONSTANTS
  a = a
  b = b
  Payload <- MCPayload
  ChunkSize = 1
  MaxTotal = 2
  Session = {s1, s2}
  FreshSessions = TRUE
  None = None
  HeaderLen = 2
  MaxPayload = 1
  Faulty = TRUE
SPECIFICATION SFairSpec
INVARIANTS STypeOK InStep
PROPERTIES EndIsComplete CloseIsSeen

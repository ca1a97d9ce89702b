CONSTANTS
  a = a
  b = b
  c = c
  x = x
  Payload <- MCPayload
  ChunkSize = 2
  MaxTotal = 2
  Session = {s1, s2}
  FreshSessions = FALSE
  None = None
  Copies = {copy}
  MaxWrites = 2
  Absent = Absent
  Torn = Torn
SPECIFICATION FFairSpec
INVARIANTS FTypeOK AssembledWasSent
PROPERTIES WriterNeverTears ReadIsPrefix WholeIsDelivered

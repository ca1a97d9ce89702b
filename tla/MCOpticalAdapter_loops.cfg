CONSTANTS
  a = a
  b = b
  Payload <- MCPayload
  ChunkSize = 2
  MaxTotal = 2
  Session = {s1, s2}
  FreshSessions = FALSE
  None = None
  Tag = {t1, t2}
  FrameCapacity = 2
  MaxLoops = 2
  MaxCount = 2
SPECIFICATION OFairSpec
INVARIANTS OTypeOK OneLoop
PROPERTIES LoopCompletes

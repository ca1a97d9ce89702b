SPECIFICATION XSpec
CONSTANTS
  PadSize = 2
  SenderSize = 4
  Material <- MCMaterial
  Envelope <- MCEnvelope
  Zero = Zero
  None = None
  Absent = Absent
  Torn = Torn
  RenameDurable = TRUE
  ReuseCleared = FALSE
INVARIANTS XTypeOK EachByteOneWay IssuedWasSent
PROPERTIES FreshFailureClears RetrySucceeds

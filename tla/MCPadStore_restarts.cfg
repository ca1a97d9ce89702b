CONSTANTS
  PadSize = 3
  Material = {m1, m2}
  Zero = Zero
  None = None
  Absent = Absent
  Torn = Torn
  RenameDurable = TRUE
  ReuseCleared = FALSE
SPECIFICATION Spec
INVARIANTS TypeOK NoReuse BurnBeforeUse CacheCoherent MaterialLocked
PROPERTIES OffsetNeverRetreats NeverTorn RefusesOnlyDamage ImplementsLedger

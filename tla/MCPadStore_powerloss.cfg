CONSTANTS
  PadSize = 2
  Material = {m1}
  Zero = Zero
  None = None
  Absent = Absent
  Torn = Torn
  RenameDurable = FALSE
  ReuseCleared = FALSE
SPECIFICATION Spec
INVARIANTS NoReuse

SPECIFICATION Spec
CONSTANTS
  p = p  q = q  t = t  u = u  k = k  l = l
  Process = {p, q}
  Thread = {t, u}
  Key = {k, l}
  Length = {0, 2, 3}
  ShardSize = 2
  MaxCounter = 3
  None = None
  Absent = Absent
  Torn = Torn
  EntryDurable = TRUE
SYMMETRY MCSymmetry
INVARIANTS TypeOK NonceOnce BurnBeforeUse KeyOnDisk

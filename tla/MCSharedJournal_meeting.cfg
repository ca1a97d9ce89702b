SPECIFICATION Spec
CONSTANTS
  p = p  q = q  m1 = m1  m2 = m2  bin = bin  dat = dat
  Process = {p, q}
  Path = {bin, dat}
  Tmp = tmp
  Material = {m1, m2}
  PadSize = 2
  None = None
  Absent = Absent
  Torn = Torn
SYMMETRY MCSymmetry
INVARIANTS TypeOK ReuseNeedsTwins AloneIsCoherent

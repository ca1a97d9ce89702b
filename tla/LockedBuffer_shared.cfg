CONSTANTS
  Buffer = {x, y, z}
  Page = {p, q, r}
  NoPage = NoPage
  SharePages = TRUE
SPECIFICATION Spec
INVARIANTS NeverSwapped

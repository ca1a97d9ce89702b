CONSTANTS
  Buffer = {x, y, z}
  Page = {p, q, r}
  NoPage = NoPage
  SharePages = FALSE
SPECIFICATION Spec
INVARIANTS NeverSwapped FreedErased

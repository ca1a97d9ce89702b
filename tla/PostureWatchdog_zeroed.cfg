SPECIFICATION WSpec
INVARIANTS ZeroedAtKill

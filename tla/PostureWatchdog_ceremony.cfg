SPECIFICATION WFairSpec
INVARIANTS WTypeOK LeavesNothing NeverSilent
PROPERTIES ViolationEnds CeremonyEnds

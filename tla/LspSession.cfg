\* Two folders, three changes of the workspace root.
CONSTANTS
  r1 = r1
  r2 = r2
  Roots = {r1, r2}
  NoRoot = NoRoot
  MaxRuns = 3
SPECIFICATION FairSpec
INVARIANTS TypeOK StartsAreSerial NoOrphanServer
PROPERTY StartIsShown
CHECK_DEADLOCK FALSE

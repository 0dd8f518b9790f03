\* Two folders, three changes of the workspace root.
CONSTANTS
  r1 = r1
  r2 = r2
  Roots = {r1, r2}
  NoRoot = NoRoot
  MaxRuns = 3
SPECIFICATION Spec
INVARIANT ServerHasManager
CHECK_DEADLOCK FALSE

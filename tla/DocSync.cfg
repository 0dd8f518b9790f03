\* Three edits, two clicks on the file, one change of the workspace root.
CONSTANTS
  MaxEdits = 3
  MaxOpens = 2
  MaxEpochs = 2
SPECIFICATION DocSpec
INVARIANTS DocTypeOK CacheIsNewest OpenedOnce
CHECK_DEADLOCK FALSE

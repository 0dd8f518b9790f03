SPECIFICATION Spec
CONSTANTS
  Calls = {1, 2, 3}
  Hooks = {1, 2, 3, 4}
  Scenarios <- MCScenarios
  FileEditLimit = 2
INVARIANTS TypeOK TempIsOwned EditsAreScanned
PROPERTY CallsEnd
CHECK_DEADLOCK FALSE

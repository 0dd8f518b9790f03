SPECIFICATION Spec
CONSTANTS
  Version = 3
  LanguagesOf <- MCLanguagesOf
  DependencyNames <- MCDependencyNames
  Lower <- MCLower
  Canonical <- MCLower
  MIN_RULES = 3
  TARGET_BYTES = 4
  MAX_COUNT = 3
  Scans <- MCScans
  BytesOf <- MCBytesOf
  PipeSize = 2
INVARIANTS TypeOK CompleteOrFailed CodeSeesItsProject RangesArePrecise

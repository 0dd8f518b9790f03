\* Two clicks; a cargo may run for ever.
CONSTANT MaxOps = 2
SPECIFICATION FairSpec
PROPERTY CancelTakesEffect
CHECK_DEADLOCK FALSE

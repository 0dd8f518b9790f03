\* Three clicks; every cargo ends in the end.
CONSTANT MaxOps = 3
SPECIFICATION EndingSpec
INVARIANTS TypeOK OneCargo NoLateEvent
PROPERTY ClickSettles
CHECK_DEADLOCK FALSE

SPECIFICATION Spec
CONSTANTS
  Scenarios <- MCScenarios
  Options <- MCOptions
  Failures <- MCFailures
  JoinRule = "J"
  JoinLeft = "JL"
  JoinRight = "JR"
  EditLine <- MCEditLine
  MaxEdits = 2
INVARIANTS TypeOK NewFindingsExact TreeRestored ExitTells
CHECK_DEADLOCK FALSE

\* Two commands of one user; one of them may be killed.
CONSTANTS
  p1 = p1
  p2 = p2
  Procs = {p1, p2}
  Starts <- MCStarts
  FirstApp <- MCFirstApp
  NextApp <- MCNextApp
  Version = 2
  Accepted = {"t1", "t2"}
  MAX_RETRIES = 1
  MaxKills = 1
SPECIFICATION Spec
INVARIANTS TypeOK SettingsAreSound ShownIsWhole 
CHECK_DEADLOCK FALSE

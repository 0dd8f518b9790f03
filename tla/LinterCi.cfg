SPECIFICATION FairSpec
CONSTANTS
  Commands <- MCCommands
  Configs <- MCConfigs
  Outcomes <- MCOutcomes
  Histories <- MCHistories
  Requests = 2
  Posts = 2
  Polls = 2
  Fetches = 2
  Completes = 1
  MaxKills = 1
INVARIANTS TypeOK AppStaysConsistent VerdictMatchesFindings InstalledIsWhole HeadFollowsPullRequest
PROPERTIES CommandEnds
CHECK_DEADLOCK FALSE

SPECIFICATION Spec
CONSTANTS
  Branches = {"main", "next"}
  MCCommits = {1, 2, 5}
  Commits <- MCCommits
  None = None
  Reach <- MCReach
  Log <- MCLog
  MaxTime = 2
  MaxRefreshes = 3
  MaxLost = 1
CHECK_DEADLOCK FALSE
INVARIANTS
  EachCommitIsAnEmail

SPECIFICATION FeedSpec
CONSTANTS
  Target = {t1}
  Tab = {x}
  Node <- MCNode
  Root = "root"
  Parent <- MCParent
  Path <- MCPath
  Place <- Branch
  Severity = {1}
  FadeWindow = 1
  MaxNow = 0
  MaxWrites = 2
  MaxFailures = 1
  MaxSockets = 2
INVARIANT CaughtUp
PROPERTY MirrorSpec
CHECK_DEADLOCK FALSE

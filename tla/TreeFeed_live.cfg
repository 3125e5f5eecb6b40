SPECIFICATION FeedSpec
CONSTANTS
  Target = {t1}
  Tab = {x}
  Node <- MCNode
  Root = "root"
  Parent <- MCParent
  Path <- MCPath
  Place = {"b"}
  Severity = {1}
  FadeWindow = 1
  MaxNow = 1
  MaxWrites = 1
  MaxFailures = 1
  MaxSockets = 2
PROPERTY EndToEnd
CHECK_DEADLOCK FALSE

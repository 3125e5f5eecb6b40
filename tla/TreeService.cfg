SPECIFICATION Spec
CONSTANTS
  Target = {t1, t2}
  Node <- MCNode
  Root = "root"
  Parent <- MCParent
  Path <- MCPath
  Place <- Branch
  Severity = {1}
  FadeWindow = 2
  MaxNow = 3
  MaxWrites = 2
  MaxFailures = 1
INVARIANTS TypeOK ParentClosed CurrentParents NoLostUpdate
PROPERTY Freshness
CHECK_DEADLOCK FALSE

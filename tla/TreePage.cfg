SPECIFICATION PageSpec
CONSTANTS
  root = root
  a = a
  b = b
  c = c
  d = d
  t1 = t1
  t2 = t2
  Node = {root, a, b, c, d}
  Root = root
  Parent <- MCParent
  Path <- MCPath
  TargetId = {t1, t2}
  Threshold = 1
  Trees <- MCTrees
  NoId = none
  MaxMounts = 2
INVARIANTS OneSocket FlagHonest EachNodeOnce EveryTargetOnce HistoryMatches
PROPERTIES Reconnects SelectedIsDrawn
CHECK_DEADLOCK FALSE

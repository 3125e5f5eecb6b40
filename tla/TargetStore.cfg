SPECIFICATION Spec
CONSTANTS
  plain = plain
  wild = wild
  Address = {plain, wild}
  Like <- Wildcard
  List = {l1}
  Manual = {m1, m2}
  Request = {r1}
  Loop = Loop
  MaxRequests = 3
  MaxFailures = 1
INVARIANTS SerialConsistent OneManual SourcesHaveLists
PROPERTY ListedComesBack
CHECK_DEADLOCK FALSE

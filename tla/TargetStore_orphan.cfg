SPECIFICATION Spec
CONSTANTS
  plain = plain
  wild = wild
  Address = {plain}
  Like <- Literal
  List = {l1}
  Manual = {m1}
  Request = {r1}
  Loop = Loop
  MaxRequests = 3
  MaxFailures = 0
INVARIANT NoOrphan
CHECK_DEADLOCK FALSE

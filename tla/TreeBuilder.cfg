SPECIFICATION Spec
CONSTANTS
  Target = {t1, t2, t3}
  Label = {Q, S}
  Star = Star
  MaxHops = 3
SYMMETRY Symmetry
CHECK_DEADLOCK FALSE
INVARIANTS PrefixClosed OneLeaf NoDeadEnds TraceIsPath EveryReplyCounted OutageShows

SPECIFICATION Spec
CONSTANTS
  gw = gw
  q = q
  s = s
  Addr = {gw, q, s}
  NoAddr = none
  Target = {t1}
  Traces <- MCTraces
  Gateway = gw
  Keep = 1
  BatchSize = 1
  MaxTime = 3
  MaxProbes = 2
INVARIANTS HistoryComplete LastResultWins HopsFaithful
PROPERTIES NoSpuriousOutage OldRunsGo
CHECK_DEADLOCK FALSE

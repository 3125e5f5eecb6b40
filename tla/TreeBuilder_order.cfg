SPECIFICATION Spec
CONSTANTS
  Target = {t1, t2}
  Label = {Q, S}
  Star = Star
  MaxHops = 3
SYMMETRY Symmetry
CHECK_DEADLOCK FALSE
INVARIANT OrderIndependent

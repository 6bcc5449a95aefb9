SPECIFICATION Spec
CONSTANTS
  Messages = {m1, m2, m3}
  Runs = {r1, r2}
  Soft = 0
  Hard = 1
  LastMonth = 1
  NoMessage = NoMessage
  NoQuota = NoQuota
  NoMonth = NoMonth
SYMMETRY Symmetry
INVARIANT CutOffOnce
CHECK_DEADLOCK FALSE

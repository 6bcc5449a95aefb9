SPECIFICATION Spec
CONSTANTS
  Messages = {m1, m2, m3, m4}
  Runs = {r1, r2}
  Soft = 1
  Hard = 2
  LastMonth = 1
  NoMessage = NoMessage
  NoQuota = NoQuota
  NoMonth = NoMonth
SYMMETRY Symmetry
INVARIANTS
  IInv
  ServedBounded
  HeaderNeverShort
  SilencedWasTold
CHECK_DEADLOCK FALSE

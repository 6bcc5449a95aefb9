SPECIFICATION Spec
CONSTANTS
  Accounts = {a, b}
  Purchases = {s, t}
  Period = 2
  MaxNow = 2
  MaxUnderWay = 2
  Nobody = Nobody
  Sids = {s1}
  ForeignSids = {f}
  Outcomes = {delivered, failed}
  Times = {t1, t2}
  MaxBatch = 2
  MaxDeliveries = 2
  SinkHandlers = {k1, k2}
  NoTime = NoTime
  NoDelivery = NoDelivery
  CodeSpace = 2
  MaxRequests = 3
  Avalanche = {2, 3}
  Operations = {o1, o2}
  NoOp = NoOp
  Packs = {p1, p2}
  Removers = {x1}
CONSTRAINT Undisturbed
SYMMETRY Symmetry
INVARIANTS
  Converged
  OrphanOnlyByRace
  AnsweredMeansRecorded
  RequestKept
  QuietMeansWhole
PROPERTY SyncServesTheEntitled
CHECK_DEADLOCK FALSE

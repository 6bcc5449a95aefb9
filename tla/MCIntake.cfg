SPECIFICATION FairIntakeSpec
CONSTANTS
  MaxParts = 1
  Encodings = {e1}
  NoBody = NoBody
  Runs = {r1}
  NoRun = NoRun
  Handlers = {h1}
  Checkers = {c1}
INVARIANTS
  QueuedMeansEnqueued
  AckedMeansEnqueued
PROPERTY EveryMessageEnds

SPECIFICATION Spec
CONSTANTS
  MaxParts = 2
  Encodings = {e1, e2}
  NoBody = NoBody
  Runs = {r1, r2}
  NoRun = NoRun
  MaxLost = 1
SYMMETRY Symmetry
INVARIANTS
  IInv
  AtMostOncePerLostAck
  OneEncoding
  SentMeansEveryPart
  NothingOwedNothingSent
PROPERTIES
  ImplementsLifecycle

SPECIFICATION Spec
CONSTANTS
  MaxParts = 1
  Encodings = {e1}
  NoBody = NoBody
  Runs = {r1, r2}
  NoRun = NoRun
  MaxLost = 0
INVARIANT EverySidMeansSent

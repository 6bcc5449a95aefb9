SPECIFICATION DeliverySpec
CONSTANTS
  MaxParts = 1
  Encodings = {e1}
  NoBody = NoBody
  Runs = {r1}
  NoRun = NoRun
  MaxLost = 0
  Handlers = {h1}
  Checkers = {c1}
PROPERTIES
  ImplementsEncodeTask
  ImplementsIntake

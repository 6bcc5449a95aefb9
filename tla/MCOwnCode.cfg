SPECIFICATION RingSpec
CONSTANTS
  CodeSpace = 2
  MaxRequests = 2
  Avalanche = {}
  Operations = {o1, o2}
  NoOp = NoOp
INVARIANT OwnCode
CHECK_DEADLOCK FALSE

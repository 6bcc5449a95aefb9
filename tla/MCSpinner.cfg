SPECIFICATION ScreenSpec
CONSTANTS
  Requests = {r1}
  Pasted = {p1}
  Half = Half
  Blank = Blank
  Collecting = Collecting
  Nothing = Nothing
  MaxStale = 1
INVARIANT SpinnerHasOwner
CHECK_DEADLOCK FALSE

SPECIFICATION SubscriptionsSpec
CONSTANTS
  Accounts = {a, b}
  Purchases = {s, t}
  Period = 1
  MaxNow = 2
  MaxUnderWay = 2
  Nobody = Nobody
SYMMETRY Symmetry
PROPERTY RedeliveryChangesNothing
CHECK_DEADLOCK FALSE

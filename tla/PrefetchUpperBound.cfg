CONSTANTS
  Counts = {1, 5}
  MaxCalls = 3
SPECIFICATION Spec
PROPERTY FetchReturns
CHECK_DEADLOCK FALSE

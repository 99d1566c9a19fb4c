CONSTANTS
  Commands = {"fetch", "fetch_arrow"}
  Garbage = {0, 2, 9}
  MaxRequests = 3
  Handlers = {h1, h2, h3}
  Tables = {"a", "b"}
  MaxUses = 3
SPECIFICATION ServingSpec
INVARIANTS
  TypeOK
  AnswersInOrder
  ClosedPoolsForgotten
PROPERTIES
  RequestReturns
  HandlerEnds
CHECK_DEADLOCK FALSE

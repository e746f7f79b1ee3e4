SPECIFICATION Spec
CONSTANTS
  w1 = w1
  w2 = w2
  w3 = w3
  Runs = {r1, r2}
  Agents = {w1, w2, w3}
  Roles <- Chain
  Turns = 2
  SequenceOf <- Course
  Reviews = {1}
  MaxRecoveries = 1
  Faults = {"crash", "throw", "touch", "loss", "owner"}
INVARIANT TypeOK OneRetryAtATime
PROPERTY DispatchIdsAreNew ClosedStaysClosed WatchEnds
CHECK_DEADLOCK FALSE

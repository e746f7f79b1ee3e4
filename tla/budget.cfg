SPECIFICATION Spec
CONSTANTS
  Wall = 2
  NoProgress = 1
  Activities = {"test"}
  Validations = {"test"}
  Digests = {"a", "b"}
  Requests = {q1, q2}
  LastTime = 3
  MaxProcesses = 1
INVARIANT TypeOK ReplayBuysNothing
PROPERTY CreditedProgressStands ExhaustedForGood RunEnds
CHECK_DEADLOCK FALSE

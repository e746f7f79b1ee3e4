SPECIFICATION Spec
CONSTANTS
  Wall = 3
  NoProgress = 2
  Activities = {"test"}
  Validations = {"test"}
  Digests = {"a", "b"}
  Requests = {}
  LastTime = 4
  MaxProcesses = 2
PROPERTY FirstSightIsBaseline
CHECK_DEADLOCK FALSE

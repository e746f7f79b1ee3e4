SPECIFICATION Spec
CONSTANTS
  a1 = a1
  a2 = a2
  a3 = a3
  a4 = a4
  NoAgent = NoAgent
  Orchestrator = Orchestrator
  Agents = {a1, a2, a3, a4}
  RoleOf <- Full
  MaxDispatch = 2
  MaxRound = 1
  Faults = {"redrive", "unroutable", "watchdog", "continue", "cancel", "binding"}
SYMMETRY Symmetry
INVARIANT SeparationOfDuties
CHECK_DEADLOCK FALSE

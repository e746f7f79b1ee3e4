SPECIFICATION Spec
CONSTANTS
  a1 = a1
  a2 = a2
  a3 = a3
  a4 = a4
  NoAgent = NoAgent
  Orchestrator = Orchestrator
  Agents = {a1, a2, a3}
  RoleOf <- Full
  MaxDispatch = 3
  MaxRound = 1
  Faults = {"watchdog", "continue", "redrive"}
SYMMETRY Symmetry
INVARIANT OneRoleAtATime
CHECK_DEADLOCK FALSE

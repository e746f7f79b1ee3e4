SPECIFICATION Spec
CONSTANTS
  a1 = a1
  a2 = a2
  a3 = a3
  a4 = a4
  NoAgent = NoAgent
  Orchestrator = Orchestrator
  Agents = {a1, a2, a3}
  RoleOf <- Full
  MaxDispatch = 2
  MaxRound = 1
  Faults = {"watchdog", "continue", "crash", "lost_process", "loss", "binding", "dirty", "cancel", "touch"}
SYMMETRY Symmetry
INVARIANT TypeOK CompletionIsEarned OneRoleAtATime FenceFollowsCursor
PROPERTY PassUndoneByRevision ImplementsPipeline TerminalStable
CHECK_DEADLOCK FALSE

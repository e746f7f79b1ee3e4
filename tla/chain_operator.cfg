SPECIFICATION FairSpec
CONSTANTS
  a1 = a1
  a2 = a2
  a3 = a3
  a4 = a4
  NoAgent = NoAgent
  Orchestrator = Orchestrator
  Agents = {a1, a2, a3}
  RoleOf <- Full
  MaxDispatch = 2
  MaxRound = 1
  Faults = {"watchdog", "budget", "refuse", "throw"}
INVARIANT BusyMeansInFlight
 
CHECK_DEADLOCK FALSE

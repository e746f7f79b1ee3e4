SPECIFICATION ServicesSpec
CONSTANTS
  Retries = 2
  wire_Deliveries = {"d1", "d2"}
  wire_Fragments = 2
  frag_Envelopes = {"e1", "e2"}
  frag_Parts = 2
  frag_Bots = {"b1", "b2"}
  frag_Ttl = 1
  frag_MaxSets = 1
  room_Calls = {1, 2}
  room_Rooms = {1, 2}
  intake_Commits = {1, 2}
  intake_Edits = 1
  intake_MaxStops = 1
  talk_Spoken = {"r1", "r2", "r3"}
  talk_Heard = {"r4"}
  talk_Consensus = {"r2", "r4"}
  talk_MaxRounds = 2
  expert_Requests = {1, 2, 3}
  expert_Roles = {"a", "b", "c"}
  expert_Team = {"c"}
  manager_Accepts = {"a1", "a2"}
  manager_Askers = {"c1", "c2"}
  manager_Consumers = {"u1", "u2"}
  manager_MaxStops = 2
  fallback_Tasks = {"t1"}
  fallback_Models = {"m1", "m2", "free"}
  fallback_Free = "free"
  fallback_MaxRuns = 4
  pool_Models = {"f1", "f2"}
  pool_Runs = {"r1", "r2"}
  pool_MaxAttempts = 2
  choice_Models = {"g1", "g2"}
  pause_Singles = {"s1"}
  pause_Teams = {}
  pause_Scoped = {"d1"}
  pause_MaxPauses = 1
  office_Events = {"o1", "o2"}
  office_Anomalies = {"a1", "a2"}
  office_MaxTriage = 1
  lock_Starters = {"p1", "p2", "p3"}
INVARIANT
  ServicesTypeOK
  AnswerIsOfTheLastAttempt
  ResolvedIsOver
  LiveChildIsReachable
  NoBlindDuplicate
  ReceiptRecorded
  OneRecoveryPerStop
  
  TopicIsTrue
  TeamFollowsRequests
  JudgedOnce
  ChoiceIsTrusted
  LedgerKept
  OneRuntime
  FreeModelsBounded
PROPERTY
  WholeStaysWhole
  NoReplacement
  PauseHolds
  FocusedRunResolves
CHECK_DEADLOCK FALSE

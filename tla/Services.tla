------------------------------ MODULE Services ------------------------------
(***************************************************************************)
(* The services beside the chain of a Team Task.  They share no state: each*)
(* has a module of its own, which this one instantiates.  `focus` names the*)
(* service a behaviour is about; the others are off, and stay so: the      *)
(* states of this module are the disjoint union of those of its parts.  The*)
(* process runner comes in under its own names and is never off.           *)
(***************************************************************************)
EXTENDS ProcessRunner

CONSTANTS
  wire_Deliveries, wire_Fragments, frag_Envelopes, frag_Parts, frag_Bots,
  frag_Ttl, frag_MaxSets, room_Calls, room_Rooms, intake_Commits,
  intake_Edits, intake_MaxStops, talk_Spoken, talk_Heard, talk_Consensus,
  talk_MaxRounds, expert_Requests, expert_Roles, expert_Team, manager_Accepts,
  manager_Askers, manager_Consumers, manager_MaxStops, fallback_Tasks,
  fallback_Models, fallback_Free, fallback_MaxRuns, pool_Models, pool_Runs,
  pool_MaxAttempts, choice_Models, pause_Singles, pause_Teams, pause_Scoped,
  pause_MaxPauses, office_Events, office_Anomalies, office_MaxTriage,
  lock_Starters

VARIABLES
  focus,
  wire_row, wire_posted, wire_call, wire_next, wire_inbound, wire_phase,
  wire_pending, wire_resent,
  frag_sets, frag_age, frag_answer,
  room_task, room_row, room_room, room_briefs, room_call, room_events,
  room_abandoned,
  intake_task, intake_inbox, intake_reviewer, intake_verdict, intake_cli,
  intake_head, intake_diff, intake_bound, intake_evidence, intake_recovered,
  intake_stops, intake_retried,
  talk_topic, talk_event, talk_call, talk_wire, talk_posted, talk_report,
  expert_request, expert_member, expert_call, expert_invited,
  manager_attempt, manager_asking, manager_observed, manager_claim,
  manager_waiting, manager_task, manager_stops, manager_asked, manager_caused,
  fallback_cooling, fallback_verified, fallback_call, fallback_fell,
  fallback_asked, fallback_runs, fallback_tried, fallback_cut,
  pool_state, pool_attempts, pool_todo, pool_probing, pool_program, pool_asked,
  choice_entry, choice_prefers, choice_selected, choice_evidence, choice_gone,
  pause_stored, pause_mode, pause_status, pause_todo, pause_at, pause_sending,
  pause_mail, pause_worker, pause_healing, pause_pauses, pause_caught,
  office_event, office_wrong, office_backlog, office_reading, office_owed,
  office_triage, office_triages,
  lock_lock, lock_pc, lock_tries, lock_raced

Wire == INSTANCE Delivery WITH
  Deliveries <- wire_Deliveries, Fragments <- wire_Fragments, row <- wire_row,
  posted <- wire_posted, call <- wire_call, next <- wire_next,
  inbound <- wire_inbound, phase <- wire_phase, pending <- wire_pending,
  resent <- wire_resent
Buffer == INSTANCE FragmentBuffer WITH
  Envelopes <- frag_Envelopes, Parts <- frag_Parts, Bots <- frag_Bots,
  Ttl <- frag_Ttl, MaxSets <- frag_MaxSets, sets <- frag_sets,
  age <- frag_age, answer <- frag_answer
Room == INSTANCE Workroom WITH
  Calls <- room_Calls, Rooms <- room_Rooms, task <- room_task,
  row <- room_row, room <- room_room, briefs <- room_briefs,
  call <- room_call, events <- room_events, abandoned <- room_abandoned
Intake == INSTANCE TaskIntake WITH
  Commits <- intake_Commits, Edits <- intake_Edits,
  MaxStops <- intake_MaxStops, task <- intake_task, inbox <- intake_inbox,
  reviewer <- intake_reviewer, verdict <- intake_verdict, cli <- intake_cli,
  head <- intake_head, diff <- intake_diff, bound <- intake_bound,
  evidence <- intake_evidence, recovered <- intake_recovered,
  stops <- intake_stops, retried <- intake_retried
Talk == INSTANCE Discussion WITH
  Spoken <- talk_Spoken, Heard <- talk_Heard, Consensus <- talk_Consensus,
  MaxRounds <- talk_MaxRounds, topic <- talk_topic, event <- talk_event,
  call <- talk_call, wire <- talk_wire, posted <- talk_posted,
  report <- talk_report
Expert == INSTANCE Experts WITH
  Requests <- expert_Requests, Roles <- expert_Roles, Team <- expert_Team,
  request <- expert_request, member <- expert_member, call <- expert_call,
  invited <- expert_invited
Manager == INSTANCE ManagerProposal WITH
  Accepts <- manager_Accepts, Askers <- manager_Askers,
  Consumers <- manager_Consumers, MaxStops <- manager_MaxStops,
  attempt <- manager_attempt, asking <- manager_asking,
  observed <- manager_observed, claim <- manager_claim,
  waiting <- manager_waiting, task <- manager_task, stops <- manager_stops,
  asked <- manager_asked, caused <- manager_caused
Fallback == INSTANCE ModelFallback WITH
  Tasks <- fallback_Tasks, Models <- fallback_Models, Free <- fallback_Free,
  MaxRuns <- fallback_MaxRuns, cooling <- fallback_cooling,
  verified <- fallback_verified, call <- fallback_call, fell <- fallback_fell,
  asked <- fallback_asked, runs <- fallback_runs, tried <- fallback_tried,
  cut <- fallback_cut
Pool == INSTANCE FreeModelPool WITH
  Models <- pool_Models, Runs <- pool_Runs, MaxAttempts <- pool_MaxAttempts,
  state <- pool_state, attempts <- pool_attempts, todo <- pool_todo,
  probing <- pool_probing, program <- pool_program, asked <- pool_asked
Choice == INSTANCE ModelChoice WITH
  Models <- choice_Models, entry <- choice_entry, prefers <- choice_prefers,
  selected <- choice_selected, evidence <- choice_evidence,
  gone <- choice_gone
Pause == INSTANCE OwnerPause WITH
  Singles <- pause_Singles, Teams <- pause_Teams, Scoped <- pause_Scoped,
  MaxPauses <- pause_MaxPauses, stored <- pause_stored, mode <- pause_mode,
  status <- pause_status, todo <- pause_todo, at <- pause_at,
  sending <- pause_sending, mail <- pause_mail, worker <- pause_worker,
  healing <- pause_healing, pauses <- pause_pauses, caught <- pause_caught
Office == INSTANCE OfficeLedger WITH
  Events <- office_Events, Anomalies <- office_Anomalies,
  MaxTriage <- office_MaxTriage, event <- office_event, wrong <- office_wrong,
  backlog <- office_backlog, reading <- office_reading, owed <- office_owed,
  triage <- office_triage, triages <- office_triages
Lock == INSTANCE Singleton WITH
  Starters <- lock_Starters, lock <- lock_lock, pc <- lock_pc,
  tries <- lock_tries, raced <- lock_raced

-----------------------------------------------------------------------------
Off == "off"  \* what a service out of focus shows

\* The services, each with its variables.
wireVars ==
  <<wire_row, wire_posted, wire_call, wire_next, wire_inbound, wire_phase,
    wire_pending, wire_resent>>
fragVars == <<frag_sets, frag_age, frag_answer>>
roomVars ==
  <<room_task, room_row, room_room, room_briefs, room_call, room_events,
    room_abandoned>>
intakeVars ==
  <<intake_task, intake_inbox, intake_reviewer, intake_verdict, intake_cli,
    intake_head, intake_diff, intake_bound, intake_evidence,
    intake_recovered, intake_stops, intake_retried>>
talkVars ==
  <<talk_topic, talk_event, talk_call, talk_wire, talk_posted, talk_report>>
expertVars == <<expert_request, expert_member, expert_call, expert_invited>>
managerVars ==
  <<manager_attempt, manager_asking, manager_observed, manager_claim,
    manager_waiting, manager_task, manager_stops, manager_asked,
    manager_caused>>
fallbackVars ==
  <<fallback_cooling, fallback_verified, fallback_call, fallback_fell,
    fallback_asked, fallback_runs, fallback_tried, fallback_cut>>
poolVars ==
  <<pool_state, pool_attempts, pool_todo, pool_probing, pool_program,
    pool_asked>>
choiceVars ==
  <<choice_entry, choice_prefers, choice_selected, choice_evidence,
    choice_gone>>
pauseVars ==
  <<pause_stored, pause_mode, pause_status, pause_todo, pause_at,
    pause_sending, pause_mail, pause_worker, pause_healing, pause_pauses,
    pause_caught>>
officeVars ==
  <<office_event, office_wrong, office_backlog, office_reading, office_owed,
    office_triage, office_triages>>
lockVars == <<lock_lock, lock_pc, lock_tries, lock_raced>>

serviceVars ==
  <<focus, vars, wireVars, fragVars, roomVars, intakeVars, talkVars, expertVars,
    managerVars, fallbackVars, poolVars, choiceVars, pauseVars, officeVars, lockVars>>
WireOff ==
  /\ wire_row = Off /\ wire_posted = Off /\ wire_call = Off /\ wire_next = Off
  /\ wire_inbound = Off /\ wire_phase = Off /\ wire_pending = Off
  /\ wire_resent = Off
BufferOff ==
  /\ frag_sets = Off /\ frag_age = Off /\ frag_answer = Off
RoomOff ==
  /\ room_task = Off /\ room_row = Off /\ room_room = Off /\ room_briefs = Off
  /\ room_call = Off /\ room_events = Off /\ room_abandoned = Off
IntakeOff ==
  /\ intake_task = Off /\ intake_inbox = Off /\ intake_reviewer = Off
  /\ intake_verdict = Off /\ intake_cli = Off /\ intake_head = Off
  /\ intake_diff = Off /\ intake_bound = Off /\ intake_evidence = Off
  /\ intake_recovered = Off /\ intake_stops = Off /\ intake_retried = Off
TalkOff ==
  /\ talk_topic = Off /\ talk_event = Off /\ talk_call = Off /\ talk_wire = Off
  /\ talk_posted = Off /\ talk_report = Off
ExpertOff ==
  /\ expert_request = Off /\ expert_member = Off /\ expert_call = Off
  /\ expert_invited = Off
ManagerOff ==
  /\ manager_attempt = Off /\ manager_asking = Off /\ manager_observed = Off
  /\ manager_claim = Off /\ manager_waiting = Off /\ manager_task = Off
  /\ manager_stops = Off /\ manager_asked = Off /\ manager_caused = Off
FallbackOff ==
  /\ fallback_cooling = Off /\ fallback_verified = Off /\ fallback_call = Off
  /\ fallback_fell = Off /\ fallback_asked = Off /\ fallback_runs = Off
  /\ fallback_tried = Off /\ fallback_cut = Off
PoolOff ==
  /\ pool_state = Off /\ pool_attempts = Off /\ pool_todo = Off
  /\ pool_probing = Off /\ pool_program = Off /\ pool_asked = Off
ChoiceOff ==
  /\ choice_entry = Off /\ choice_prefers = Off /\ choice_selected = Off
  /\ choice_evidence = Off /\ choice_gone = Off
PauseOff ==
  /\ pause_stored = Off /\ pause_mode = Off /\ pause_status = Off
  /\ pause_todo = Off /\ pause_at = Off /\ pause_sending = Off
  /\ pause_mail = Off /\ pause_worker = Off /\ pause_healing = Off
  /\ pause_pauses = Off /\ pause_caught = Off
OfficeOff ==
  /\ office_event = Off /\ office_wrong = Off /\ office_backlog = Off
  /\ office_reading = Off /\ office_owed = Off /\ office_triage = Off
  /\ office_triages = Off
LockOff ==
  /\ lock_lock = Off /\ lock_pc = Off /\ lock_tries = Off /\ lock_raced = Off

On(service, init, off) == IF focus = service THEN init ELSE off

ServicesInit ==
  /\ focus \in {"run", "wire", "fragment", "room", "intake", "talk", "expert", "manager",
                "fallback", "pool", "choice", "pause", "office", "lock"}
  /\ Init
  /\ On("wire", Wire!Init, WireOff)
  /\ On("fragment", Buffer!Init, BufferOff)
  /\ On("room", Room!Init, RoomOff)
  /\ On("intake", Intake!Init, IntakeOff)
  /\ On("talk", Talk!Init, TalkOff)
  /\ On("expert", Expert!Init, ExpertOff)
  /\ On("manager", Manager!Init, ManagerOff)
  /\ On("fallback", Fallback!Init, FallbackOff)
  /\ On("pool", Pool!Init, PoolOff)
  /\ On("choice", Choice!Init, ChoiceOff)
  /\ On("pause", Pause!Init, PauseOff)
  /\ On("office", Office!Init, OfficeOff)
  /\ On("lock", Lock!Init, LockOff)

\* A step of the process runner while a behaviour is about it.
OfRun(A) ==
  /\ focus = "run" /\ A
  /\ UNCHANGED <<focus, wireVars, fragVars, roomVars, intakeVars, talkVars, expertVars, managerVars,
               fallbackVars, poolVars, choiceVars, pauseVars, officeVars, lockVars>>
WireStep ==
  /\ focus = "wire" /\ Wire!Next
  /\ UNCHANGED <<focus, vars, fragVars, roomVars, intakeVars, talkVars, expertVars, managerVars,
               fallbackVars, poolVars, choiceVars, pauseVars, officeVars, lockVars>>
BufferStep ==
  /\ focus = "fragment" /\ Buffer!Next
  /\ UNCHANGED <<focus, vars, wireVars, roomVars, intakeVars, talkVars, expertVars, managerVars,
               fallbackVars, poolVars, choiceVars, pauseVars, officeVars, lockVars>>
RoomStep ==
  /\ focus = "room" /\ Room!Next
  /\ UNCHANGED <<focus, vars, wireVars, fragVars, intakeVars, talkVars, expertVars, managerVars,
               fallbackVars, poolVars, choiceVars, pauseVars, officeVars, lockVars>>
IntakeStep ==
  /\ focus = "intake" /\ Intake!Next
  /\ UNCHANGED <<focus, vars, wireVars, fragVars, roomVars, talkVars, expertVars, managerVars,
               fallbackVars, poolVars, choiceVars, pauseVars, officeVars, lockVars>>
TalkStep ==
  /\ focus = "talk" /\ Talk!Next
  /\ UNCHANGED <<focus, vars, wireVars, fragVars, roomVars, intakeVars, expertVars, managerVars,
               fallbackVars, poolVars, choiceVars, pauseVars, officeVars, lockVars>>
ExpertStep ==
  /\ focus = "expert" /\ Expert!Next
  /\ UNCHANGED <<focus, vars, wireVars, fragVars, roomVars, intakeVars, talkVars, managerVars,
               fallbackVars, poolVars, choiceVars, pauseVars, officeVars, lockVars>>
ManagerStep ==
  /\ focus = "manager" /\ Manager!Next
  /\ UNCHANGED <<focus, vars, wireVars, fragVars, roomVars, intakeVars, talkVars, expertVars,
               fallbackVars, poolVars, choiceVars, pauseVars, officeVars, lockVars>>
FallbackStep ==
  /\ focus = "fallback" /\ Fallback!Next
  /\ UNCHANGED <<focus, vars, wireVars, fragVars, roomVars, intakeVars, talkVars, expertVars,
               managerVars, poolVars, choiceVars, pauseVars, officeVars, lockVars>>
PoolStep ==
  /\ focus = "pool" /\ Pool!Next
  /\ UNCHANGED <<focus, vars, wireVars, fragVars, roomVars, intakeVars, talkVars, expertVars,
               managerVars, fallbackVars, choiceVars, pauseVars, officeVars, lockVars>>
ChoiceStep ==
  /\ focus = "choice" /\ Choice!Next
  /\ UNCHANGED <<focus, vars, wireVars, fragVars, roomVars, intakeVars, talkVars, expertVars,
               managerVars, fallbackVars, poolVars, pauseVars, officeVars, lockVars>>
PauseStep ==
  /\ focus = "pause" /\ Pause!Next
  /\ UNCHANGED <<focus, vars, wireVars, fragVars, roomVars, intakeVars, talkVars, expertVars,
               managerVars, fallbackVars, poolVars, choiceVars, officeVars, lockVars>>
OfficeStep ==
  /\ focus = "office" /\ Office!Next
  /\ UNCHANGED <<focus, vars, wireVars, fragVars, roomVars, intakeVars, talkVars, expertVars,
               managerVars, fallbackVars, poolVars, choiceVars, pauseVars, lockVars>>
LockStep ==
  /\ focus = "lock" /\ Lock!Next
  /\ UNCHANGED <<focus, vars, wireVars, fragVars, roomVars, intakeVars, talkVars, expertVars,
               managerVars, fallbackVars, poolVars, choiceVars, pauseVars, officeVars>>

ServicesNext ==
  \/ OfRun(Next)
  \/ WireStep \/ BufferStep \/ RoomStep \/ IntakeStep \/ TalkStep
  \/ ExpertStep \/ ManagerStep \/ FallbackStep \/ PoolStep \/ ChoiceStep
  \/ PauseStep \/ OfficeStep \/ LockStep

\* Fairness is that of the process runner; no other service needs any.
ServicesSpec ==
  /\ ServicesInit /\ [][ServicesNext]_serviceVars
  /\ WF_serviceVars(OfRun(\E created \in BOOLEAN : Start(created) \/ Respawn(created)))
  /\ \A g \in Spawns : WF_serviceVars(OfRun(Exit(g))) /\ WF_serviceVars(OfRun(Close(g)))

-----------------------------------------------------------------------------
\* Every variable of every service has its type.
ServicesTypeOK ==
  /\ TypeOK
  /\ focus = "wire" => Wire!TypeOK
  /\ focus = "fragment" => Buffer!TypeOK
  /\ focus = "room" => Room!TypeOK
  /\ focus = "intake" => Intake!TypeOK
  /\ focus = "talk" => Talk!TypeOK
  /\ focus = "expert" => Expert!TypeOK
  /\ focus = "manager" => Manager!TypeOK
  /\ focus = "fallback" => Fallback!TypeOK
  /\ focus = "pool" => Pool!TypeOK
  /\ focus = "choice" => Choice!TypeOK
  /\ focus = "pause" => Pause!TypeOK
  /\ focus = "office" => Office!TypeOK
  /\ focus = "lock" => Lock!TypeOK

\* A run of a CLI that a behaviour is about gets its answer.
FocusedRunResolves == focus = "run" ~> output # "none"

\* ---- Outbound delivery (Delivery).
\* recoverPendingDeliveries posts no message a second time.
NoBlindDuplicate == focus = "wire" => Wire!NoBlindDuplicate
\* A receipt outlives the race with the end of its own send.
ReceiptRecorded == focus = "wire" => Wire!ReceiptRecorded

\* ---- Fragments of inbound envelopes (FragmentBuffer).
\* A set that answers COMPLETE holds its one payload, whole, and keeps it.
WholeStaysWhole == [][focus = "fragment" => Buffer!KeepsWhole]_serviceVars

\* ---- The Workroom of a Task (Workroom).
\* No thread is replaced but a deleted one of a recovered Task.
NoReplacement == [][focus = "room" => Room!ReplacesNothing]_serviceVars

\* ---- Intake, hold, recovery and correction of a Task (TaskIntake).
\* A stop is recovered once, by whichever way.
OneRecoveryPerStop == focus = "intake" => Intake!OneRecoveryPerStop
\* Holds and ACKs of the bridge and of the Task agree.
BridgeAgrees == focus = "intake" => Intake!BridgeAgrees

\* ---- A discussion topic (Discussion).
\* A topic is closed by what the channel has seen, each remark in its round.
TopicIsTrue == focus = "talk" => Talk!TopicIsTrue

\* ---- Experts called into a team (Experts).
\* Memberships and requests tell the same story, one expert for a role.
TeamFollowsRequests == focus = "expert" => Expert!TeamFollowsRequests

\* ---- The manager's judgment on a stopped Task (ManagerProposal).
\* An acceptance id is asked about once, and continues the Task once.
JudgedOnce == focus = "manager" => Manager!JudgedOnce

\* ---- Catalog and preference of an agent's models (ModelChoice).
\* The adapter runs the preferred model, on evidence.
ChoiceIsTrusted == focus = "choice" => Choice!ChoiceIsTrusted

\* ---- The owner's pause (OwnerPause).
\* Under a pause only what was past its last gate goes on.
PauseHolds == [][focus = "pause" => Pause!HoldsStill]_serviceVars

\* ---- Events and backlog left for people (OfficeLedger).
\* A standing anomaly has one open event, a triage decision stands.
LedgerKept == focus = "office" => Office!LedgerKept

\* ---- The lock of the runtime (Singleton).
\* One runtime holds the lock, but for racing starts.
OneRuntime == focus = "lock" => Lock!OneRuntime

\* ---- Free models (ModelFallback, FreeModelPool).
\* Free models are used within bounds: once for a Task in the place of a model
\* that failed, and probed within their attempts.
FreeModelsBounded ==
  /\ focus = "fallback" => Fallback!FallbackOnce
  /\ focus = "pool" => Pool!AskedWithinAttempts
=============================================================================

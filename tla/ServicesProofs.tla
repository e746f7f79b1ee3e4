--------------------------- MODULE ServicesProofs ---------------------------
(***************************************************************************)
(* What was proved of a service on its own holds of it beside the others:  *)
(* a behaviour of the services whose focus is one of them takes steps of   *)
(* that one only, or none, so its invariant is one of the whole.           *)
(***************************************************************************)
EXTENDS Services, FiniteSetTheorems, TLAPS

\* The services with their proofs.
WireP == INSTANCE DeliveryProofs WITH
  Deliveries <- wire_Deliveries, Fragments <- wire_Fragments, row <- wire_row,
  posted <- wire_posted, call <- wire_call, next <- wire_next,
  inbound <- wire_inbound, phase <- wire_phase, pending <- wire_pending,
  resent <- wire_resent
PauseP == INSTANCE OwnerPauseProofs WITH
  Singles <- pause_Singles, Teams <- pause_Teams, Scoped <- pause_Scoped,
  MaxPauses <- pause_MaxPauses, stored <- pause_stored, mode <- pause_mode,
  status <- pause_status, todo <- pause_todo, at <- pause_at,
  sending <- pause_sending, mail <- pause_mail, worker <- pause_worker,
  healing <- pause_healing, pauses <- pause_pauses, caught <- pause_caught
ExpertP == INSTANCE ExpertsProofs WITH
  Requests <- expert_Requests, Roles <- expert_Roles, Team <- expert_Team,
  request <- expert_request, member <- expert_member, call <- expert_call,
  invited <- expert_invited

-----------------------------------------------------------------------------
\* The focus never changes, and only the service it names moves.
LEMMA FocusedStep ==
  ASSUME [ServicesNext]_serviceVars
  PROVE  /\ focus' = focus
         /\ [Next]_vars
         /\ focus = "wire" => [Wire!Next]_wireVars
         /\ focus = "pause" => [Pause!Next]_pauseVars
         /\ focus = "expert" => [Expert!Next]_expertVars
         /\ focus = "manager" => [Manager!Next]_managerVars
         /\ focus = "fragment" => [Buffer!Next]_fragVars
         /\ focus = "room" => [Room!Next]_roomVars
         /\ focus = "intake" => [Intake!Next]_intakeVars
         /\ focus = "talk" => [Talk!Next]_talkVars
         /\ focus = "fallback" => [Fallback!Next]_fallbackVars
         /\ focus = "pool" => [Pool!Next]_poolVars
         /\ focus = "choice" => [Choice!Next]_choiceVars
         /\ focus = "office" => [Office!Next]_officeVars
         /\ focus = "lock" => [Lock!Next]_lockVars
<1>1. CASE WireStep
  BY <1>1 DEF WireStep
<1>2. CASE PauseStep
  BY <1>2 DEF PauseStep
<1>3. CASE ExpertStep
  BY <1>3 DEF ExpertStep
<1>4. CASE ManagerStep
  BY <1>4 DEF ManagerStep
<1>5. CASE OfRun(Next)
  BY <1>5 DEF OfRun
<1>6. CASE BufferStep \/ RoomStep \/ IntakeStep \/ TalkStep
  BY <1>6 DEF BufferStep, RoomStep, IntakeStep, TalkStep
<1>7. CASE FallbackStep \/ PoolStep \/ ChoiceStep \/ OfficeStep \/ LockStep
  BY <1>7 DEF FallbackStep, PoolStep, ChoiceStep, OfficeStep, LockStep
<1>8. CASE UNCHANGED serviceVars
  BY <1>8 DEF serviceVars
<1>9. QED
  BY <1>1, <1>2, <1>3, <1>4, <1>5, <1>6, <1>7, <1>8 DEF ServicesNext

\* A service with its proofs is the service.
LEMMA WireStarts == ServicesInit /\ focus = "wire" => WireP!Init
BY DEF ServicesInit, On, Wire!Init, WireP!Init

LEMMA WireSteps == [Wire!Next]_wireVars => [WireP!Next]_(WireP!vars)
BY DEF wireVars, WireP!vars, Wire!Next, WireP!Next, Wire!Publish, WireP!Publish, Wire!Post,
  WireP!Post, Wire!Sent, WireP!Sent, Wire!SendFails, WireP!SendFails, Wire!Received,
  WireP!Received, Wire!Processed, WireP!Processed, Wire!DieAfterCreate, WireP!DieAfterCreate,
  Wire!Resend, WireP!Resend, Wire!Crash, WireP!Crash, Wire!Reconcile, WireP!Reconcile,
  Wire!ReadPending, WireP!ReadPending, Wire!Started, WireP!Started, Wire!Length, WireP!Length,
  Wire!Outcome, WireP!Outcome, Wire!Receipt, WireP!Receipt, Wire!Restart, WireP!Restart,
  Wire!Reconciled, WireP!Reconciled, Wire!Unsent, WireP!Unsent

LEMMA PauseStarts == ServicesInit /\ focus = "pause" => PauseP!Init
BY DEF ServicesInit, On, Pause!Init, PauseP!Init, Pause!None, PauseP!None, Pause!Tasks,
  PauseP!Tasks, Pause!Drivers, PauseP!Drivers, Pause!Nothing, PauseP!Nothing, Pause!Sweep,
  PauseP!Sweep

LEMMA PauseSteps == [Pause!Next]_pauseVars => [PauseP!Next]_(PauseP!vars)
BY DEF pauseVars, PauseP!vars, Pause!CanTransition, PauseP!CanTransition,
  Pause!Transitions, PauseP!Transitions, Pause!Next, PauseP!Next, Pause!Pause, PauseP!Pause,
  Pause!Resume, PauseP!Resume, Pause!Crash, PauseP!Crash, Pause!Tick, PauseP!Tick,
  Pause!HealStart, PauseP!HealStart, Pause!HealEnd, PauseP!HealEnd, Pause!Drivers,
  PauseP!Drivers, Pause!Tasks, PauseP!Tasks, Pause!Visit, PauseP!Visit, Pause!Dispatch,
  PauseP!Dispatch, Pause!Refused, PauseP!Refused, Pause!Assigns, PauseP!Assigns, Pause!Sent,
  PauseP!Sent, Pause!Receive, PauseP!Receive, Pause!StartCli, PauseP!StartCli, Pause!CliEnds,
  PauseP!CliEnds, Pause!HealStops, PauseP!HealStops, Pause!Continue, PauseP!Continue,
  Pause!Paused, PauseP!Paused, Pause!Control, PauseP!Control, Pause!Nothing, PauseP!Nothing,
  Pause!Recalled, PauseP!Recalled, Pause!None, PauseP!None, Pause!Free, PauseP!Free,
  Pause!Sweep, PauseP!Sweep, Pause!Starts, PauseP!Starts, Pause!Heals, PauseP!Heals,
  Pause!MayVisit, PauseP!MayVisit, Pause!Moves, PauseP!Moves, Pause!Accepts, PauseP!Accepts

LEMMA HoldsStillSame == Pause!HoldsStill <=> PauseP!HoldsStill
BY DEF Pause!HoldsStill, PauseP!HoldsStill, Pause!StartCli, PauseP!StartCli, Pause!Assigns,
  PauseP!Assigns, Pause!HealStops, PauseP!HealStops, Pause!Moves, PauseP!Moves, Pause!Tasks,
  PauseP!Tasks, Pause!Drivers, PauseP!Drivers, Pause!Sweep, PauseP!Sweep, Pause!None,
  PauseP!None, Pause!CanTransition, PauseP!CanTransition, Pause!Transitions,
  PauseP!Transitions

LEMMA ExpertStarts == ServicesInit /\ focus = "expert" => ExpertP!Init
BY DEF ServicesInit, On, Expert!Init, ExpertP!Init, Expert!NoMember, ExpertP!NoMember

LEMMA ExpertSteps == [Expert!Next]_expertVars => [ExpertP!Next]_(ExpertP!vars)
BY DEF expertVars, ExpertP!vars, Expert!Next, ExpertP!Next, Expert!NotNeeded,
  ExpertP!NotNeeded, Expert!NotToBeHad, ExpertP!NotToBeHad, Expert!Chosen, ExpertP!Chosen,
  Expert!Sends, ExpertP!Sends, Expert!SendFails, ExpertP!SendFails, Expert!Acknowledges,
  ExpertP!Acknowledges, Expert!Reports, ExpertP!Reports, Expert!Crash, ExpertP!Crash,
  Expert!New, ExpertP!New, Expert!Made, ExpertP!Made, Expert!Taken, ExpertP!Taken,
  Expert!InTeam, ExpertP!InTeam, Expert!Answered, ExpertP!Answered, Expert!Results,
  ExpertP!Results, Expert!Engaged, ExpertP!Engaged, Expert!NoMember, ExpertP!NoMember

-----------------------------------------------------------------------------
(* The process runner: a run answers once, truthfully and last, for every  *)
(* number of retries.  None of its three properties is inductive: that a   *)
(* handler runs once per child, and no timer beside a live child, must be  *)
(* known of every step.  The invariant says where a run stands: its last   *)
(* child is alive, has exited, is waited for again, or has been answered   *)
(* for.                                                                    *)

\* Children before the last are gone and heard of, those after it unborn.
Past ==
  \A g \in Spawns :
    /\ g < spawned => os[g] \in Exits /\ listeners[g] = 0
    /\ g > spawned => os[g] = "unborn" /\ listeners[g] = 0 /\ g \notin wedged

NotStarted ==
  /\ spawned = 0 /\ timers = 0 /\ retries = 0 /\ mapped = 0
  /\ row = "none" /\ ~wedgeSeen /\ output = "none"

Attempt ==
  /\ spawned \in Spawns /\ retries = spawned - 1
  /\ listeners[spawned] = 1 /\ timers = 0 /\ output = "none"
  /\ wedgeSeen <=> spawned \in wedged
  /\ \/ os[spawned] = "alive" /\ mapped = spawned /\ rowPid = spawned
     \/ os[spawned] \in Exits

Waiting ==
  /\ spawned \in 1 .. Retries /\ retries = spawned
  /\ listeners[spawned] = 0 /\ timers = 1 /\ output = "none"
  /\ os[spawned] \in Exits /\ ~wedgeSeen /\ mapped = 0

Answered ==
  /\ spawned \in Spawns /\ listeners[spawned] = 0 /\ timers = 0 /\ mapped = 0
  /\ os[spawned] \in Exits
  /\ output = IF spawned \in wedged THEN "exhausted" ELSE os[spawned]

RunInv ==
  /\ TypeOK /\ Past
  /\ NotStarted \/ Attempt \/ Waiting \/ Answered

\* What the steps need to know of the two sets of constants.
LEMMA SpawnNumbers ==
  /\ \A g : g \in Spawns <=> g \in Nat /\ 1 <= g /\ g <= Retries + 1
  /\ Retries \in Nat
BY RetriesAssumption DEF Spawns

LEMMA ExitsAreOutcomes ==
  {"none", "unborn", "alive", "exhausted"} \cap Exits = {} /\ "failed" \in Exits
BY DEF Exits

LEMMA RunStarts == Init => RunInv
<1> SUFFICES ASSUME Init PROVE RunInv
  OBVIOUS
<1>1. TypeOK
  <2>1. /\ os \in [Spawns -> {"unborn", "alive"} \cup Exits]
        /\ listeners \in [Spawns -> 0 .. 1]
    BY DEF Init
  <2>2. wedgeSeen \in BOOLEAN /\ wedged \subseteq Spawns /\ row \in RowStates
    BY DEF Init, RowStates
  <2> QED BY <2>1, <2>2, SpawnNumbers DEF Init, TypeOK
<1>2. Past
  BY SpawnNumbers DEF Init, Past
<1> QED BY <1>1, <1>2 DEF Init, RunInv, NotStarted

LEMMA RunSteps == RunInv /\ [Next]_vars => RunInv'
<1> SUFFICES ASSUME RunInv, [Next]_vars PROVE RunInv'
  OBVIOUS
<1> USE SpawnNumbers, ExitsAreOutcomes DEF RowStates, Past
<1>1. ASSUME NEW created \in BOOLEAN, Start(created) PROVE RunInv'
  <2>1. TypeOK' /\ Past'
    BY <1>1 DEF RunInv, TypeOK, Start, Spawned, Attach, NotStarted, Attempt, Waiting, Answered
  <2>2. Attempt'
    BY <1>1 DEF RunInv, TypeOK, Start, Spawned, Attach, NotStarted, Attempt, Waiting, Answered
  <2> QED BY <2>1, <2>2 DEF RunInv
<1>2. ASSUME NEW created \in BOOLEAN, Respawn(created) PROVE RunInv'
  <2>1. Waiting
    BY <1>2 DEF RunInv, Respawn, NotStarted, Attempt, Answered
  <2>2. TypeOK' /\ Past'
    BY <1>2, <2>1 DEF RunInv, TypeOK, Respawn, Spawned, Attach, NewPid, Waiting
  <2>3. Attempt'
    BY <1>2, <2>1 DEF RunInv, TypeOK, Respawn, Spawned, Attach, NewPid, Waiting, Attempt
  <2> QED BY <2>2, <2>3 DEF RunInv
<1>3. ASSUME NEW g \in Spawns, Wedge(g) PROVE RunInv'
  <2>1. g = spawned /\ Attempt
    BY <1>3 DEF RunInv, TypeOK, Wedge, NotStarted, Attempt, Waiting, Answered
  <2> QED BY <1>3, <2>1 DEF RunInv, TypeOK, Wedge, Attempt
<1>4. ASSUME NEW g \in Spawns, Exit(g) PROVE RunInv'
  <2>1. g = spawned /\ Attempt
    BY <1>4 DEF RunInv, TypeOK, Exit, NotStarted, Attempt, Waiting, Answered
  <2>2. TypeOK' /\ Past'
    BY <1>4, <2>1 DEF RunInv, TypeOK, Exit, Attempt
  <2>3. Attempt'
    BY <1>4, <2>1 DEF RunInv, TypeOK, Exit, Attempt
  <2> QED BY <2>2, <2>3 DEF RunInv
<1>5. ASSUME NEW g \in Spawns, Close(g) PROVE RunInv'
  <2>1. g = spawned /\ Attempt /\ os[g] \in Exits
    BY <1>5 DEF RunInv, TypeOK, Close, NotStarted, Attempt, Waiting, Answered
  <2>2. CASE CloseWedged(g)
    <3>1. retries < Retries /\ timers = 0 /\ UNCHANGED <<row, output, os, wedged, rowPid, spawned>>
      BY <1>5, <2>1, <2>2 DEF Close, CloseWedged, RetryLeft, Attempt
    <3>2. TypeOK'
      <4>1. listeners' \in [Spawns -> 0 .. 1]
        BY <1>5, <2>1 DEF RunInv, TypeOK, Close, Attempt
      <4>2. retries' \in 0 .. Retries /\ timers' \in 0 .. 1 /\ mapped' \in 0 .. Retries + 1
        BY <2>2, <3>1 DEF RunInv, TypeOK, CloseWedged
      <4>3. wedgeSeen' \in BOOLEAN
        BY <2>2 DEF CloseWedged
      <4> QED BY <3>1, <4>1, <4>2, <4>3 DEF RunInv, TypeOK
    <3>3. Past'
      BY <1>5, <2>1, <3>1 DEF RunInv, TypeOK, Close
    <3>4. Waiting'
      BY <1>5, <2>1, <2>2 DEF RunInv, TypeOK, Close, CloseWedged, RetryLeft, Attempt, Waiting
    <3> QED BY <3>2, <3>3, <3>4 DEF RunInv
  <2>3. CASE CloseResolved(g)
    <3>1. TypeOK' /\ Past'
      BY <1>5, <2>1, <2>3 DEF RunInv, TypeOK, Close, CloseResolved, Flagged, Attempt
    <3>2. Answered'
      BY <1>5, <2>1, <2>3 DEF RunInv, TypeOK, Close, CloseResolved, RetryLeft, Flagged, Attempt, Answered
    <3> QED BY <3>1, <3>2 DEF RunInv
  <2> QED BY <1>5, <2>2, <2>3 DEF Close
<1>6. ASSUME Kill PROVE RunInv'
  BY <1>6 DEF RunInv, TypeOK, Kill, Cancellable, Terminable, NotStarted, Attempt, Waiting, Answered
<1>7. ASSUME Lost PROVE RunInv'
  BY <1>7 DEF RunInv, TypeOK, Lost, NotStarted, Attempt, Waiting, Answered
<1>8. ASSUME UNCHANGED vars PROVE RunInv'
  BY <1>8 DEF RunInv, TypeOK, vars, NotStarted, Attempt, Waiting, Answered
<1> QED BY <1>1, <1>2, <1>3, <1>4, <1>5, <1>6, <1>7, <1>8 DEF Next

LEMMA RunInvImplies ==
  RunInv => TypeOK /\ AnswerIsOfTheLastAttempt /\ ResolvedIsOver /\ LiveChildIsReachable
<1> SUFFICES ASSUME RunInv
             PROVE  AnswerIsOfTheLastAttempt /\ ResolvedIsOver /\ LiveChildIsReachable
  BY DEF RunInv
<1> USE SpawnNumbers, ExitsAreOutcomes DEF RunInv, TypeOK, Past, NotStarted, Attempt, Waiting, Answered
<1>1. AnswerIsOfTheLastAttempt
  BY DEF AnswerIsOfTheLastAttempt
<1>2. ResolvedIsOver
  BY DEF ResolvedIsOver
<1>3. LiveChildIsReachable
  BY DEF LiveChildIsReachable
<1> QED BY <1>1, <1>2, <1>3

LEMMA RunInductive == ServicesSpec => []RunInv
<1>1. ServicesInit => RunInv
  BY RunStarts DEF ServicesInit
<1>2. RunInv /\ [ServicesNext]_serviceVars => RunInv'
  BY FocusedStep, RunSteps
<1> QED BY <1>1, <1>2, PTL DEF ServicesSpec

\* What run resolves with is the outcome of its last attempt, flagged exactly
\* when that attempt was no execution, for every number of retries.
THEOREM AnswersAreTrue == ServicesSpec => []AnswerIsOfTheLastAttempt
BY RunInductive, RunInvImplies, PTL

\* When run resolves no child is alive and no respawn is due: callers may take
\* the worktree as left alone.
THEOREM NothingOutlivesTheAnswer == ServicesSpec => []ResolvedIsOver
BY RunInductive, RunInvImplies, PTL

\* A live CLI whose row is RUNNING is always the one map and row lead to.
THEOREM KillersReachTheChild == ServicesSpec => []LiveChildIsReachable
BY RunInductive, RunInvImplies, PTL

LEMMA WireInductive ==
  ASSUME wire_Fragments \in Nat \ {0}
  PROVE  ServicesSpec => [](focus = "wire" => WireP!Inv)
<1> DEFINE Held == focus = "wire" => WireP!Inv
<1>1. ServicesInit => Held
  BY WireStarts, WireP!InvInit
<1>2. Held /\ [ServicesNext]_serviceVars => Held'
  BY FocusedStep, WireSteps, WireP!InvNext
<1>3. QED
  BY <1>1, <1>2, PTL DEF ServicesSpec

-----------------------------------------------------------------------------
\* However the process dies and restarts, no fragment of an envelope is posted
\* twice: recoverPendingDeliveries sends only rows whose send never began.
THEOREM ServicesNeverPostTwice ==
  ASSUME wire_Fragments \in Nat \ {0}
  PROVE  ServicesSpec => []NoBlindDuplicate
<1> DEFINE Held == focus = "wire" => WireP!Inv
<1>1. Held => NoBlindDuplicate
  BY DEF NoBlindDuplicate, Wire!NoBlindDuplicate, WireP!NoBlindDuplicate, WireP!Inv
<1>2. QED
  BY <1>1, WireInductive, PTL

\* A receipt reaches the row of its envelope, whether InboundGuard writes it
\* before publish returns or after.
THEOREM ServicesRecordReceipts ==
  ASSUME wire_Fragments \in Nat \ {0}
  PROVE  ServicesSpec => []ReceiptRecorded
<1> DEFINE Held == focus = "wire" => WireP!Inv
<1>1. Held => ReceiptRecorded
  BY DEF ReceiptRecorded, Wire!ReceiptRecorded, WireP!ReceiptRecorded, WireP!Inv
<1>2. QED
  BY <1>1, WireInductive, PTL

LEMMA ExpertInductive ==
  ASSUME 0 \notin expert_Requests
  PROVE  ServicesSpec => [](focus = "expert" => ExpertP!Inv)
<1> DEFINE Held == focus = "expert" => ExpertP!Inv
<1>1. ServicesInit => Held
  BY ExpertStarts, ExpertP!InvInit
<1>2. Held /\ [ServicesNext]_serviceVars => Held'
  BY FocusedStep, ExpertSteps, ExpertP!InvNext
<1>3. QED
  BY <1>1, <1>2, PTL DEF ServicesSpec

\* Memberships and requests tell the same story and no role has a second expert,
\* whatever order the ACKs and results of the experts come in.
THEOREM ServicesKeepTeam ==
  ASSUME 0 \notin expert_Requests
  PROVE  ServicesSpec => []TeamFollowsRequests
<1> DEFINE Held == focus = "expert" => ExpertP!Inv
<1>1. Held => TeamFollowsRequests
  BY DEF TeamFollowsRequests, ExpertP!Inv, Expert!TeamFollowsRequests,
     ExpertP!TeamFollowsRequests, Expert!Engaged, ExpertP!Engaged, Expert!NoMember, ExpertP!NoMember
<1>2. QED
  BY <1>1, ExpertInductive, PTL

\* Under a pause only what had passed its last gate goes on, in the dispatchers,
\* the workers and the healing loop, and nothing after a restart.
THEOREM ServicesKeepPause ==
  ASSUME "none" \notin pause_Singles
  PROVE  ServicesSpec => PauseHolds
<1> DEFINE Held == focus = "pause" => PauseP!Inv
<1>1. ServicesInit => Held
  BY PauseStarts, PauseP!InvInit
<1>2. Held /\ [ServicesNext]_serviceVars => Held'
  BY FocusedStep, PauseSteps, PauseP!InvNext DEF PauseP!None
<1>3. Held => (focus = "pause" => Pause!HoldsStill)
  BY PauseP!InvHolds, HoldsStillSame
<1>4. QED
  BY <1>1, <1>2, <1>3, PTL DEF ServicesSpec, PauseHolds

-----------------------------------------------------------------------------
(***************************************************************************)
(* The manager's judgment.  That it comes once is not inductive: nothing   *)
(* was asked before the attempt row exists, and a call that waits between  *)
(* its claim and its completion has continued the Task.                    *)
(***************************************************************************)
JudgedRows ==
  /\ manager_claim \in [manager_Accepts -> {Manager!None, "CLAIMED", "COMPLETED"}]
  /\ manager_asked \in [manager_Accepts -> Nat] /\ manager_caused \in [manager_Accepts -> Nat]

\* The row is written before what it claims is done.
AttemptFirst == \A a \in manager_Accepts : a \notin manager_attempt => manager_asked[a] = 0
ClaimFirst == \A a \in manager_Accepts : manager_claim[a] = Manager!None => manager_caused[a] = 0

\* What a consume that still waits will report as completed has been done.
WaitingContinued ==
  \A u \in manager_Consumers :
    manager_waiting[u] # Manager!None => manager_caused[manager_waiting[u]] = 1

ConsumeCalls == manager_waiting \in [manager_Consumers -> manager_Accepts \cup {Manager!None}]

JudgeInv ==
  /\ JudgedRows /\ ConsumeCalls /\ AttemptFirst /\ ClaimFirst /\ WaitingContinued
  /\ Manager!JudgedOnce

LEMMA JudgeInvInit == Manager!Init => JudgeInv
BY DEF Manager!Init, JudgeInv, JudgedRows, ConsumeCalls, AttemptFirst, ClaimFirst,
  WaitingContinued, Manager!JudgedOnce, Manager!None

\* A step that leaves the rows and the histories alone, and at most ends calls.
LEMMA JudgeInvUntouched ==
  ASSUME JudgeInv,
         UNCHANGED <<manager_attempt, manager_claim, manager_asked, manager_caused>>,
         \/ manager_waiting' = manager_waiting
         \/ manager_waiting' = [u \in manager_Consumers |-> Manager!None]
  PROVE  JudgeInv'
BY DEF JudgeInv, JudgedRows, ConsumeCalls, AttemptFirst, ClaimFirst, WaitingContinued, Manager!JudgedOnce

LEMMA JudgeInvAsk ==
  ASSUME JudgeInv, NEW c \in manager_Askers, NEW a \in manager_Accepts, Manager!Ask(c, a)
  PROVE  JudgeInv'
<1>0. manager_asked[a] = 0
  BY DEF JudgeInv, AttemptFirst, Manager!Ask, Manager!Unclaimed
<1>1. manager_asked' = [manager_asked EXCEPT ![a] = 1]
  BY <1>0 DEF Manager!Ask
<1>2. JudgedRows' /\ AttemptFirst' /\ Manager!JudgedOnce'
  BY <1>0, <1>1 DEF JudgeInv, JudgedRows, AttemptFirst, Manager!JudgedOnce, Manager!Ask
<1>3. QED
  BY <1>2 DEF JudgeInv, ConsumeCalls, ClaimFirst, WaitingContinued, Manager!Ask

LEMMA JudgeInvConsume ==
  ASSUME JudgeInv, NEW u \in manager_Consumers, NEW a \in manager_Accepts,
         Manager!Consume(u, a), Manager!None \notin manager_Accepts
  PROVE  JudgeInv'
<1>0. manager_claim[a] = Manager!None /\ manager_caused[a] = 0
  BY DEF JudgeInv, ClaimFirst, Manager!Consume, Manager!Consumable
<1>1. /\ manager_claim' = [manager_claim EXCEPT ![a] = "CLAIMED"]
      /\ manager_caused' = [manager_caused EXCEPT ![a] = 1]
      /\ manager_waiting' = [manager_waiting EXCEPT ![u] = a]
  BY <1>0 DEF Manager!Consume
<1>2. JudgedRows' /\ ConsumeCalls' /\ ClaimFirst' /\ Manager!JudgedOnce'
  BY <1>0, <1>1 DEF JudgeInv, JudgedRows, ConsumeCalls, ClaimFirst, Manager!JudgedOnce, Manager!Consume, Manager!None
<1>3. WaitingContinued'
  BY <1>0, <1>1 DEF JudgeInv, JudgedRows, ConsumeCalls, WaitingContinued
<1>4. QED
  BY <1>2, <1>3 DEF JudgeInv, AttemptFirst, Manager!JudgedOnce, Manager!Consume

LEMMA JudgeInvConsumed ==
  ASSUME JudgeInv, NEW u \in manager_Consumers, Manager!Consumed(u), Manager!None \notin manager_Accepts
  PROVE  JudgeInv'
<1> DEFINE a == manager_waiting[u]
<1>1. a \in manager_Accepts /\ manager_caused[a] = 1
  BY DEF JudgeInv, ConsumeCalls, WaitingContinued, Manager!Consumed
<1>2. /\ manager_claim' = [manager_claim EXCEPT ![a] = IF @ = "CLAIMED" THEN "COMPLETED" ELSE @]
      /\ manager_waiting' = [manager_waiting EXCEPT ![u] = Manager!None]
      /\ UNCHANGED <<manager_attempt, manager_asked, manager_caused>>
  BY DEF Manager!Consumed
<1> HIDE DEF a
<1>3. JudgedRows' /\ ConsumeCalls' /\ ClaimFirst' /\ Manager!JudgedOnce'
  BY <1>1, <1>2 DEF JudgeInv, JudgedRows, ConsumeCalls, ClaimFirst, Manager!JudgedOnce, Manager!None
<1>4. WaitingContinued'
  BY <1>2 DEF JudgeInv, ConsumeCalls, WaitingContinued
<1>5. QED
  BY <1>2, <1>3, <1>4 DEF JudgeInv, AttemptFirst, Manager!JudgedOnce

\* Dying between claim and transition leaves the claim to no one.
LEMMA JudgeInvCrash ==
  ASSUME JudgeInv, NEW u \in manager_Consumers, NEW a \in manager_Accepts, Manager!CrashAfterClaim(u, a)
  PROVE  JudgeInv'
<1>1. /\ manager_claim[a] = Manager!None /\ manager_claim' = [manager_claim EXCEPT ![a] = "CLAIMED"]
      /\ manager_waiting' = [v \in manager_Consumers |-> Manager!None]
      /\ UNCHANGED <<manager_attempt, manager_asked, manager_caused>>
  BY DEF Manager!CrashAfterClaim, Manager!Consumable, Manager!Dies
<1>2. QED
  BY <1>1 DEF JudgeInv, JudgedRows, ConsumeCalls, AttemptFirst, ClaimFirst, WaitingContinued,
    Manager!JudgedOnce, Manager!None

LEMMA JudgeInvNext ==
  ASSUME JudgeInv, [Manager!Next]_managerVars, Manager!None \notin manager_Accepts
  PROVE  JudgeInv'
<1>1. CASE \E c \in manager_Askers, a \in manager_Accepts : Manager!Ask(c, a)
  BY <1>1, JudgeInvAsk
<1>2. CASE \E c \in manager_Askers, r \in Manager!Results : Manager!Answer(c, r)
  BY <1>2, JudgeInvUntouched DEF Manager!Answer
<1>3. CASE \E u \in manager_Consumers, a \in manager_Accepts : Manager!Consume(u, a)
  BY <1>3, JudgeInvConsume
<1>4. CASE \E u \in manager_Consumers, a \in manager_Accepts : Manager!CrashAfterClaim(u, a)
  BY <1>4, JudgeInvCrash
<1>5. CASE \E u \in manager_Consumers : Manager!Consumed(u)
  BY <1>5, JudgeInvConsumed
<1>6. CASE Manager!Crash
  BY <1>6, JudgeInvUntouched DEF Manager!Crash, Manager!Dies
<1>7. CASE Manager!Continue \/ Manager!Run
  BY <1>7, JudgeInvUntouched DEF Manager!Continue, Manager!Run, Manager!TaskMoves
<1>8. CASE Manager!CliEnds \/ Manager!Hold \/ Manager!Release
  BY <1>8, JudgeInvUntouched DEF Manager!CliEnds, Manager!Hold, Manager!Release
<1>9. CASE \E watchdog \in BOOLEAN : Manager!Stop(watchdog)
  BY <1>9, JudgeInvUntouched DEF Manager!Stop
<1>10. CASE UNCHANGED managerVars
  BY <1>10, JudgeInvUntouched DEF managerVars
<1>11. QED
  BY <1>1, <1>2, <1>3, <1>4, <1>5, <1>6, <1>7, <1>8, <1>9, <1>10 DEF Manager!Next

LEMMA JudgeInductive ==
  ASSUME Manager!None \notin manager_Accepts
  PROVE  ServicesSpec => [](focus = "manager" => JudgeInv)
<1> DEFINE Held == focus = "manager" => JudgeInv
<1>1. ServicesInit => Held
  BY JudgeInvInit DEF ServicesInit, On
<1>2. Held /\ [ServicesNext]_serviceVars => Held'
  BY FocusedStep, JudgeInvNext
<1>3. QED
  BY <1>1, <1>2, PTL DEF ServicesSpec

\* An acceptance id has at most one question to the manager and one continuation
\* of the Task, through concurrent callers, repeats and deaths between the rows
\* invoke and consume write and what they do.
THEOREM ServicesJudgeOnce ==
  ASSUME Manager!None \notin manager_Accepts
  PROVE  ServicesSpec => []JudgedOnce
<1> DEFINE Held == focus = "manager" => JudgeInv
<1>1. Held => JudgedOnce
  BY DEF JudgedOnce, JudgeInv
<1>2. QED
  BY <1>1, JudgeInductive, PTL

-----------------------------------------------------------------------------
(* The models of one agent.                                                *)

\* What the adapter selects is inductive but for one fact about the catalog: a
\* row has a level from its first report on.
ChoiceInv ==
  /\ Choice!TypeOK /\ Choice!ChoiceIsTrusted
  /\ \A m \in choice_Models :
       choice_entry[m].level = Choice!None => choice_entry[m] = Choice!NoEntry

LEMMA Ranks ==
  /\ Choice!Reported \cup {"UNAVAILABLE", "EXECUTION_VERIFIED"} \subseteq Choice!Levels
  /\ Choice!None \notin Choice!Levels
  /\ \A l \in Choice!Levels : Choice!Rank[l] \in Nat /\ (Choice!Rank[l] = 0 <=> l = "UNAVAILABLE")
BY DEF Choice!Reported, Choice!Levels, Choice!Rank, Choice!None

LEMMA ChoiceUpserts ==
  ASSUME ChoiceInv, NEW m \in choice_Models, NEW l \in Choice!Levels, Choice!Upsert(m, l)
  PROVE  ChoiceInv'
<1> USE Ranks DEF ChoiceInv, Choice!TypeOK, Choice!NoEntry
<1> DEFINE new == [level |-> Choice!Level(m, l), available |-> l # "UNAVAILABLE",
                   verified |-> Choice!Verified(m, l)]
<1>1. /\ Choice!Level(m, l) \in Choice!Levels
      /\ l # "UNAVAILABLE" => Choice!Level(m, l) # "UNAVAILABLE"
  BY DEF Choice!Level
<1>2. Choice!Verified(m, l) \in BOOLEAN
  BY DEF Choice!Verified
<1>3. /\ choice_entry' = [choice_entry EXCEPT ![m] = new]
      /\ UNCHANGED <<choice_prefers, choice_selected>>
  BY DEF Choice!Upsert
<1>4. choice_entry'[m] = new /\ \A n \in choice_Models \ {m} : choice_entry'[n] = choice_entry[n]
  BY <1>3
<1>5. new \in [level : Choice!Levels \cup {Choice!None}, available : BOOLEAN, verified : BOOLEAN]
  BY <1>1, <1>2
<1>6. Choice!TypeOK'
  BY <1>3, <1>5 DEF Choice!Upsert
<1>7. \A n \in choice_Models :
        choice_entry'[n].level = Choice!None => choice_entry'[n] = Choice!NoEntry
  <2>1. choice_entry'[m].level # Choice!None
    BY <1>1, <1>4
  <2> QED BY <1>4, <2>1
<1>8. ASSUME NEW n \in choice_Models, choice_entry'[n].verified
      PROVE  n \in choice_evidence' /\ choice_entry'[n].available /\ choice_entry'[n].level # "UNAVAILABLE"
  <2>1. CASE n = m
    BY <1>1, <1>4, <1>8, <2>1 DEF Choice!Upsert, Choice!Verified, Choice!ChoiceIsTrusted
  <2>2. CASE n # m
    BY <1>4, <1>8, <2>2 DEF Choice!Upsert, Choice!ChoiceIsTrusted
  <2> QED BY <2>1, <2>2
<1>9. (choice_selected # Choice!None => Choice!Usable(choice_selected) \/ choice_selected \in choice_gone)'
  BY <1>3, <1>4 DEF Choice!Upsert, Choice!Verified, Choice!Usable, Choice!ChoiceIsTrusted
<1> QED BY <1>3, <1>6, <1>7, <1>8, <1>9 DEF Choice!ChoiceIsTrusted

LEMMA ChoiceSteps ==
  ASSUME Choice!None \notin choice_Models
  PROVE  ChoiceInv /\ [Choice!Next]_choiceVars => ChoiceInv'
<1> SUFFICES ASSUME ChoiceInv, [Choice!Next]_choiceVars PROVE ChoiceInv'
  OBVIOUS
<1>1. CASE \E m \in choice_Models :
             \/ Choice!Executed(m) \/ Choice!Absent(m)
             \/ \E l \in Choice!Reported : Choice!Discover(m, l)
  BY <1>1, Ranks, ChoiceUpserts DEF Choice!Executed, Choice!Absent, Choice!Discover
<1> USE DEF ChoiceInv, Choice!TypeOK, Choice!ChoiceIsTrusted, Choice!Usable
<1>2. ASSUME NEW m \in choice_Models, Choice!SetModel(m) PROVE ChoiceInv'
  BY <1>2 DEF Choice!SetModel
<1>3. CASE Choice!ClearModel
  BY <1>3 DEF Choice!ClearModel, Choice!NoPreference
<1>4. CASE Choice!Restart
  BY <1>4 DEF Choice!Restart, Choice!Restorable
<1>5. CASE UNCHANGED choiceVars
  BY <1>5 DEF choiceVars
<1> QED BY <1>1, <1>2, <1>3, <1>4, <1>5 DEF Choice!Next

LEMMA ChoiceInductive ==
  ASSUME Choice!None \notin choice_Models
  PROVE  ServicesSpec => [](focus = "choice" => ChoiceInv)
<1> DEFINE Held == focus = "choice" => ChoiceInv
<1>1. ServicesInit => Held
  <2> SUFFICES ASSUME Choice!Init PROVE ChoiceInv
    BY DEF ServicesInit, On
  <2> USE DEF Choice!Init, Choice!NoEntry, Choice!NoPreference
  <2>1. Choice!TypeOK
    BY DEF Choice!TypeOK
  <2>2. Choice!ChoiceIsTrusted
    BY DEF Choice!ChoiceIsTrusted
  <2> QED BY <2>1, <2>2 DEF ChoiceInv
<1>2. Held /\ [ServicesNext]_serviceVars => Held'
  BY FocusedStep, ChoiceSteps
<1>3. QED
  BY <1>1, <1>2, PTL DEF ServicesSpec

\* The adapter runs the preferred model or none, and a model the catalog does not
\* vouch for only until the next start, for every number of models and every order
\* of discoveries, executions and reports of absence.
THEOREM ServicesTrustChoice ==
  ASSUME Choice!None \notin choice_Models
  PROVE  ServicesSpec => []ChoiceIsTrusted
<1> DEFINE Held == focus = "choice" => ChoiceInv
<1>1. Held => ChoiceIsTrusted
  BY DEF ChoiceIsTrusted, ChoiceInv
<1>2. QED
  BY <1>1, ChoiceInductive, PTL

-----------------------------------------------------------------------------
(* The lock of the runtime.                                                *)

LockAssumption ==
  /\ IsFiniteSet(lock_Starters)
  /\ Lock!Dead \notin lock_Starters /\ Lock!NoFile.by \notin lock_Starters

\* Until two starts have raced, the file tells who holds it or creates it, nobody
\* is about to unlink the record of a live runtime, and a second start is one that
\* such a record will refuse.
LockInv ==
  /\ Lock!TypeOK
  /\ ~lock_raced =>
       /\ \A p \in lock_Starters :
            /\ lock_pc[p] = "held" => lock_lock.by = p /\ lock_lock.written
            /\ lock_pc[p] = "created" => lock_lock.by = p /\ ~lock_lock.written
            /\ lock_pc[p] = "stale" => ~Lock!LiveRecord
       /\ \A p, q \in Lock!Starting : p # q => Lock!LiveRecord

\* Singleton counts with the operator of its own instance of FiniteSets.
LEMMA Counting == \A S : Lock!Cardinality(S) = Cardinality(S)
BY DEF Lock!Cardinality, Cardinality

LEMMA TwoOfASet ==
  ASSUME NEW S, IsFiniteSet(S), NEW p \in S, NEW q \in S, p # q
  PROVE  Cardinality(S) > 1
<1>1. IsFiniteSet({p}) /\ Cardinality({p}) = 1
  BY FS_Singleton
<1>2. Cardinality({p} \cup {q}) = 2
  BY <1>1, FS_AddElement
<1>3. Cardinality({p} \cup {q}) <= Cardinality(S)
  BY FS_Subset, {p} \cup {q} \subseteq S
<1>4. Cardinality(S) \in Nat
  BY FS_CardinalityType
<1> QED BY <1>2, <1>3, <1>4

LEMMA AtMostOne ==
  ASSUME NEW S, \A p, q \in S : p = q
  PROVE  Cardinality(S) <= 1
<1>1. CASE S = {}
  BY <1>1, FS_EmptySet
<1>2. ASSUME NEW p \in S PROVE Cardinality(S) <= 1
  BY FS_Singleton, S = {p}
<1> QED BY <1>1, <1>2

LEMMA LockSteps ==
  ASSUME LockAssumption
  PROVE  LockInv /\ [Lock!Next]_lockVars => LockInv'
<1> SUFFICES ASSUME LockInv, [Lock!Next]_lockVars PROVE LockInv'
  OBVIOUS
<1> USE LockAssumption DEF LockAssumption, Lock!NoFile, Lock!Dead
<1>1. CASE UNCHANGED lockVars
  BY <1>1 DEF lockVars, LockInv, Lock!TypeOK, Lock!Starting, Lock!LiveRecord
<1>2. ASSUME NEW p \in lock_Starters,
             \/ Lock!Start(p) \/ Lock!Open(p) \/ Lock!Write(p) \/ Lock!Read(p)
             \/ Lock!Unlink(p) \/ Lock!Stop(p) \/ Lock!Die(p),
             lock_raced' = (lock_raced \/ (Lock!Cardinality(Lock!Starting') > 1 /\ ~Lock!LiveRecord'))
      PROVE  LockInv'
  <2> USE DEF Lock!TypeOK, Lock!To, Lock!Released, Lock!Refused
  <2>1. Lock!TypeOK'
    <3>1. lock_raced' \in BOOLEAN
      BY <1>2 DEF LockInv, Lock!LiveRecord
    <3>2. /\ lock_pc' \in [lock_Starters -> {"off", "open", "created", "exists", "stale", "held"}]
          /\ lock_tries' \in [lock_Starters -> 0 .. 2]
      BY <1>2 DEF LockInv, Lock!Start, Lock!Open, Lock!Write, Lock!Read, Lock!Unlink, Lock!Stop, Lock!Die
    <3>3. lock_lock' \in [by : lock_Starters \cup {"dead", "none"}, written : BOOLEAN]
      <4>1. \/ UNCHANGED lock_lock \/ lock_lock' = [by |-> "none", written |-> FALSE]
            \/ lock_lock' = [by |-> p, written |-> FALSE]
            \/ lock_lock' = [lock_lock EXCEPT !.written = TRUE]
            \/ lock_lock' = [lock_lock EXCEPT !.by = "dead"]
        BY <1>2 DEF Lock!Start, Lock!Open, Lock!Write, Lock!Read, Lock!Unlink, Lock!Stop, Lock!Die
      <4>2. lock_lock.by \in lock_Starters \cup {"dead", "none"} /\ lock_lock.written \in BOOLEAN
        BY DEF LockInv
      <4>3. \E by \in lock_Starters \cup {"dead", "none"}, written \in BOOLEAN :
              lock_lock' = [by |-> by, written |-> written]
        BY <4>1, <4>2 DEF LockInv
      <4> QED BY <4>3
    <3> QED BY <3>1, <3>2, <3>3
  <2> SUFFICES ASSUME ~lock_raced'
               PROVE  /\ \A q \in lock_Starters :
                           /\ lock_pc'[q] = "held" => lock_lock'.by = q /\ lock_lock'.written
                           /\ lock_pc'[q] = "created" => lock_lock'.by = q /\ ~lock_lock'.written
                           /\ lock_pc'[q] = "stale" => ~Lock!LiveRecord'
                      /\ \A q, r \in Lock!Starting' : q # r => Lock!LiveRecord'
    BY <2>1 DEF LockInv
  <2>2. ~lock_raced
    BY <1>2 DEF LockInv
  <2>3. ASSUME NEW q \in Lock!Starting', NEW r \in Lock!Starting', q # r PROVE Lock!LiveRecord'
    <3>1. IsFiniteSet(Lock!Starting')
      BY FS_Subset DEF Lock!Starting
    <3>2. Cardinality(Lock!Starting') > 1
      BY <2>3, <3>1, TwoOfASet
    <3> QED BY <1>2, <3>2, Counting
  <2>4. ASSUME NEW q \in lock_Starters
        PROVE  /\ lock_pc'[q] = "held" => lock_lock'.by = q /\ lock_lock'.written
               /\ lock_pc'[q] = "created" => lock_lock'.by = q /\ ~lock_lock'.written
               /\ lock_pc'[q] = "stale" => ~Lock!LiveRecord'
    <3> USE <2>2, <2>3 DEF LockInv, Lock!Starting, Lock!LiveRecord
    <3>1. CASE Lock!Start(p)
      BY <3>1 DEF Lock!Start
    <3>2. CASE Lock!Open(p)
      BY <3>2 DEF Lock!Open
    <3>3. CASE Lock!Write(p)
      BY <3>3 DEF Lock!Write
    <3>4. CASE Lock!Read(p)
      BY <3>4 DEF Lock!Read
    <3>5. CASE Lock!Unlink(p)
      BY <3>5 DEF Lock!Unlink
    <3>6. CASE Lock!Stop(p)
      BY <3>6 DEF Lock!Stop
    <3>7. CASE Lock!Die(p)
      BY <3>7 DEF Lock!Die
    <3> QED BY <1>2, <3>1, <3>2, <3>3, <3>4, <3>5, <3>6, <3>7
  <2> QED BY <2>3, <2>4
<1> QED BY <1>1, <1>2 DEF Lock!Next

LEMMA LockInductive ==
  ASSUME LockAssumption
  PROVE  ServicesSpec => [](focus = "lock" => LockInv)
<1> DEFINE Held == focus = "lock" => LockInv
<1>1. ServicesInit => Held
  <2> SUFFICES ASSUME Lock!Init PROVE LockInv
    BY DEF ServicesInit, On
  <2> USE DEF Lock!Init
  <2>1. Lock!TypeOK
    <3>1. Lock!NoFile \in [by : lock_Starters \cup {Lock!Dead, "none"}, written : BOOLEAN]
      BY DEF Lock!NoFile
    <3>2. /\ lock_pc \in [lock_Starters -> {"off", "open", "created", "exists", "stale", "held"}]
          /\ lock_tries \in [lock_Starters -> 0 .. 2]
      OBVIOUS
    <3>3. lock_raced \in BOOLEAN
      OBVIOUS
    <3> QED BY <3>1, <3>2, <3>3 DEF Lock!TypeOK
  <2>2. Lock!Starting = {}
    BY DEF Lock!Starting
  <2> QED BY <2>1, <2>2 DEF LockInv
<1>2. Held /\ [ServicesNext]_serviceVars => Held'
  BY FocusedStep, LockSteps
<1>3. QED
  BY <1>1, <1>2, PTL DEF ServicesSpec

\* However runtimes start, stop and die between any two file operations, at most
\* one holds the lock, as long as no two starts overlapped with no live runtime
\* on record.
THEOREM ServicesRunOnce ==
  ASSUME LockAssumption
  PROVE  ServicesSpec => []OneRuntime
<1> DEFINE Held == focus = "lock" => LockInv
<1>1. Held => OneRuntime
  <2> SUFFICES ASSUME LockInv, ~lock_raced
               PROVE  Lock!Cardinality({p \in lock_Starters : lock_pc[p] = "held"}) <= 1
    BY DEF OneRuntime, Lock!OneRuntime, LockInv
  <2>1. \A p, q \in {r \in lock_Starters : lock_pc[r] = "held"} : p = q
    BY DEF LockInv
  <2> QED BY <2>1, AtMostOne, Counting
<1>2. QED
  BY <1>1, LockInductive, PTL

-----------------------------------------------------------------------------
(* What is left for people.                                                *)

\* The ledger is inductive once a row has its anomaly and its status from the
\* start, and open rows of one anomaly are one row.
OfficeInv ==
  /\ Office!TypeOK
  /\ \A e \in office_Events : office_event[e].of = Office!None => office_event[e] = Office!NoRow
  /\ \A f \in office_Anomalies :
       /\ \A e1, e2 \in Office!OpenRows(f) : e1 = e2
       /\ f \in office_owed => Office!OpenRows(f) # {}
       /\ office_triage[f] # Office!None => office_backlog[f] = office_triage[f]

LEMMA CountingRows == \A S : Office!Cardinality(S) = Cardinality(S)
BY DEF Office!Cardinality, Cardinality

LEMMA RowStatuses ==
  Office!None \notin Office!Open \cup Office!Closed \cup Office!Triage /\ "OPEN" \in Office!Triage
  /\ "OPEN" \in Office!Open /\ Office!Open \cap Office!Closed = {}
BY DEF Office!None, Office!Open, Office!Closed, Office!Triage

LEMMA OfficeSteps ==
  ASSUME office_MaxTriage \in Nat, Office!None \notin office_Anomalies
  PROVE  OfficeInv /\ [Office!Next]_officeVars => OfficeInv'
<1> SUFFICES ASSUME OfficeInv, [Office!Next]_officeVars PROVE OfficeInv'
  OBVIOUS
<1> USE RowStatuses DEF OfficeInv, Office!TypeOK, Office!NoRow, Office!OpenRows
<1>1. ASSUME NEW f \in office_Anomalies, Office!Records(f) PROVE OfficeInv'
  <2>1. CASE Office!Known(f)
    BY <1>1, <2>1 DEF Office!Records, Office!Recorded, Office!Known
  <2>2. ASSUME NEW e \in office_Events, ~Office!Known(f), office_event[e] = Office!NoRow,
               office_event' = [office_event EXCEPT ![e] = [of |-> f, status |-> "OPEN"]]
        PROVE  OfficeInv'
    <3>1. Office!OpenRows(f) = {}
      BY <2>2 DEF Office!Known
    <3>2. /\ office_event'[e] = [of |-> f, status |-> "OPEN"]
          /\ \A e1 \in office_Events \ {e} : office_event'[e1] = office_event[e1]
      BY <2>2
    <3>3. Office!OpenRows(f)' = {e}
      BY <3>1, <3>2
    <3>4. \A g \in office_Anomalies \ {f} : Office!OpenRows(g)' = Office!OpenRows(g)
      BY <2>2, <3>2
    <3>5. UNCHANGED <<office_wrong, office_backlog, office_reading, office_triage, office_triages>>
          /\ office_owed' = office_owed \cup {f}
      BY <1>1 DEF Office!Records
    <3>6. Office!TypeOK'
      BY <2>2, <3>5
    <3>7. (\A e1 \in office_Events : office_event[e1].of = Office!None => office_event[e1] = Office!NoRow)'
      BY <2>2, <3>2
    <3>8. ASSUME NEW g \in office_Anomalies
          PROVE  /\ \A e1, e2 \in Office!OpenRows(g)' : e1 = e2
                 /\ g \in office_owed' => Office!OpenRows(g)' # {}
      BY <3>3, <3>4, <3>5
    <3> QED BY <3>5, <3>6, <3>7, <3>8
  <2> QED BY <1>1, <2>1, <2>2 DEF Office!Records, Office!Recorded
<1>2. ASSUME NEW e \in office_Events, NEW status \in Office!Open \cup Office!Closed,
             Office!UpdateStatus(e, status)
      PROVE  OfficeInv'
  <2> DEFINE f == office_event[e].of
  <2>1. f \in office_Anomalies
    BY <1>2 DEF Office!UpdateStatus
  <2>2. /\ office_event'[e] = [of |-> f, status |-> status]
        /\ \A e1 \in office_Events \ {e} : office_event'[e1] = office_event[e1]
        /\ UNCHANGED <<office_wrong, office_backlog, office_reading, office_triage, office_triages>>
    BY <1>2 DEF Office!UpdateStatus
  <2>3. Office!TypeOK'
    BY <1>2, <2>1, <2>2 DEF Office!UpdateStatus
  <2>4. (\A e1 \in office_Events : office_event[e1].of = Office!None => office_event[e1] = Office!NoRow)'
    BY <2>1, <2>2
  <2>5. \A g \in office_Anomalies \ {f} : Office!OpenRows(g)' = Office!OpenRows(g)
    BY <2>2
  <2>6. CASE status \in Office!Open
    <3>1. Office!OpenRows(f)' = {e} /\ office_owed' = office_owed \cup {f}
      BY <1>2, <2>2, <2>6 DEF Office!UpdateStatus
    <3> QED BY <2>1, <2>2, <2>3, <2>4, <2>5, <2>6, <3>1
  <2>7. CASE status \in Office!Closed
    <3>1. Office!OpenRows(f)' = Office!OpenRows(f) \ {e}
      BY <2>2, <2>7
    <3>2. office_owed' = IF e \in Office!OpenRows(f) THEN office_owed \ {f} ELSE office_owed
      BY <1>2, <2>7 DEF Office!UpdateStatus
    <3> QED BY <2>1, <2>2, <2>3, <2>4, <2>5, <3>1, <3>2
  <2> QED BY <2>6, <2>7
<1>3. ASSUME NEW f \in office_Anomalies,
             \/ Office!Appears(f) \/ Office!Passes(f) \/ Office!Finds(f) \/ Office!Upserts(f)
             \/ \E status \in Office!Triage : Office!SetStatus(f, status)
      PROVE  OfficeInv'
  <2>1. CASE Office!Appears(f) \/ Office!Passes(f)
    BY <2>1 DEF Office!Appears, Office!Passes
  <2>2. CASE Office!Finds(f)
    BY <2>2 DEF Office!Finds
  <2>3. CASE Office!Upserts(f)
    <3>1. /\ office_backlog' = [office_backlog EXCEPT ![f] = Office!Upserted(f)]
          /\ office_reading' = [office_reading EXCEPT !.at = Office!None, !.found = Office!None]
          /\ UNCHANGED <<office_event, office_wrong, office_owed, office_triage, office_triages>>
      BY <2>3 DEF Office!Upserts
    <3>2. Office!Upserted(f) \in Office!Triage
          /\ (office_triage[f] # Office!None => Office!Upserted(f) = office_triage[f])
      BY DEF Office!Upserted
    <3>3. Office!TypeOK'
      BY <3>1, <3>2
    <3> QED BY <3>1, <3>2, <3>3
  <2>4. CASE \E status \in Office!Triage : Office!SetStatus(f, status)
    BY <2>4 DEF Office!SetStatus
  <2> QED BY <1>3, <2>1, <2>2, <2>3, <2>4
<1>4. CASE Office!Recompute
  BY <1>4 DEF Office!Recompute, Office!NotReading
<1>5. CASE UNCHANGED officeVars
  BY <1>5 DEF officeVars
<1> QED BY <1>1, <1>2, <1>3, <1>4, <1>5 DEF Office!Next

LEMMA OfficeInductive ==
  ASSUME office_MaxTriage \in Nat, Office!None \notin office_Anomalies
  PROVE  ServicesSpec => [](focus = "office" => OfficeInv)
<1> DEFINE Held == focus = "office" => OfficeInv
<1>1. ServicesInit => Held
  <2> SUFFICES ASSUME Office!Init PROVE OfficeInv
    BY DEF ServicesInit, On
  <2> USE RowStatuses DEF Office!Init, Office!NoRow, Office!NotReading
  <2>1. Office!TypeOK
    BY DEF Office!TypeOK
  <2>2. \A f \in office_Anomalies : Office!OpenRows(f) = {}
    BY DEF Office!OpenRows
  <2> QED BY <2>1, <2>2 DEF OfficeInv
<1>2. Held /\ [ServicesNext]_serviceVars => Held'
  BY FocusedStep, OfficeSteps
<1>3. QED
  BY <1>1, <1>2, PTL DEF ServicesSpec

\* An anomaly that was seen and not closed since has exactly one open event, and a
\* triage decision outlives every recompute, for every number of rows, anomalies
\* and decisions.
THEOREM ServicesKeepLedger ==
  ASSUME office_MaxTriage \in Nat, Office!None \notin office_Anomalies
  PROVE  ServicesSpec => []LedgerKept
<1> DEFINE Held == focus = "office" => OfficeInv
<1>1. Held => LedgerKept
  BY AtMostOne, CountingRows DEF LedgerKept, Office!LedgerKept, OfficeInv
<1>2. QED
  BY <1>1, OfficeInductive, PTL

-----------------------------------------------------------------------------
(* Free models.                                                            *)

FreeAssumption ==
  fallback_Free \in fallback_Models /\ fallback_MaxRuns \in Nat /\ pool_MaxAttempts \in Nat

\* For each Task and model that failed, a fallback run beyond those cut off is
\* one that is under way or has its row.
FallbackInv ==
  /\ Fallback!TypeOK
  /\ \A t \in fallback_Tasks, m \in fallback_Models :
       /\ fallback_tried[<<t, m>>] <= 1 + fallback_cut[<<t, m>>]
       /\ \/ <<t, m>> \in fallback_fell
          \/ fallback_call[t] = [at |-> "fallback", original |-> m]
          \/ fallback_tried[<<t, m>>] <= fallback_cut[<<t, m>>]

\* A call of execute tries the free model, or is over.
LEMMA FallbackTries ==
  ASSUME FreeAssumption, FallbackInv,
         NEW t \in fallback_Tasks, NEW original \in fallback_Models, NEW cool \in SUBSET fallback_Models,
         Fallback!TryFree(t, original, cool), fallback_call[t].at # "fallback",
         fallback_cooling' \in SUBSET fallback_Models, fallback_asked' \in [fallback_Tasks -> fallback_Models],
         UNCHANGED <<fallback_verified, fallback_fell, fallback_cut>>
  PROVE  FallbackInv'
<1> USE DEF FreeAssumption, FallbackInv, Fallback!TypeOK
<1>1. CASE Fallback!Eligible(t, original, cool)
  <2>1. /\ fallback_runs[t] < fallback_MaxRuns
        /\ fallback_runs' = [fallback_runs EXCEPT ![t] = fallback_runs[t] + 1]
        /\ fallback_call' = [fallback_call EXCEPT ![t] = [at |-> "fallback", original |-> original]]
        /\ fallback_tried' = [fallback_tried EXCEPT ![<<t, original>>] = fallback_tried[<<t, original>>] + 1]
        /\ <<t, original>> \notin fallback_fell
    BY <1>1 DEF Fallback!TryFree, Fallback!RunsCli, Fallback!Eligible
  <2>2. Fallback!TypeOK'
    BY <2>1
  <2>3. fallback_tried[<<t, original>>] <= fallback_cut[<<t, original>>]
    BY <2>1
  <2>4. ASSUME NEW u \in fallback_Tasks, NEW m \in fallback_Models, u # t \/ m # original
        PROVE  /\ fallback_tried'[<<u, m>>] = fallback_tried[<<u, m>>]
               /\ u # t => fallback_call'[u] = fallback_call[u]
    <3>1. <<u, m>> # <<t, original>>
      BY <2>4
    <3> QED BY <2>1, <3>1
  <2>5. /\ fallback_tried'[<<t, original>>] = fallback_tried[<<t, original>>] + 1
        /\ fallback_call'[t] = [at |-> "fallback", original |-> original]
    BY <2>1
  <2>6. \A m \in fallback_Models : fallback_call[t] # [at |-> "fallback", original |-> m]
    OBVIOUS
  <2>7. ASSUME NEW u \in fallback_Tasks, NEW m \in fallback_Models
        PROVE  /\ fallback_tried'[<<u, m>>] <= 1 + fallback_cut'[<<u, m>>]
               /\ \/ <<u, m>> \in fallback_fell'
                  \/ fallback_call'[u] = [at |-> "fallback", original |-> m]
                  \/ fallback_tried'[<<u, m>>] <= fallback_cut'[<<u, m>>]
    <3>0. <<u, m>> \in fallback_Tasks \X fallback_Models
      OBVIOUS
    <3>1. CASE u = t /\ m = original
      BY <2>3, <2>5, <3>0, <3>1
    <3>2. CASE u = t /\ m # original
      BY <2>4, <2>6, <3>0, <3>2
    <3>3. CASE u # t
      BY <2>4, <3>0, <3>3
    <3> QED BY <3>1, <3>2, <3>3
  <2> QED BY <2>2, <2>7
<1>2. CASE ~Fallback!Eligible(t, original, cool)
  <2>1. /\ fallback_call' = [fallback_call EXCEPT ![t] = Fallback!Idle]
        /\ UNCHANGED <<fallback_runs, fallback_tried>>
    BY <1>2 DEF Fallback!TryFree, Fallback!Over
  <2>2. Fallback!TypeOK'
    BY <2>1 DEF Fallback!Idle
  <2>3. \A m \in fallback_Models : fallback_call[t] # [at |-> "fallback", original |-> m]
    OBVIOUS
  <2> QED BY <2>1, <2>2, <2>3
<1> QED BY <1>1, <1>2

LEMMA FallbackSteps ==
  ASSUME FreeAssumption
  PROVE  FallbackInv /\ [Fallback!Next]_fallbackVars => FallbackInv'
<1> SUFFICES ASSUME FallbackInv, [Fallback!Next]_fallbackVars PROVE FallbackInv'
  OBVIOUS
<1> USE DEF FreeAssumption, FallbackInv, Fallback!TypeOK, Fallback!Idle
<1>1. ASSUME NEW t \in fallback_Tasks, NEW m \in fallback_Models, Fallback!Execute(t, m)
      PROVE  FallbackInv'
  <2>1. CASE m \in fallback_cooling
    <3>1. fallback_asked' \in [fallback_Tasks -> fallback_Models]
      BY <1>1 DEF Fallback!Execute
    <3> QED BY <1>1, <2>1, <3>1, FallbackTries DEF Fallback!Execute
  <2>2. CASE m \notin fallback_cooling
    <3>1. /\ fallback_runs[t] < fallback_MaxRuns
          /\ fallback_runs' = [fallback_runs EXCEPT ![t] = fallback_runs[t] + 1]
          /\ fallback_call' = [fallback_call EXCEPT ![t] = [at |-> "primary", original |-> m]]
          /\ fallback_asked' = [fallback_asked EXCEPT ![t] = m]
          /\ UNCHANGED <<fallback_cooling, fallback_verified, fallback_fell, fallback_tried, fallback_cut>>
      BY <1>1, <2>2 DEF Fallback!Execute, Fallback!RunsCli
    <3>2. Fallback!TypeOK'
      BY <3>1
    <3>3. \A n \in fallback_Models : fallback_call[t] # [at |-> "fallback", original |-> n]
      BY <1>1 DEF Fallback!Execute
    <3> QED BY <3>1, <3>2, <3>3
  <2> QED BY <2>1, <2>2
<1>2. ASSUME NEW t \in fallback_Tasks, NEW m \in fallback_Models, Fallback!Unavailable(t, m)
      PROVE  FallbackInv'
  BY <1>2, FallbackTries DEF Fallback!Unavailable
<1>3. ASSUME NEW t \in fallback_Tasks, NEW u \in {{}} \cup {{m} : m \in fallback_Models},
             Fallback!FellBack(t, u)
      PROVE  FallbackInv'
  BY <1>3 DEF Fallback!FellBack, Fallback!Over, Fallback!Recorded
<1>4. ASSUME NEW t \in fallback_Tasks, Fallback!Settled(t) PROVE FallbackInv'
  BY <1>4 DEF Fallback!Settled, Fallback!Over
<1>5. ASSUME NEW t \in fallback_Tasks, Fallback!Throws(t) PROVE FallbackInv'
  BY <1>5 DEF Fallback!Throws, Fallback!Over, Fallback!Lost
<1>6. CASE Fallback!Crash
  BY <1>6 DEF Fallback!Crash
<1>7. ASSUME NEW m \in fallback_Models, Fallback!Cooled(m) PROVE FallbackInv'
  BY <1>7 DEF Fallback!Cooled
<1>8. CASE Fallback!Catalog \/ UNCHANGED fallbackVars
  BY <1>8 DEF Fallback!Catalog, fallbackVars
<1> QED BY <1>1, <1>2, <1>3, <1>4, <1>5, <1>6, <1>7, <1>8 DEF Fallback!Next

\* Within its attempts is inductive as it stands.
PoolInv == Pool!TypeOK /\ Pool!AskedWithinAttempts

LEMMA PoolSteps ==
  ASSUME FreeAssumption
  PROVE  PoolInv /\ [Pool!Next]_poolVars => PoolInv'
<1> SUFFICES ASSUME PoolInv, [Pool!Next]_poolVars PROVE PoolInv'
  OBVIOUS
<1> USE DEF FreeAssumption, PoolInv, Pool!TypeOK, Pool!AskedWithinAttempts, Pool!Begun, Pool!Probing, Pool!Idle,
            Pool!Results
<1>1. CASE Pool!Register
  BY <1>1 DEF Pool!Register, Pool!KeptAttempts
<1>2. CASE Pool!ProgramBegins
  <2>1. /\ pool_state' = [pool_state EXCEPT ![pool_program.at] = "PROBING"]
        /\ pool_attempts' = [pool_attempts EXCEPT ![pool_program.at] = pool_attempts[pool_program.at] + 1]
        /\ pool_program' = [pool_program EXCEPT !.begins = FALSE]
        /\ UNCHANGED <<pool_todo, pool_probing, pool_asked>>
    BY <1>2 DEF Pool!ProgramBegins
  <2>2. CASE pool_program.at \in pool_Models
    <3>1. pool_state' \in [pool_Models -> {Pool!None, "UNKNOWN", Pool!Probing} \cup Pool!Results]
      BY <2>1, <2>2
    <3>2. /\ pool_attempts' \in [pool_Models -> Nat]
          /\ \A m \in pool_Models : pool_asked[m] <= pool_attempts'[m]
      BY <2>1, <2>2
    <3>3. pool_program' \in [at : pool_Models \cup {Pool!None}, begins : BOOLEAN]
      BY <2>1
    <3> QED BY <2>1, <3>1, <3>2, <3>3
  <2>3. CASE pool_program.at \notin pool_Models
    <3>1. UNCHANGED <<pool_state, pool_attempts>>
      BY <2>1, <2>3
    <3> QED BY <2>1, <3>1
  <2> QED BY <2>2, <2>3
<1>3. ASSUME NEW m \in pool_Models, Pool!ProgramReads(m) PROVE PoolInv'
  BY <1>3 DEF Pool!ProgramReads, Pool!Beginnable
<1>4. ASSUME NEW result \in Pool!Results, Pool!ProgramRecords(result) PROVE PoolInv'
  BY <1>4 DEF Pool!ProgramRecords
<1>5. ASSUME NEW result \in Pool!Results, NEW r \in pool_Runs, Pool!Record(r, result) PROVE PoolInv'
  BY <1>5 DEF Pool!Record
<1>6. ASSUME NEW r \in pool_Runs, Pool!ProbeRegistered(r) PROVE PoolInv'
  BY <1>6 DEF Pool!ProbeRegistered
<1>7. ASSUME NEW r \in pool_Runs, NEW m \in pool_Models, Pool!Visit(r, m) PROVE PoolInv'
  BY <1>7 DEF Pool!Visit, Pool!Beginnable
<1>8. CASE Pool!Crash
  BY <1>8 DEF Pool!Crash
<1>9. CASE Pool!ProgramDies \/ UNCHANGED poolVars
  <2>1. Pool!Idle \in [at : pool_Models \cup {Pool!None}, begins : BOOLEAN]
    OBVIOUS
  <2>2. \/ pool_program' = Pool!Idle \/ UNCHANGED pool_program
    BY <1>9 DEF Pool!ProgramDies, poolVars
  <2>3. UNCHANGED <<pool_state, pool_attempts, pool_todo, pool_probing, pool_asked>>
    BY <1>9 DEF Pool!ProgramDies, poolVars
  <2> QED BY <2>1, <2>2, <2>3
<1> QED BY <1>1, <1>2, <1>3, <1>4, <1>5, <1>6, <1>7, <1>8, <1>9 DEF Pool!Next

LEMMA FreeInductive ==
  ASSUME FreeAssumption
  PROVE  ServicesSpec => []((focus = "fallback" => FallbackInv) /\ (focus = "pool" => PoolInv))
<1> DEFINE Held == (focus = "fallback" => FallbackInv) /\ (focus = "pool" => PoolInv)
<1>1. ServicesInit => Held
  <2>1. Fallback!Init => FallbackInv
    BY DEF FreeAssumption, Fallback!Init, FallbackInv, Fallback!TypeOK, Fallback!Idle
  <2>2. Pool!Init => PoolInv
    BY DEF FreeAssumption, Pool!Init, PoolInv, Pool!TypeOK, Pool!AskedWithinAttempts, Pool!Idle
  <2> QED BY <2>1, <2>2 DEF ServicesInit, On
<1>2. Held /\ [ServicesNext]_serviceVars => Held'
  BY FocusedStep, FallbackSteps, PoolSteps
<1>3. QED
  BY <1>1, <1>2, PTL DEF ServicesSpec

\* A model that failed is replaced by the free one once for each Task, but for runs
\* that were cut off, and a free model is probed within its attempts, for every
\* number of Tasks, models, concurrent calls and restarts.
THEOREM ServicesBoundFreeModels ==
  ASSUME FreeAssumption
  PROVE  ServicesSpec => []FreeModelsBounded
<1> DEFINE Held == (focus = "fallback" => FallbackInv) /\ (focus = "pool" => PoolInv)
<1>1. Held => FreeModelsBounded
  <2>1. FallbackInv => Fallback!FallbackOnce
    <3> SUFFICES ASSUME FallbackInv, NEW a \in fallback_Tasks \X fallback_Models
                 PROVE  fallback_tried[a] <= 1 + fallback_cut[a]
      BY DEF Fallback!FallbackOnce
    <3>1. PICK t \in fallback_Tasks, m \in fallback_Models : a = <<t, m>>
      OBVIOUS
    <3> QED BY <3>1 DEF FallbackInv
  <2> QED BY <2>1 DEF FreeModelsBounded, PoolInv
<1>2. QED
  BY <1>1, FreeInductive, PTL

-----------------------------------------------------------------------------
(* A discussion topic.                                                     *)

TalkAssumption == talk_MaxRounds \in Nat /\ talk_Spoken \cap talk_Heard = {}

\* The row of a topic is as far as the furthest of its remarks, a remark on its
\* way or back has its row, and a posted one was posted.
TalkInv ==
  /\ Talk!TypeOK /\ Talk!TopicIsTrue
  /\ \A r \in Talk!Remarks :
       /\ talk_event[r].round <= talk_topic.round
       /\ talk_event[r].state = "none" => talk_event[r] = Talk!NoEvent
  /\ \A r \in talk_Spoken :
       /\ talk_call[r] \in {"emit", "posted"} \/ r \in talk_wire => talk_event[r].state # "none"
       /\ talk_call[r] = "posted" \/ r \in talk_wire => r \in talk_posted
       /\ talk_call[r] = "handed" => talk_report

\* A step that keeps every round keeps the rounds apart.
LEMMA TalkSteps ==
  ASSUME TalkAssumption
  PROVE  TalkInv /\ [Talk!Next]_talkVars => TalkInv'
<1> SUFFICES ASSUME TalkInv, [Talk!Next]_talkVars PROVE TalkInv'
  OBVIOUS
<1> USE DEF TalkAssumption, TalkInv, Talk!TypeOK, Talk!TopicIsTrue, Talk!NoEvent, Talk!Remarks, Talk!At
<1>1. ASSUME NEW r \in talk_Spoken, Talk!Say(r) PROVE TalkInv'
  <2>1. /\ talk_event[r] = Talk!NoEvent /\ talk_topic.round < talk_MaxRounds
        /\ talk_event' = [talk_event EXCEPT ![r] = [round |-> talk_topic.round + 1, state |-> "CREATED"]]
        /\ talk_topic' = [status |-> talk_topic.status, round |-> talk_topic.round + 1]
        /\ talk_call' = [talk_call EXCEPT ![r] = "emit"]
        /\ UNCHANGED <<talk_wire, talk_posted, talk_report>>
    BY <1>1 DEF Talk!Say, Talk!MayDiscuss, Talk!Added, Talk!Furthest
  <2>2. Talk!TypeOK'
    BY <2>1
  <2>3. Talk!TopicIsTrue'
    BY <2>1
  <2> QED BY <2>1, <2>2, <2>3
<1>2. ASSUME NEW r \in talk_Spoken, Talk!LimitReached(r) PROVE TalkInv'
  BY <1>2 DEF Talk!LimitReached, Talk!Closed
<1>3. ASSUME NEW r \in talk_Spoken, Talk!Post(r) PROVE TalkInv'
  BY <1>3 DEF Talk!Post
<1>4. ASSUME NEW r \in talk_Spoken, Talk!Emitted(r) PROVE TalkInv'
  BY <1>4 DEF Talk!Emitted, Talk!ClosedBy, Talk!Closed
<1>5. ASSUME NEW r \in talk_Spoken, Talk!Hand(r) PROVE TalkInv'
  BY <1>5 DEF Talk!Hand
<1>6. ASSUME NEW r \in talk_Spoken, Talk!Escalated(r) PROVE TalkInv'
  BY <1>6 DEF Talk!Escalated, Talk!Closed
<1>7. ASSUME NEW r \in talk_Spoken, Talk!EmitFails(r) PROVE TalkInv'
  BY <1>7 DEF Talk!EmitFails
<1>8. ASSUME NEW r \in talk_Spoken, Talk!Returns(r) PROVE TalkInv'
  BY <1>8 DEF Talk!Returns, Talk!ClosedBy, Talk!Closed
<1>9. ASSUME NEW r \in talk_Heard, NEW round \in 0 .. talk_MaxRounds, Talk!Arrives(r, round) PROVE TalkInv'
  BY <1>9 DEF Talk!Arrives, Talk!Added, Talk!Furthest
<1>10. CASE Talk!Crash
  BY <1>10 DEF Talk!Crash
<1>11. CASE UNCHANGED talkVars
  BY <1>11 DEF talkVars
<1> QED BY <1>1, <1>2, <1>3, <1>4, <1>5, <1>6, <1>7, <1>8, <1>9, <1>10, <1>11 DEF Talk!Next

LEMMA TalkInductive ==
  ASSUME TalkAssumption
  PROVE  ServicesSpec => [](focus = "talk" => TalkInv)
<1> DEFINE Held == focus = "talk" => TalkInv
<1>1. ServicesInit => Held
  <2> SUFFICES ASSUME Talk!Init PROVE TalkInv
    BY DEF ServicesInit, On
  <2> USE DEF TalkAssumption, Talk!Init, Talk!NoEvent, Talk!Remarks
  <2>1. Talk!TypeOK
    <3>1. /\ talk_topic \in [status : {"ACTIVE", "CONSENSUS", "LIMIT_REACHED", "ESCALATED"},
                            round : 0 .. talk_MaxRounds]
          /\ talk_event \in [talk_Spoken \cup talk_Heard ->
               [round : 0 .. talk_MaxRounds, state : {"none", "CREATED", "SENT", "PROCESSED"}]]
      OBVIOUS
    <3>2. talk_call \in [talk_Spoken -> {"idle", "emit", "posted", "handoff", "handed"}]
      OBVIOUS
    <3> QED BY <3>1, <3>2 DEF Talk!TypeOK
  <2> QED BY <2>1 DEF TalkInv, Talk!TopicIsTrue
<1>2. Held /\ [ServicesNext]_serviceVars => Held'
  BY FocusedStep, TalkSteps
<1>3. QED
  BY <1>1, <1>2, PTL DEF ServicesSpec

\* A topic is closed only by what the channel has seen, and every remark made here
\* has a round of its own, for every number of remarks and rounds and every order
\* of calls, returns and arrivals.
THEOREM ServicesTellTopics ==
  ASSUME TalkAssumption
  PROVE  ServicesSpec => []TopicIsTrue
<1> DEFINE Held == focus = "talk" => TalkInv
<1>1. Held => TopicIsTrue
  BY DEF TopicIsTrue, TalkInv
<1>2. QED
  BY <1>1, TalkInductive, PTL

-----------------------------------------------------------------------------
(* Fragments of inbound envelopes.                                         *)

BufferAssumption ==
  IsFiniteSet(frag_Envelopes) /\ frag_Parts \in Nat \ {0} /\ frag_Ttl \in Nat /\ frag_MaxSets \in Nat

\* A set is of the payload its id names, and one that is whole holds all of it.
Filling(e, set) ==
  \/ set = Buffer!NoSet
  \/ /\ set \in Buffer!Sets /\ set.digest = e
     /\ set.whole => \A i \in Buffer!Indices : set.chunks[i] = Buffer!Chunk(e, i)

OpenSets == {e \in frag_Envelopes : frag_sets[e] # Buffer!NoSet}

BufferInv ==
  /\ Buffer!TypeOK
  /\ \A e \in frag_Envelopes : Filling(e, frag_sets[e])

LEMMA CountingSets == \A S : Buffer!Cardinality(S) = Cardinality(S)
BY DEF Buffer!Cardinality, Cardinality

LEMMA NoSetIsNoSet ==
  ASSUME BufferAssumption, NEW set \in Buffer!Sets
  PROVE  set # Buffer!NoSet
BY DEF BufferAssumption, Buffer!Sets, Buffer!NoSet

\* A message that carries a fragment, damaged or not.
LEMMA WireFragments ==
  ASSUME BufferAssumption, NEW f \in Buffer!Wire
  PROVE  /\ f.id \in frag_Envelopes /\ f.digest = f.id
         /\ f.index \in Buffer!Indices /\ f.total = frag_Parts /\ f.author \in frag_Bots
         /\ f.chunk \in Buffer!Chunks
BY DEF Buffer!Wire, Buffer!Built, Buffer!Chunks, Buffer!Chunk

\* One more chunk leaves a set of the same payload.
LEMMA WithFills ==
  ASSUME BufferAssumption, NEW f \in Buffer!Wire, NEW set \in Buffer!Sets, set.digest = f.id, ~set.whole
  PROVE  LET new == Buffer!With(set, f) IN
           /\ new \in Buffer!Sets /\ new.digest = f.id /\ ~new.whole
<1>1. set.chunks \in [Buffer!Indices -> Buffer!Chunks \cup {Buffer!Missing}]
  BY DEF Buffer!Sets
<1>2. [set.chunks EXCEPT ![f.index] = f.chunk] \in [Buffer!Indices -> Buffer!Chunks \cup {Buffer!Missing}]
  BY <1>1, WireFragments
<1>3. Buffer!With(set, f) = [set EXCEPT !.chunks = [set.chunks EXCEPT ![f.index] = f.chunk]]
  BY DEF Buffer!With, Buffer!Sets
<1> QED BY <1>2, <1>3 DEF Buffer!Sets

LEMMA OpenedFills ==
  ASSUME BufferAssumption, NEW f \in Buffer!Wire
  PROVE  LET new == Buffer!Opened(f) IN new \in Buffer!Sets /\ new.digest = f.id /\ ~new.whole
<1>1. [i \in Buffer!Indices |-> Buffer!Missing] \in [Buffer!Indices -> Buffer!Chunks \cup {Buffer!Missing}]
  OBVIOUS
<1>2. frag_Parts \in 1 .. frag_Parts
  BY DEF BufferAssumption
<1> QED BY <1>1, <1>2, WireFragments DEF Buffer!Opened, Buffer!Sets

LEMMA BecomesKeeps ==
  ASSUME BufferAssumption, BufferInv, NEW e \in frag_Envelopes, NEW set, Filling(e, set),
         NEW a \in {"PENDING", "COMPLETE", "INVALID"}, Buffer!Becomes(e, set, a),
         set = Buffer!NoSet \/ Buffer!Fresh(e) \/ Buffer!HasRoom
  PROVE  BufferInv'
<1> USE DEF BufferAssumption
<1>1. /\ frag_sets' = [x \in frag_Envelopes |-> IF x = e THEN set ELSE Buffer!Evicted(x)]
      /\ frag_answer' = a
  BY DEF Buffer!Becomes
<1>2. \A x \in frag_Envelopes : Filling(x, frag_sets'[x])
  <2>1. \A x \in frag_Envelopes : Filling(x, Buffer!Evicted(x))
    BY DEF BufferInv, Buffer!Evicted, Filling
  <2> QED BY <1>1, <2>1
<1>3. frag_sets' \in [frag_Envelopes -> Buffer!Sets \cup {Buffer!NoSet}]
  BY <1>1, <1>2 DEF Filling
<1>4. frag_age' \in [frag_Envelopes -> 0 .. frag_Ttl + 1]
  <2>1. frag_age' = [x \in frag_Envelopes |-> IF x = e /\ ~Buffer!Fresh(e) THEN 0 ELSE frag_age[x]]
    BY DEF Buffer!Becomes
  <2>2. frag_age \in [frag_Envelopes -> 0 .. frag_Ttl + 1]
    BY DEF BufferInv, Buffer!TypeOK
  <2> QED BY <2>1, <2>2
<1>5. Cardinality(OpenSets') <= frag_MaxSets
  <2> DEFINE F == {x \in frag_Envelopes : Buffer!Fresh(x)}
  <2>1. /\ F \subseteq OpenSets /\ IsFiniteSet(F) /\ IsFiniteSet(OpenSets)
        /\ Cardinality(F) \in Nat /\ Cardinality(OpenSets) \in Nat /\ Cardinality(F) <= Cardinality(OpenSets)
    <3>1. F \subseteq OpenSets
      BY DEF Buffer!Fresh, OpenSets
    <3>2. IsFiniteSet(OpenSets)
      BY FS_Subset DEF OpenSets
    <3> QED BY <3>1, <3>2, FS_Subset, FS_CardinalityType
  <2>2. Cardinality(OpenSets) <= frag_MaxSets
    BY CountingSets DEF BufferInv, Buffer!TypeOK, OpenSets
  <2>3. OpenSets' \subseteq F \cup (IF set = Buffer!NoSet THEN {} ELSE {e})
    BY <1>1 DEF OpenSets, Buffer!Evicted
  <2>4. CASE set = Buffer!NoSet \/ Buffer!Fresh(e)
    <3>1. OpenSets' \subseteq F
      BY <2>3, <2>4
    <3>2. Cardinality(OpenSets') <= Cardinality(F) /\ Cardinality(OpenSets') \in Nat
      BY <2>1, <3>1, FS_Subset, FS_CardinalityType
    <3> QED BY <2>1, <2>2, <3>2
  <2>5. CASE Buffer!HasRoom
    <3>1. Cardinality(F) < frag_MaxSets
      BY <2>5, CountingSets DEF Buffer!HasRoom
    <3>2. IsFiniteSet(F \cup {e}) /\ Cardinality(F \cup {e}) <= Cardinality(F) + 1
      <4> HIDE DEF F
      <4>1. Cardinality(F \cup {e}) \in {Cardinality(F), Cardinality(F) + 1}
        BY <2>1, FS_AddElement
      <4> QED BY <2>1, <4>1, FS_AddElement
    <3>3. OpenSets' \subseteq F \cup {e}
      BY <2>3
    <3>4. /\ Cardinality(OpenSets') <= Cardinality(F \cup {e}) /\ Cardinality(OpenSets') \in Nat
          /\ Cardinality(F \cup {e}) \in Nat
      BY <3>2, <3>3, FS_Subset, FS_CardinalityType
    <3> QED BY <2>1, <3>1, <3>2, <3>4
  <2> QED BY <2>4, <2>5
<1>6. Buffer!TypeOK'
  BY <1>1, <1>3, <1>4, <1>5, CountingSets DEF Buffer!TypeOK, OpenSets
<1> QED BY <1>2, <1>6 DEF BufferInv

LEMMA AddedFills ==
  ASSUME BufferAssumption, BufferInv, NEW f \in Buffer!Wire, NEW set \in Buffer!Sets,
         set.digest = f.id, ~set.whole, Buffer!Added(f, set), Buffer!Fresh(f.id) \/ Buffer!HasRoom
  PROVE  BufferInv'
<1>1. CASE Buffer!Filled(set) /\ Buffer!Verified(set)
  <2> DEFINE new == [set EXCEPT !.whole = TRUE]
  <2>1. new \in Buffer!Sets /\ new.digest = set.digest /\ new.chunks = set.chunks
    BY DEF Buffer!Sets
  <2>2. Filling(f.id, new)
    BY <1>1, <2>1 DEF Filling, Buffer!Verified
  <2> QED BY <1>1, <2>2, WireFragments, BecomesKeeps DEF Buffer!Added
<1>2. CASE ~Buffer!Filled(set)
  BY <1>2, WireFragments, BecomesKeeps DEF Buffer!Added, Filling
<1>3. CASE Buffer!Filled(set) /\ ~Buffer!Verified(set)
  BY <1>3, WireFragments, BecomesKeeps DEF Buffer!Added, Filling
<1> QED BY <1>1, <1>2, <1>3

LEMMA BufferSteps ==
  ASSUME BufferAssumption
  PROVE  BufferInv /\ [Buffer!Next]_fragVars => BufferInv' /\ Buffer!KeepsWhole
<1> SUFFICES ASSUME BufferInv, [Buffer!Next]_fragVars PROVE BufferInv' /\ Buffer!KeepsWhole
  OBVIOUS
<1> USE BufferAssumption
<1>1. CASE UNCHANGED fragVars \/ Buffer!Tick
  <2>1. UNCHANGED <<frag_sets, frag_answer>>
    BY <1>1 DEF fragVars, Buffer!Tick
  <2>2. frag_age' \in [frag_Envelopes -> 0 .. frag_Ttl + 1]
    BY <1>1 DEF fragVars, Buffer!Tick, BufferInv, Buffer!TypeOK, BufferAssumption
  <2>3. BufferInv'
    BY <2>1, <2>2 DEF BufferInv, Buffer!TypeOK
  <2>4. Buffer!KeepsWhole
    BY <2>1 DEF Buffer!KeepsWhole, BufferInv, Filling
  <2> QED BY <2>3, <2>4
<1>2. ASSUME NEW f \in Buffer!Wire, Buffer!Ingest(f) PROVE BufferInv' /\ Buffer!KeepsWhole
  <2>0. f.id \in frag_Envelopes /\ Filling(f.id, frag_sets[f.id])
    BY WireFragments DEF BufferInv
  <2>1. ASSUME Buffer!Refused(f) \/ Buffer!Full(f) PROVE BufferInv'
    BY <2>0, <2>1, BecomesKeeps DEF Buffer!Refused, Buffer!Full, Filling
  <2>2. ASSUME Buffer!Reserved(f) PROVE BufferInv'
    BY <2>0, <2>2, BecomesKeeps DEF Buffer!Reserved
  <2>3. ASSUME Buffer!Collected(f) PROVE BufferInv'
    <3>1. frag_sets[f.id] \in Buffer!Sets /\ frag_sets[f.id].digest = f.id /\ ~frag_sets[f.id].whole
      BY <2>0, <2>3 DEF Buffer!Collected, Buffer!Fresh, Filling
    <3> QED BY <2>3, <3>1, WithFills, AddedFills DEF Buffer!Collected
  <2>4. ASSUME Buffer!Begun(f) PROVE BufferInv'
    BY <2>4, OpenedFills, WithFills, AddedFills DEF Buffer!Begun
  <2>5. BufferInv'
    BY <1>2, <2>1, <2>2, <2>3, <2>4 DEF Buffer!Ingest
  <2>6. ASSUME NEW e \in frag_Envelopes, frag_sets[e] # Buffer!NoSet, frag_sets[e].whole
        PROVE  /\ \A i \in Buffer!Indices : frag_sets[e].chunks[i] = Buffer!Chunk(e, i)
               /\ frag_sets'[e] # frag_sets[e] =>
                    frag_age[e] > frag_Ttl \/ (frag_answer' = "INVALID" /\ frag_sets'[e] = Buffer!NoSet)
    <3>1. \A i \in Buffer!Indices : frag_sets[e].chunks[i] = Buffer!Chunk(e, i)
      BY <2>6 DEF BufferInv, Filling
    <3>2. frag_age[e] \in Nat
      BY DEF BufferInv, Buffer!TypeOK, BufferAssumption
    <3>3. CASE ~Buffer!Fresh(e)
      BY <2>6, <3>1, <3>2, <3>3 DEF Buffer!Fresh, BufferAssumption
    <3>4. CASE Buffer!Fresh(e) /\ e # f.id
      <4>1. frag_sets'[e] = Buffer!Evicted(e)
        BY <1>2, <3>4 DEF Buffer!Ingest, Buffer!Refused, Buffer!Reserved, Buffer!Collected, Buffer!Begun,
           Buffer!Full, Buffer!Added, Buffer!Becomes
      <4> QED BY <3>1, <3>4, <4>1 DEF Buffer!Evicted
    <3>5. CASE Buffer!Fresh(e) /\ e = f.id
      BY <1>2, <2>6, <3>1, <3>5 DEF Buffer!Ingest, Buffer!Refused, Buffer!Reserved, Buffer!Collected,
         Buffer!Begun, Buffer!Full, Buffer!Becomes
    <3> QED BY <3>3, <3>4, <3>5
  <2> QED BY <2>5, <2>6 DEF Buffer!KeepsWhole
<1> QED BY <1>1, <1>2 DEF Buffer!Next

LEMMA BufferInductive ==
  ASSUME BufferAssumption
  PROVE  ServicesSpec => [](focus = "fragment" => BufferInv)
<1> DEFINE Held == focus = "fragment" => BufferInv
<1>1. ServicesInit => Held
  <2> SUFFICES ASSUME Buffer!Init PROVE BufferInv
    BY DEF ServicesInit, On
  <2>1. OpenSets = {}
    BY DEF OpenSets, Buffer!Init
  <2>2. Cardinality(OpenSets) = 0
    BY <2>1, FS_EmptySet
  <2>3. Buffer!TypeOK
    BY <2>2, CountingSets DEF Buffer!Init, Buffer!TypeOK, OpenSets, BufferAssumption
  <2> QED BY <2>3 DEF BufferInv, Buffer!Init, Filling
<1>2. Held /\ [ServicesNext]_serviceVars => Held'
  BY FocusedStep, BufferSteps
<1>3. QED
  BY <1>1, <1>2, PTL DEF ServicesSpec

\* A set that answers COMPLETE holds its one payload, whole, and keeps it until it
\* is too old or a fragment contradicts it, for every number of envelopes, parts,
\* authors and pending sets, and every order, loss and damage of their messages.
THEOREM ServicesKeepWhole ==
  ASSUME BufferAssumption
  PROVE  ServicesSpec => WholeStaysWhole
<1> DEFINE Held == focus = "fragment" => BufferInv
<1>1. Held /\ [ServicesNext]_serviceVars => (focus = "fragment" => Buffer!KeepsWhole)
  BY FocusedStep, BufferSteps
<1>2. QED
  BY <1>1, BufferInductive, PTL DEF ServicesSpec, WholeStaysWhole

-----------------------------------------------------------------------------
(* The Workroom of a Task.                                                 *)

RoomAssumption == Room!NoRoom \notin room_Rooms

\* Threads the program has bound, now or before.
Standing == {u \in room_Rooms : room_room[u] # "unborn" /\ u \notin room_abandoned}

\* What a call under way may count on, for the threads as Discord has them, their
\* briefs and those that were bound: what it saw as deleted is gone for good, and
\* an ensure up to its binding goes by the one thread that may not be.
CallOk(k, rooms, count, standing) ==
  /\ k.pc \notin {"idle", "create"} => k.t # Room!NoRoom
  /\ k.pc = "create" => k.t = Room!NoRoom
  /\ k.pc \in {"reopen", "create", "created", "brief", "briefed"} => k.kind = "ensure"
  /\ k.pc = "looked" /\ k.seen = "deleted" => rooms[k.t] = "deleted"
  /\ k.kind = "ensure" /\ k.pc \in {"looked", "reopen", "create", "created"} =>
       \A u \in standing \ {k.t} : rooms[u] = "deleted"
  /\ k.pc = "create" /\ ~k.rec => standing = {}
  /\ k.pc \in {"created", "brief"} => rooms[k.t] # "unborn" /\ count[k.t] = 0

Ensuring(k) == k.pc # "idle" /\ k.kind \in {"ensure", "late"}

\* Every thread that was bound is the Task's or deleted, the row knows of one, and
\* one ensure at a time is under way.
RoomInv ==
  /\ Room!TypeOK
  /\ \A u \in Standing \ {room_task.thread} : room_room[u] = "deleted"
  /\ Standing # {} => room_row.thread # Room!NoRoom
  /\ \A t \in room_Rooms : room_briefs[t] <= 1 /\ (room_room[t] = "unborn" => room_briefs[t] = 0)
  /\ \A c \in room_Calls : CallOk(room_call[c], room_room, room_briefs, Standing)
  /\ \A c, d \in room_Calls : Ensuring(room_call[c]) /\ Ensuring(room_call[d]) => c = d

CallRecords == [pc : Room!Pcs, kind : Room!Kinds, t : room_Rooms \cup {Room!NoRoom},
                seen : Room!RoomStates, rec : BOOLEAN]
TaskRecords == [status : Room!Statuses, rec : BOOLEAN, thread : room_Rooms \cup {Room!NoRoom}]
RowRecords == [thread : room_Rooms \cup {Room!NoRoom}, brief : room_Rooms \cup {Room!NoRoom},
               state : {"none", "ACTIVE", "ARCHIVED", "MISSING", "ACCESS_DENIED"}]

\* A call that is idle counts on nothing.
LEMMA IdleIsOk == Room!Idle \in CallRecords /\ ~Ensuring(Room!Idle)
                  /\ \A rooms, count, standing : CallOk(Room!Idle, rooms, count, standing)
BY DEF Room!Idle, CallRecords, Ensuring, CallOk, Room!Pcs, Room!Kinds, Room!RoomStates

\* What a call counts on stays so while threads are deleted, and while others
\* neither brief its thread nor bind one beside it.
LEMMA CallOkStays ==
  ASSUME NEW k, NEW rooms, NEW count, NEW standing, NEW rooms2, NEW count2, NEW standing2,
         CallOk(k, rooms, count, standing),
         k.t \in room_Rooms \cup {Room!NoRoom}, standing \subseteq room_Rooms, RoomAssumption,
         \A u \in room_Rooms : /\ rooms[u] = "deleted" => rooms2[u] = "deleted"
                               /\ rooms[u] # "unborn" => rooms2[u] # "unborn",
         Ensuring(k) => standing2 \subseteq standing /\ count2 = count
  PROVE  CallOk(k, rooms2, count2, standing2)
BY DEF CallOk, RoomAssumption, Ensuring

\* Every call that starts, or starts again, goes by the binding or the row.
LEMMA EnteredIsOk ==
  ASSUME RoomAssumption, Room!TypeOK, NEW tk \in TaskRecords, NEW rw \in RowRecords,
         \A u \in Standing \ {tk.thread} : room_room[u] = "deleted",
         Standing # {} => rw.thread # Room!NoRoom,
         NEW as \in {"ensure", "sync", "reconcile"}
  PROVE  /\ Room!Entered(as, tk, rw) \in CallRecords
         /\ CallOk(Room!Entered(as, tk, rw), room_room, room_briefs, Standing)
         /\ as # "ensure" => ~Ensuring(Room!Entered(as, tk, rw))
<1> DEFINE kind == IF as = "ensure" /\ tk.status = "closed" THEN "late" ELSE as
           t == IF kind = "ensure" THEN Room!KnownRoom(tk, rw) ELSE tk.thread
           k == [pc |-> IF t = Room!NoRoom THEN "create" ELSE "looked", kind |-> kind,
                 t |-> t, seen |-> IF t = Room!NoRoom THEN "unborn" ELSE room_room[t],
                 rec |-> Room!Recovered(tk)]
<1>1. Room!Entered(as, tk, rw) = IF t = Room!NoRoom /\ kind # "ensure" THEN Room!Idle ELSE k
  BY DEF Room!Entered
<1>2. kind \in Room!Kinds /\ t \in room_Rooms \cup {Room!NoRoom} /\ Room!Recovered(tk) \in BOOLEAN
  BY DEF Room!Kinds, Room!KnownRoom, Room!Recovered, TaskRecords, RowRecords
<1>3. CASE t = Room!NoRoom /\ kind # "ensure"
  BY <1>1, <1>3, IdleIsOk
<1>4. CASE ~(t = Room!NoRoom /\ kind # "ensure")
  <2>1. k \in CallRecords
    BY <1>2 DEF CallRecords, Room!Pcs, Room!RoomStates, Room!TypeOK
  <2>2. kind = "ensure" => \A u \in Standing \ {t} : room_room[u] = "deleted"
    BY ZenonT(30) DEF Room!KnownRoom, Room!Recovered, TaskRecords, RowRecords, RoomAssumption, Standing
  <2>3. t = Room!NoRoom /\ kind = "ensure" /\ ~Room!Recovered(tk) => Standing = {}
    BY DEF Room!KnownRoom, Room!Recovered, TaskRecords, RowRecords
  <2>4. CallOk(k, room_room, room_briefs, Standing)
    BY <1>4, <2>2, <2>3 DEF CallOk
  <2>5. as # "ensure" => ~Ensuring(k)
    BY DEF Ensuring
  <2> QED BY <1>1, <1>4, <2>1, <2>4, <2>5
<1> QED BY <1>3, <1>4

\* A step of one call leaves the others what they count on: only the ensure under
\* way binds or briefs.
LEMMA CallMoves ==
  ASSUME RoomAssumption, RoomInv, NEW c \in room_Calls, NEW new \in CallRecords,
         room_call' = [room_call EXCEPT ![c] = new],
         CallOk(new, room_room', room_briefs', Standing'),
         Ensuring(new) => Ensuring(room_call[c]) \/ \A d \in room_Calls : ~Ensuring(room_call[d]),
         \A u \in room_Rooms : /\ room_room[u] = "deleted" => room_room'[u] = "deleted"
                               /\ room_room[u] # "unborn" => room_room'[u] # "unborn",
         Ensuring(room_call[c]) \/ (Standing' \subseteq Standing /\ UNCHANGED room_briefs)
  PROVE  /\ room_call' \in [room_Calls -> CallRecords]
         /\ \A d \in room_Calls : CallOk(room_call'[d], room_room', room_briefs', Standing')
         /\ \A d, e \in room_Calls : Ensuring(room_call'[d]) /\ Ensuring(room_call'[e]) => d = e
<1>1. room_call \in [room_Calls -> CallRecords]
  BY DEF RoomInv, Room!TypeOK, CallRecords
<1>2. room_call'[c] = new /\ \A d \in room_Calls \ {c} : room_call'[d] = room_call[d]
  BY <1>1
<1>3. ASSUME NEW d \in room_Calls, d # c
      PROVE  CallOk(room_call[d], room_room', room_briefs', Standing')
  <2>1. Ensuring(room_call[d]) => Standing' \subseteq Standing /\ room_briefs' = room_briefs
    BY <1>3 DEF RoomInv
  <2>2. room_call[d].t \in room_Rooms \cup {Room!NoRoom} /\ Standing \subseteq room_Rooms
    BY <1>1 DEF CallRecords, Standing
  <2>3. CallOk(room_call[d], room_room, room_briefs, Standing)
    BY DEF RoomInv
  <2> QED BY <2>1, <2>2, <2>3, CallOkStays
<1>4. \A d \in room_Calls : CallOk(room_call'[d], room_room', room_briefs', Standing')
  BY <1>2, <1>3
<1>5. \A d, e \in room_Calls : Ensuring(room_call'[d]) /\ Ensuring(room_call'[e]) => d = e
  BY <1>2 DEF RoomInv
<1> QED BY <1>1, <1>4, <1>5

\* What is left to say of a step of one call.
LEMMA CallStepKeeps ==
  ASSUME RoomAssumption, RoomInv, NEW c \in room_Calls, NEW new \in CallRecords,
         room_call' = [room_call EXCEPT ![c] = new],
         CallOk(new, room_room', room_briefs', Standing'),
         Ensuring(new) => Ensuring(room_call[c]) \/ \A d \in room_Calls : ~Ensuring(room_call[d]),
         \A u \in room_Rooms : /\ room_room[u] = "deleted" => room_room'[u] = "deleted"
                               /\ room_room[u] # "unborn" => room_room'[u] # "unborn",
         Ensuring(room_call[c]) \/ (Standing' \subseteq Standing /\ UNCHANGED room_briefs),
         room_task' \in TaskRecords, room_row' \in RowRecords,
         room_room' \in [room_Rooms -> Room!RoomStates], room_briefs' \in [room_Rooms -> Nat],
         room_events' \subseteq room_Rooms, room_abandoned' \subseteq room_Rooms,
         \A u \in Standing' \ {room_task'.thread} : room_room'[u] = "deleted",
         Standing' # {} => room_row'.thread # Room!NoRoom,
         \A t \in room_Rooms : room_briefs'[t] <= 1 /\ (room_room'[t] = "unborn" => room_briefs'[t] = 0)
  PROVE  RoomInv'
<1>1. /\ room_call' \in [room_Calls -> CallRecords]
      /\ \A d \in room_Calls : CallOk(room_call'[d], room_room', room_briefs', Standing')
      /\ \A d, e \in room_Calls : Ensuring(room_call'[d]) /\ Ensuring(room_call'[e]) => d = e
  BY CallMoves
<1>2. Room!TypeOK'
  BY <1>1 DEF Room!TypeOK, CallRecords, TaskRecords, RowRecords
<1> QED BY <1>1, <1>2 DEF RoomInv

LEMMA QuietCall ==
  ASSUME RoomAssumption, RoomInv, NEW c \in room_Calls, NEW new \in CallRecords,
         room_call' = [room_call EXCEPT ![c] = new],
         UNCHANGED <<room_room, room_briefs, room_events, room_abandoned>>,
         CallOk(new, room_room, room_briefs, Standing),
         Ensuring(new) => Ensuring(room_call[c]) \/ \A d \in room_Calls : ~Ensuring(room_call[d]),
         room_task' \in TaskRecords, room_row' \in RowRecords,
         \A u \in Standing \ {room_task'.thread} : room_room[u] = "deleted",
         Standing # {} => room_row'.thread # Room!NoRoom
  PROVE  RoomInv'
<1>1. Standing' = Standing
  BY DEF Standing
<1>2. /\ room_room' \in [room_Rooms -> Room!RoomStates] /\ room_briefs' \in [room_Rooms -> Nat]
      /\ room_events' \subseteq room_Rooms /\ room_abandoned' \subseteq room_Rooms
      /\ \A t \in room_Rooms : room_briefs'[t] <= 1 /\ (room_room'[t] = "unborn" => room_briefs'[t] = 0)
  BY DEF RoomInv, Room!TypeOK
<1>3. CallOk(new, room_room', room_briefs', Standing')
  BY <1>1
<1> QED BY <1>1, <1>2, <1>3, CallStepKeeps

\* What the invariant says of one call, and of the rows.
LEMMA RoomFacts ==
  ASSUME RoomInv
  PROVE  /\ room_task \in TaskRecords /\ room_row \in RowRecords
         /\ \A c \in room_Calls : /\ room_call[c] \in CallRecords
                                  /\ CallOk(room_call[c], room_room, room_briefs, Standing)
         /\ \A u \in Standing \ {room_task.thread} : room_room[u] = "deleted"
         /\ Standing # {} => room_row.thread # Room!NoRoom
         /\ Room!TypeOK
         /\ \A c, d \in room_Calls : Ensuring(room_call[c]) /\ Ensuring(room_call[d]) => c = d
BY DEF RoomInv, Room!TypeOK, CallRecords, TaskRecords, RowRecords

\* A call that is over.
LEMMA CallEnds ==
  ASSUME RoomAssumption, RoomInv, NEW c \in room_Calls, Room!Done(c),
         UNCHANGED <<room_room, room_briefs, room_events, room_abandoned>>,
         room_task' \in TaskRecords, room_row' \in RowRecords,
         \A u \in Standing \ {room_task'.thread} : room_room[u] = "deleted",
         Standing # {} => room_row'.thread # Room!NoRoom
  PROVE  RoomInv'
BY IdleIsOk, QuietCall DEF Room!Done

LEMMA BeginKeeps ==
  ASSUME RoomAssumption, RoomInv, NEW c \in room_Calls, NEW kind \in {"ensure", "sync", "reconcile"},
         Room!Begin(c, kind)
  PROVE  RoomInv'
<1> DEFINE new == Room!Entered(kind, room_task, room_row)
<1>1. /\ new \in CallRecords /\ CallOk(new, room_room, room_briefs, Standing)
      /\ kind # "ensure" => ~Ensuring(new)
  BY RoomFacts, EnteredIsOk
<1>2. kind = "ensure" => \A d \in room_Calls : ~Ensuring(room_call[d])
  BY DEF Room!Begin, Room!PendingEnsure, Ensuring
<1>3. /\ room_call' = [room_call EXCEPT ![c] = new]
      /\ UNCHANGED <<room_task, room_row, room_room, room_briefs, room_events, room_abandoned>>
  BY DEF Room!Begin
<1> HIDE DEF new
<1> QED BY <1>1, <1>2, <1>3, RoomFacts, QuietCall

LEMMA MarkedRow ==
  ASSUME RoomAssumption, RoomInv, NEW t \in room_Rooms
  PROVE  Room!MarkedMissing(t) \in RowRecords /\ (Standing # {} => Room!MarkedMissing(t).thread # Room!NoRoom)
BY RoomFacts DEF Room!MarkedMissing, RowRecords, RoomAssumption

LEMMA GoneKeeps ==
  ASSUME RoomAssumption, RoomInv, NEW c \in room_Calls, Room!Gone(c)
  PROVE  RoomInv'
<1> DEFINE t == room_call[c].t
           tk == Room!Detached(room_task, t)
<1>1. /\ room_call[c].pc = "looked" /\ room_call[c].seen = "deleted" /\ room_row' = Room!MarkedMissing(t)
      /\ UNCHANGED <<room_room, room_briefs, room_events, room_abandoned>>
  BY DEF Room!Gone
<1>2. t \in room_Rooms /\ room_room[t] = "deleted"
  BY <1>1, RoomFacts DEF CallOk, CallRecords
<1>3. /\ room_row' \in RowRecords
      /\ Standing # {} => room_row'.thread # Room!NoRoom
  BY <1>1, <1>2, MarkedRow
<1>4. tk \in TaskRecords /\ \A u \in Standing \ {tk.thread} : room_room[u] = "deleted"
  BY <1>2, RoomFacts DEF Room!Detached, TaskRecords
<1>5. CASE room_call[c].rec /\ room_call[c].kind = "ensure"
  <2> DEFINE new == Room!Entered("ensure", tk, room_row')
  <2>1. new \in CallRecords /\ CallOk(new, room_room, room_briefs, Standing)
    BY <1>3, <1>4, RoomFacts, EnteredIsOk
  <2>2. room_task' = tk /\ room_call' = [room_call EXCEPT ![c] = new]
    BY <1>5 DEF Room!Gone
  <2>3. Ensuring(room_call[c])
    BY <1>1, <1>5 DEF Ensuring
  <2> HIDE DEF new, tk
  <2> QED BY <1>1, <1>3, <1>4, <2>1, <2>2, <2>3, QuietCall
<1>6. CASE ~(room_call[c].rec /\ room_call[c].kind = "ensure")
  <2>1. Room!Done(c) /\ room_task'.thread = room_task.thread /\ room_task' \in TaskRecords
    BY <1>6, RoomFacts DEF Room!Gone, TaskRecords, Room!Statuses
  <2> QED BY <1>1, <1>3, <2>1, RoomFacts, CallEnds
<1> QED BY <1>5, <1>6

LEMMA GoesOnKeeps ==
  ASSUME RoomAssumption, RoomInv, NEW c \in room_Calls, Room!GoesOn(c)
  PROVE  RoomInv'
<1> DEFINE new == Room!Entered("ensure", room_task, room_row)
<1>1. new \in CallRecords /\ CallOk(new, room_room, room_briefs, Standing)
  BY RoomFacts, EnteredIsOk
<1>2. UNCHANGED <<room_task, room_row, room_room, room_briefs, room_events, room_abandoned>>
  BY DEF Room!GoesOn
<1>3. CASE Room!PendingEnsure # {}
  BY <1>2, <1>3, RoomFacts, CallEnds DEF Room!GoesOn
<1>4. CASE Room!PendingEnsure = {}
  <2>1. \A d \in room_Calls : ~Ensuring(room_call[d])
    BY <1>4 DEF Room!PendingEnsure, Ensuring
  <2>2. room_call' = [room_call EXCEPT ![c] = new]
    BY <1>4 DEF Room!GoesOn
  <2> HIDE DEF new
  <2> QED BY <1>1, <1>2, <2>1, <2>2, RoomFacts, QuietCall
<1> QED BY <1>3, <1>4

\* A call that goes on to wait for something else.
LEMMA Awaited ==
  ASSUME RoomInv, NEW c \in room_Calls, NEW pc \in Room!Pcs, Room!Await(c, pc)
  PROVE  \E new \in CallRecords :
           /\ room_call' = [room_call EXCEPT ![c] = new]
           /\ new.pc = pc /\ new.kind = room_call[c].kind /\ new.t = room_call[c].t /\ ~new.rec
           /\ new.seen = "unborn"
<1> DEFINE new == [room_call[c] EXCEPT !.pc = pc, !.seen = "unborn", !.rec = FALSE]
<1>1. room_call[c] \in CallRecords
  BY RoomFacts
<1>2. new \in CallRecords
  BY <1>1 DEF CallRecords, Room!RoomStates
<1>3. room_call' = [room_call EXCEPT ![c] = new]
  BY DEF Room!Await
<1> QED BY <1>1, <1>2, <1>3 DEF CallRecords

\* An ensure takes into use the one thread that may not be deleted.
LEMMA UsableKeeps ==
  ASSUME RoomAssumption, RoomInv, NEW c \in room_Calls, Room!Usable(c)
  PROVE  RoomInv'
<1> DEFINE t == room_call[c].t
<1>1. /\ t \in room_Rooms /\ \A u \in Standing \ {t} : room_room[u] = "deleted"
  BY RoomFacts DEF Room!Usable, Room!Ensures, CallOk, CallRecords
<1>2. /\ room_task' \in TaskRecords /\ room_task'.thread = t
      /\ room_row' \in RowRecords /\ room_row'.thread = t
  BY <1>1, RoomFacts DEF Room!Usable, Room!Take, Room!Persisted, TaskRecords, RowRecords
<1> QED BY <1>1, <1>2, CallEnds DEF Room!Usable, RoomAssumption

\* What only the row hears of.
LEMMA RowKeeps ==
  ASSUME RoomAssumption, RoomInv, NEW c \in room_Calls,
         Room!Denied(c) \/ Room!Refused(c) \/ Room!Briefed(c) \/ Room!Rejects(c)
  PROVE  RoomInv'
<1>1. /\ Room!Done(c) /\ UNCHANGED <<room_task, room_room, room_briefs, room_events, room_abandoned>>
  BY DEF Room!Denied, Room!Refused, Room!Briefed, Room!Rejects
<1>2. room_call[c].t \in room_Rooms \cup {Room!NoRoom}
      /\ (room_call[c].pc \in {"looked", "created", "briefed"} => room_call[c].t # Room!NoRoom)
  BY RoomFacts DEF CallOk, CallRecords
<1>3. /\ room_row' \in RowRecords
      /\ room_row'.thread # Room!NoRoom \/ room_row'.thread = room_row.thread
  <2>1. CASE Room!Denied(c) \/ Room!Refused(c)
    BY <1>2, <2>1, RoomFacts DEF Room!Denied, Room!Refused, Room!Persisted, RowRecords
  <2>2. CASE Room!Briefed(c) \/ Room!Rejects(c)
    BY <1>2, <2>2, RoomFacts DEF Room!Briefed, Room!Rejects, RowRecords
  <2> QED BY <2>1, <2>2
<1> QED BY <1>1, <1>3, RoomFacts, CallEnds

LEMMA ArchivedKeeps ==
  ASSUME RoomAssumption, RoomInv, NEW c \in room_Calls, Room!Archived(c)
  PROVE  RoomInv'
<1>1. PICK new \in CallRecords :
        /\ room_call' = [room_call EXCEPT ![c] = new]
        /\ new.pc = "reopen" /\ new.kind = room_call[c].kind /\ new.t = room_call[c].t
  BY Awaited DEF Room!Archived, Room!Pcs
<1>2. CallOk(new, room_room, room_briefs, Standing) /\ Ensuring(room_call[c])
  BY <1>1, RoomFacts DEF Room!Archived, Room!Ensures, CallOk, Ensuring
<1> QED BY <1>1, <1>2, RoomFacts, QuietCall DEF Room!Archived

LEMMA ArchiveKeeps ==
  ASSUME RoomAssumption, RoomInv, NEW c \in room_Calls, Room!Archive(c)
  PROVE  RoomInv'
<1>1. room_call[c].t \in room_Rooms /\ room_call[c].kind \in {"sync", "late"}
  BY RoomFacts DEF Room!Archive, Room!ClosedAtEntry, CallOk, CallRecords
<1>2. CASE room_call[c].seen = "archived"
  <2>1. room_row' \in RowRecords /\ room_row'.thread # Room!NoRoom
    BY <1>1, <1>2, RoomFacts DEF Room!Archive, Room!Persisted, RowRecords, RoomAssumption
  <2> QED BY <1>2, <2>1, RoomFacts, CallEnds DEF Room!Archive
<1>3. CASE room_call[c].seen # "archived"
  <2>1. PICK new \in CallRecords :
          /\ room_call' = [room_call EXCEPT ![c] = new]
          /\ new.pc = "archive" /\ new.kind = room_call[c].kind /\ new.t = room_call[c].t
    BY <1>3, Awaited DEF Room!Archive, Room!Pcs
  <2>2. CallOk(new, room_room, room_briefs, Standing)
    BY <1>1, <2>1 DEF CallOk, RoomAssumption
  <2>3. Ensuring(new) => Ensuring(room_call[c])
    BY <2>1 DEF Ensuring, Room!Archive
  <2> QED BY <1>3, <2>1, <2>2, <2>3, RoomFacts, QuietCall DEF Room!Archive
<1> QED BY <1>2, <1>3

\* A thread that changes between open and archived.
LEMMA ReopenedKeeps ==
  ASSUME RoomAssumption, RoomInv, NEW c \in room_Calls, Room!Reopened(c) \/ Room!ArchiveDone(c)
  PROVE  RoomInv'
<1> DEFINE t == room_call[c].t
<1>1. t \in room_Rooms
  BY RoomFacts DEF Room!Reopened, Room!ArchiveDone, CallOk, CallRecords
<1>2. /\ Room!Done(c) /\ UNCHANGED <<room_briefs, room_events, room_abandoned>>
      /\ room_room' \in [room_Rooms -> Room!RoomStates]
      /\ \A u \in room_Rooms : /\ (room_room[u] = "deleted") = (room_room'[u] = "deleted")
                               /\ (room_room[u] = "unborn") = (room_room'[u] = "unborn")
  BY <1>1, RoomFacts DEF Room!Reopened, Room!ArchiveDone, Room!TypeOK, Room!RoomStates
<1>3. Standing' = Standing
  BY <1>2 DEF Standing
<1>4. room_row' \in RowRecords /\ room_row'.thread = t
  BY <1>1, RoomFacts DEF Room!Reopened, Room!ArchiveDone, Room!Take, Room!Persisted, RowRecords
<1>5. room_task' \in TaskRecords /\ \A u \in Standing \ {room_task'.thread} : room_room[u] = "deleted"
  <2>1. CASE Room!Reopened(c)
    BY <1>1, <2>1, RoomFacts DEF Room!Reopened, Room!Take, TaskRecords, CallOk
  <2>2. CASE Room!ArchiveDone(c)
    BY <2>2, RoomFacts DEF Room!ArchiveDone
  <2> QED BY <2>1, <2>2
<1>6. /\ Room!Idle \in CallRecords /\ CallOk(Room!Idle, room_room', room_briefs', Standing')
      /\ ~Ensuring(Room!Idle) /\ room_call' = [room_call EXCEPT ![c] = Room!Idle]
  BY <1>2, IdleIsOk DEF Room!Done
<1>7. /\ \A u \in Standing' \ {room_task'.thread} : room_room'[u] = "deleted"
      /\ Standing' # {} => room_row'.thread # Room!NoRoom
  BY <1>1, <1>2, <1>3, <1>4, <1>5 DEF Standing, RoomAssumption
<1>8. /\ room_briefs' \in [room_Rooms -> Nat]
      /\ room_events' \subseteq room_Rooms /\ room_abandoned' \subseteq room_Rooms
      /\ \A u \in room_Rooms : room_briefs'[u] <= 1 /\ (room_room'[u] = "unborn" => room_briefs'[u] = 0)
  BY <1>2 DEF RoomInv, Room!TypeOK
<1> QED BY <1>2, <1>3, <1>4, <1>5, <1>6, <1>7, <1>8, CallStepKeeps

\* A new thread counts as nobody's until it is bound.
LEMMA CreateKeeps ==
  ASSUME RoomAssumption, RoomInv, NEW c \in room_Calls, Room!Create(c)
  PROVE  RoomInv'
<1>1. PICK t \in room_Rooms, s \in {"open", "denied"} :
        /\ room_room[t] = "unborn" /\ room_room' = [room_room EXCEPT ![t] = s]
        /\ room_call' = [room_call EXCEPT ![c].pc = "created", ![c].t = t, ![c].seen = s, ![c].rec = FALSE]
        /\ room_abandoned' = room_abandoned \cup {t}
  BY DEF Room!Create
<1> DEFINE new == [room_call[c] EXCEPT !.pc = "created", !.t = t, !.seen = s, !.rec = FALSE]
<1>2. UNCHANGED <<room_task, room_row, room_briefs, room_events>> /\ room_call[c].pc = "create"
  BY DEF Room!Create
<1>3. room_call[c] \in CallRecords /\ CallOk(room_call[c], room_room, room_briefs, Standing)
  BY RoomFacts
<1>4. /\ new \in CallRecords /\ new.kind = "ensure" /\ room_call[c].kind = "ensure"
      /\ new.pc = "created" /\ new.t = t
  BY <1>2, <1>3 DEF CallRecords, CallOk, Room!Pcs, Room!RoomStates
<1>5. room_call' = [room_call EXCEPT ![c] = new]
  BY <1>1
<1>6. /\ room_room' \in [room_Rooms -> Room!RoomStates]
      /\ room_room'[t] = s /\ \A u \in room_Rooms \ {t} : room_room'[u] = room_room[u]
  BY <1>1, RoomFacts DEF Room!TypeOK, Room!RoomStates
<1>7. Standing' = Standing
  BY <1>1, <1>6 DEF Standing
<1>8. t \notin Standing /\ \A u \in Standing : room_room[u] = "deleted"
  BY <1>1, <1>2, <1>3, <1>4 DEF Standing, CallOk, RoomAssumption
<1>9. CallOk(new, room_room', room_briefs', Standing')
  <2>1. room_briefs[t] = 0 /\ t # Room!NoRoom
    BY <1>1 DEF RoomInv, RoomAssumption
  <2>2. \A u \in Standing : room_room'[u] = "deleted"
    BY <1>6, <1>8 DEF Standing
  <2> QED BY <1>2, <1>4, <1>6, <1>7, <2>1, <2>2 DEF CallOk
<1>10. Ensuring(room_call[c])
  BY <1>2, <1>4 DEF Ensuring
<1>11. /\ room_briefs' \in [room_Rooms -> Nat]
       /\ room_events' \subseteq room_Rooms /\ room_abandoned' \subseteq room_Rooms
       /\ \A u \in room_Rooms : room_briefs'[u] <= 1 /\ (room_room'[u] = "unborn" => room_briefs'[u] = 0)
  BY <1>1, <1>2, <1>6 DEF RoomInv, Room!TypeOK
<1>12. /\ room_task' \in TaskRecords /\ room_row' \in RowRecords
       /\ \A u \in Standing' \ {room_task'.thread} : room_room'[u] = "deleted"
       /\ Standing' # {} => room_row'.thread # Room!NoRoom
  BY <1>2, <1>6, <1>7, <1>8, RoomFacts DEF Standing
<1>13. \A u \in room_Rooms : /\ room_room[u] = "deleted" => room_room'[u] = "deleted"
                             /\ room_room[u] # "unborn" => room_room'[u] # "unborn"
  BY <1>1, <1>6
<1> HIDE DEF new
<1> QED BY <1>4, <1>5, <1>6, <1>9, <1>10, <1>11, <1>12, <1>13, CallStepKeeps

LEMMA BindKeeps ==
  ASSUME RoomAssumption, RoomInv, NEW c \in room_Calls, Room!Bind(c)
  PROVE  RoomInv'
<1> DEFINE t == room_call[c].t
<1>1. /\ room_call[c].pc = "created" /\ Room!Take(c, t)
      /\ room_abandoned' = room_abandoned \ {t}
      /\ UNCHANGED <<room_room, room_briefs, room_events>>
  BY DEF Room!Bind
<1>2. PICK new \in CallRecords :
        /\ room_call' = [room_call EXCEPT ![c] = new]
        /\ new.pc = "brief" /\ new.kind = room_call[c].kind /\ new.t = t
  BY Awaited DEF Room!Bind, Room!Pcs
<1>3. /\ t \in room_Rooms /\ room_call[c].kind = "ensure"
      /\ \A u \in Standing \ {t} : room_room[u] = "deleted"
      /\ room_room[t] # "unborn" /\ room_briefs[t] = 0
  BY <1>1, RoomFacts DEF CallOk, CallRecords
<1>4. Standing' = Standing \cup {t}
  BY <1>1, <1>3 DEF Standing
<1>5. CallOk(new, room_room', room_briefs', Standing')
  BY <1>1, <1>2, <1>3 DEF CallOk, RoomAssumption
<1>6. Ensuring(room_call[c])
  BY <1>1, <1>3 DEF Ensuring
<1>7. /\ room_task' \in TaskRecords /\ room_task'.thread = t
      /\ room_row' \in RowRecords /\ room_row'.thread = t
  BY <1>1, <1>3, RoomFacts DEF Room!Take, Room!Persisted, TaskRecords, RowRecords
<1>8. /\ room_room' \in [room_Rooms -> Room!RoomStates] /\ room_briefs' \in [room_Rooms -> Nat]
      /\ room_events' \subseteq room_Rooms /\ room_abandoned' \subseteq room_Rooms
      /\ \A u \in room_Rooms : room_briefs'[u] <= 1 /\ (room_room'[u] = "unborn" => room_briefs'[u] = 0)
  BY <1>1 DEF RoomInv, Room!TypeOK
<1>9. /\ \A u \in Standing' \ {room_task'.thread} : room_room'[u] = "deleted"
      /\ room_row'.thread # Room!NoRoom
  BY <1>1, <1>3, <1>4, <1>7 DEF RoomAssumption
<1>10. \A u \in room_Rooms : /\ room_room[u] = "deleted" => room_room'[u] = "deleted"
                             /\ room_room[u] # "unborn" => room_room'[u] # "unborn"
  BY <1>1
<1> QED BY <1>2, <1>5, <1>6, <1>7, <1>8, <1>9, <1>10, CallStepKeeps

LEMMA BriefKeeps ==
  ASSUME RoomAssumption, RoomInv, NEW c \in room_Calls, Room!Brief(c)
  PROVE  RoomInv'
<1> DEFINE t == room_call[c].t
<1>1. /\ room_call[c].pc = "brief" /\ room_briefs' = [room_briefs EXCEPT ![t] = room_briefs[t] + 1]
      /\ UNCHANGED <<room_task, room_row, room_room, room_events, room_abandoned>>
  BY DEF Room!Brief
<1>2. PICK new \in CallRecords :
        /\ room_call' = [room_call EXCEPT ![c] = new]
        /\ new.pc = "briefed" /\ new.kind = room_call[c].kind /\ new.t = t
  BY Awaited DEF Room!Brief, Room!Pcs
<1>3. t \in room_Rooms /\ room_call[c].kind = "ensure" /\ room_room[t] # "unborn" /\ room_briefs[t] = 0
  BY <1>1, RoomFacts DEF CallOk, CallRecords
<1>4. Standing' = Standing
  BY <1>1 DEF Standing
<1>5. CallOk(new, room_room', room_briefs', Standing')
  BY <1>2, <1>3 DEF CallOk, RoomAssumption
<1>6. Ensuring(room_call[c])
  BY <1>1, <1>3 DEF Ensuring
<1>7. /\ room_room' \in [room_Rooms -> Room!RoomStates] /\ room_briefs' \in [room_Rooms -> Nat]
      /\ room_events' \subseteq room_Rooms /\ room_abandoned' \subseteq room_Rooms
      /\ \A u \in room_Rooms : room_briefs'[u] <= 1 /\ (room_room'[u] = "unborn" => room_briefs'[u] = 0)
  BY <1>1, <1>3 DEF RoomInv, Room!TypeOK
<1>8. \A u \in room_Rooms : /\ room_room[u] = "deleted" => room_room'[u] = "deleted"
                            /\ room_room[u] # "unborn" => room_room'[u] # "unborn"
  BY <1>1
<1>9. /\ room_task' \in TaskRecords /\ room_row' \in RowRecords
      /\ \A u \in Standing' \ {room_task'.thread} : room_room'[u] = "deleted"
      /\ Standing' # {} => room_row'.thread # Room!NoRoom
  BY <1>1, <1>4, RoomFacts
<1> QED BY <1>2, <1>5, <1>6, <1>7, <1>8, <1>9, CallStepKeeps

\* What others do leaves every call what it counts on.
LEMMA AroundCalls ==
  ASSUME RoomAssumption, RoomInv, UNCHANGED <<room_call, room_briefs, room_abandoned>>,
         room_task' \in TaskRecords, room_task'.thread = room_task.thread,
         room_row' \in RowRecords, Standing # {} => room_row'.thread # Room!NoRoom,
         room_events' \subseteq room_Rooms, room_room' \in [room_Rooms -> Room!RoomStates],
         \A u \in room_Rooms : /\ room_room[u] = "deleted" => room_room'[u] = "deleted"
                               /\ (room_room[u] = "unborn") = (room_room'[u] = "unborn")
  PROVE  RoomInv'
<1>1. Standing' = Standing /\ Standing \subseteq room_Rooms
  BY DEF Standing
<1>2. Room!TypeOK'
  BY DEF RoomInv, Room!TypeOK, TaskRecords, RowRecords
<1>3. ASSUME NEW c \in room_Calls PROVE CallOk(room_call[c], room_room', room_briefs', Standing')
  <2>1. CallOk(room_call[c], room_room, room_briefs, Standing) /\ room_call[c] \in CallRecords
    BY RoomFacts
  <2>2. room_call[c].t \in room_Rooms \cup {Room!NoRoom}
    BY <2>1 DEF CallRecords
  <2> QED BY <1>1, <2>1, <2>2, CallOkStays
<1>4. \A u \in Standing' \ {room_task'.thread} : room_room'[u] = "deleted"
  BY <1>1, RoomFacts
<1>5. \A t \in room_Rooms : room_briefs'[t] <= 1 /\ (room_room'[t] = "unborn" => room_briefs'[t] = 0)
  BY DEF RoomInv
<1> QED BY <1>1, <1>2, <1>3, <1>4, <1>5, RoomFacts DEF RoomInv

LEMMA RoomSteps ==
  ASSUME RoomAssumption
  PROVE  RoomInv /\ [Room!Next]_roomVars => RoomInv' /\ Room!ReplacesNothing
<1> SUFFICES ASSUME RoomInv, [Room!Next]_roomVars PROVE RoomInv' /\ Room!ReplacesNothing
  OBVIOUS
<1> USE RoomAssumption
<1>1. ASSUME NEW c \in room_Calls, Room!CallStep(c) PROVE RoomInv'
  BY <1>1, BeginKeeps, GoneKeeps, GoesOnKeeps, UsableKeeps, RowKeeps, ArchivedKeeps, ReopenedKeeps,
     CreateKeeps, BindKeeps, BriefKeeps, ArchiveKeeps DEF Room!CallStep
<1>2. ASSUME NEW t \in room_Rooms, Room!MarkDeleted(t) PROVE RoomInv'
  <2>1. /\ UNCHANGED <<room_call, room_briefs, room_abandoned, room_room>>
        /\ room_events' \subseteq room_Rooms
    BY <1>2, RoomFacts DEF Room!MarkDeleted, Room!TypeOK
  <2>2. room_task' \in TaskRecords /\ room_task'.thread = room_task.thread
    BY <1>2, RoomFacts DEF Room!MarkDeleted, TaskRecords, Room!Statuses
  <2>3. room_row' \in RowRecords /\ (Standing # {} => room_row'.thread # Room!NoRoom)
    BY <1>2, RoomFacts, MarkedRow DEF Room!MarkDeleted
  <2>4. room_room \in [room_Rooms -> Room!RoomStates]
    BY RoomFacts DEF Room!TypeOK
  <2> QED BY <2>1, <2>2, <2>3, <2>4, AroundCalls
<1>3. ASSUME Room!Environment PROVE RoomInv'
  <2>1. PICK t \in room_Rooms : Room!Happens(t)
    BY <1>3 DEF Room!Environment
  <2>2. UNCHANGED <<room_task, room_row, room_briefs, room_call, room_abandoned>>
    BY <1>3 DEF Room!Environment
  <2>3. /\ room_room' \in [room_Rooms -> Room!RoomStates] /\ room_events' \subseteq room_Rooms
        /\ \A u \in room_Rooms : /\ room_room[u] = "deleted" => room_room'[u] = "deleted"
                                 /\ (room_room[u] = "unborn") = (room_room'[u] = "unborn")
    BY <2>1, RoomFacts DEF Room!Happens, Room!TypeOK, Room!RoomStates
  <2> QED BY <2>2, <2>3, RoomFacts, AroundCalls
<1>4. ASSUME Room!Moves PROVE RoomInv'
  <2>1. room_task' \in TaskRecords /\ room_task'.thread = room_task.thread
    BY <1>4, RoomFacts DEF Room!Moves, TaskRecords, Room!Statuses
  <2>2. UNCHANGED <<room_row, room_room, room_briefs, room_call, room_events, room_abandoned>>
    BY <1>4 DEF Room!Moves
  <2>3. room_room \in [room_Rooms -> Room!RoomStates] /\ room_events \subseteq room_Rooms
    BY RoomFacts DEF Room!TypeOK
  <2> QED BY <2>1, <2>2, <2>3, RoomFacts, AroundCalls
<1>5. ASSUME Room!Crash PROVE RoomInv'
  <2>1. /\ room_call' = [c \in room_Calls |-> Room!Idle] /\ room_events' = {}
        /\ UNCHANGED <<room_task, room_row, room_room, room_briefs, room_abandoned>>
    BY <1>5 DEF Room!Crash
  <2>2. Room!TypeOK'
    BY <2>1, IdleIsOk, RoomFacts DEF Room!TypeOK, CallRecords
  <2>3. Standing' = Standing
    BY <2>1 DEF Standing
  <2>4. \A c \in room_Calls : CallOk(room_call'[c], room_room', room_briefs', Standing')
                              /\ ~Ensuring(room_call'[c])
    BY <2>1, IdleIsOk
  <2> QED BY <2>1, <2>2, <2>3, <2>4 DEF RoomInv
<1>6. ASSUME UNCHANGED roomVars PROVE RoomInv'
  <2>1. UNCHANGED <<room_task, room_row, room_room, room_briefs, room_call, room_events, room_abandoned>>
    BY <1>6 DEF roomVars
  <2>2. room_room \in [room_Rooms -> Room!RoomStates] /\ room_events \subseteq room_Rooms
    BY RoomFacts DEF Room!TypeOK
  <2> QED BY <2>1, <2>2, RoomFacts, AroundCalls
<1>7. RoomInv'
  BY <1>1, <1>2, <1>3, <1>4, <1>5, <1>6 DEF Room!Next
<1>8. ASSUME NEW t \in room_Rooms, room_room[t] = "unborn", room_room'[t] # "unborn",
             NEW u \in room_Rooms, room_room[u] # "unborn"
      PROVE  \/ u \in room_abandoned
             \/ room_room[u] = "deleted" /\ \E c \in room_Calls : room_call[c].pc = "create" /\ room_call[c].rec
  <2>1. PICK c \in room_Calls : Room!Create(c)
    <3>1. ASSUME NEW c \in room_Calls, Room!Reopened(c) \/ Room!ArchiveDone(c) PROVE FALSE
      BY <1>8, <3>1, RoomFacts DEF Room!Reopened, Room!ArchiveDone, Room!TypeOK
    <3>2. ASSUME Room!Environment PROVE FALSE
      BY <1>8, <3>2, RoomFacts DEF Room!Environment, Room!Happens, Room!TypeOK
    <3>3. ~(UNCHANGED room_room)
      BY <1>8
    <3>4. PICK c \in room_Calls : Room!CallStep(c)
      BY <3>2, <3>3 DEF Room!Next, Room!MarkDeleted, Room!Moves, Room!Crash, roomVars
    <3> QED BY <3>1, <3>3, <3>4 DEF Room!CallStep, Room!Begin, Room!Gone, Room!GoesOn, Room!Usable,
               Room!Denied, Room!Archived, Room!Bind, Room!Refused, Room!Brief, Room!Briefed,
               Room!Archive, Room!Rejects
  <2>2. room_call[c].pc = "create" /\ CallOk(room_call[c], room_room, room_briefs, Standing)
    BY <2>1, RoomFacts DEF Room!Create
  <2>3. u \in Standing => room_room[u] = "deleted" /\ room_call[c].rec
    <3>1. room_call[c].t = Room!NoRoom /\ room_call[c].kind = "ensure"
      BY <2>2 DEF CallOk
    <3>2. Standing # {} => room_call[c].rec
      BY <2>2 DEF CallOk
    <3>3. u # Room!NoRoom
      BY DEF RoomAssumption
    <3> QED BY <2>2, <3>1, <3>2, <3>3 DEF CallOk
  <2> QED BY <1>8, <2>2, <2>3 DEF Standing
<1> QED BY <1>7, <1>8 DEF RoomInv, Room!ReplacesNothing

LEMMA RoomInductive ==
  ASSUME RoomAssumption
  PROVE  ServicesSpec => [](focus = "room" => RoomInv)
<1> DEFINE Held == focus = "room" => RoomInv
<1>1. ServicesInit => Held
  <2> SUFFICES ASSUME Room!Init PROVE RoomInv
    BY DEF ServicesInit, On
  <2>1. Standing = {}
    BY DEF Room!Init, Standing
  <2>2. /\ room_task \in TaskRecords /\ room_row \in RowRecords
        /\ room_call \in [room_Calls -> CallRecords]
    BY IdleIsOk DEF Room!Init, TaskRecords, RowRecords, Room!Statuses
  <2>3. Room!TypeOK
    BY <2>2 DEF Room!Init, Room!TypeOK, Room!RoomStates, TaskRecords, RowRecords, CallRecords
  <2> QED BY <2>1, <2>3, IdleIsOk DEF RoomInv, Room!Init
<1>2. Held /\ [ServicesNext]_serviceVars => Held'
  BY FocusedStep, RoomSteps
<1>3. QED
  BY <1>1, <1>2, PTL DEF ServicesSpec

\* No thread is replaced but a deleted one of a recovered Task, and none is briefed
\* twice, for every number of calls and threads, whoever deletes and archives them
\* and wherever the process dies.
THEOREM ServicesReplaceNothing ==
  ASSUME RoomAssumption
  PROVE  ServicesSpec => NoReplacement
<1> DEFINE Held == focus = "room" => RoomInv
<1>1. Held /\ [ServicesNext]_serviceVars => (focus = "room" => Room!ReplacesNothing)
  BY FocusedStep, RoomSteps
<1>2. QED
  BY <1>1, RoomInductive, PTL DEF ServicesSpec, NoReplacement

-----------------------------------------------------------------------------
(* Intake, hold and recovery.                                              *)

IntakeAssumption == intake_MaxStops \in Nat /\ intake_Edits \in Nat /\ 1 \in intake_Commits

IntakeTasks == [status : Intake!Status, hold : BOOLEAN, result : Intake!Results]
InboxStates == {"none", "REGISTERED", "ACKED", "RECONCILIATION_HOLD", "FOLLOWS"}
Inboxes == [state : InboxStates, hold : BOOLEAN, ack : BOOLEAN]
Verdicts == [review : {"none", "REVISION_REQUIRED", "REVIEW_PASS"}, qa : BOOLEAN]
Evidences == [base : intake_Commits \cup {0}, diff : Intake!Diffs]
Recoveries == [last : Intake!Targets \cup {"none"}, count : Nat]

\* A safe stop that was not recovered is one the events have not answered; the
\* rest is inductive as it stands.
IntakeInv ==
  /\ intake_task \in IntakeTasks /\ intake_inbox \in Inboxes
  /\ intake_reviewer \in {"none", "ASSIGNED", "PASS"} /\ intake_verdict \in Verdicts
  /\ intake_cli \in BOOLEAN /\ intake_head \in intake_Commits /\ intake_diff \in Intake!Diffs
  /\ intake_bound \in intake_Commits \cup {0} /\ intake_evidence \in Evidences
  /\ intake_recovered \in Recoveries /\ intake_stops \in 0 .. intake_MaxStops
  /\ intake_retried \in BOOLEAN
  /\ intake_recovered.count <= intake_stops
  /\ intake_task.result = "safe stop" => intake_recovered.count < intake_stops
  /\ intake_inbox.state # "none" =>
       /\ intake_task.hold => intake_inbox.hold
       /\ intake_inbox.hold => intake_task.hold \/ intake_retried
       /\ intake_inbox.ack => intake_inbox.state # "REGISTERED"

LEMMA IntakeInvImplies == IntakeInv => Intake!TypeOK /\ Intake!OneRecoveryPerStop /\ Intake!BridgeAgrees
BY DEF IntakeInv, Intake!TypeOK, Intake!OneRecoveryPerStop, Intake!BridgeAgrees, Intake!Registered,
   IntakeTasks, Inboxes, InboxStates, Verdicts, Evidences, Recoveries

LEMMA IntakeStatuses ==
  /\ {"QUEUED", "DISPATCHED", "RUNNING", "PASS", "FAIL", "CANCELLED", "WAITING_MAIN", "HUMAN_GATE"}
       \subseteq Intake!Status
  /\ {"none", "watchdog", "safe stop", "held", "recovered"} = Intake!Results
BY DEF Intake!Status, Intake!Results

\* The rows that steps write.
LEMMA TaskFields ==
  ASSUME NEW k \in IntakeTasks
  PROVE  k.status \in Intake!Status /\ k.hold \in BOOLEAN /\ k.result \in Intake!Results
BY DEF IntakeTasks

LEMMA TaskMoves ==
  ASSUME NEW k \in IntakeTasks, NEW s \in Intake!Status
  PROVE  LET n == [k EXCEPT !.status = s] IN
         n \in IntakeTasks /\ n.status = s /\ n.hold = k.hold /\ n.result = k.result
BY DEF IntakeTasks

LEMMA TaskAnswers ==
  ASSUME NEW k \in IntakeTasks, NEW s \in Intake!Status, NEW r \in Intake!Results
  PROVE  LET n == [k EXCEPT !.status = s, !.result = r] IN
         n \in IntakeTasks /\ n.status = s /\ n.hold = k.hold /\ n.result = r
BY DEF IntakeTasks

LEMMA TaskFrees ==
  ASSUME NEW k \in IntakeTasks, NEW s \in Intake!Status, NEW h \in BOOLEAN
  PROVE  LET n == [k EXCEPT !.hold = h, !.status = s] IN
         n \in IntakeTasks /\ n.status = s /\ n.hold = h /\ n.result = k.result
BY DEF IntakeTasks

LEMMA TaskHolds ==
  ASSUME NEW k \in IntakeTasks, NEW s \in Intake!Status, NEW h \in BOOLEAN, NEW r \in Intake!Results
  PROVE  LET n == [k EXCEPT !.hold = h, !.result = r, !.status = s] IN
         n \in IntakeTasks /\ n.status = s /\ n.hold = h /\ n.result = r
BY DEF IntakeTasks

LEMMA InboxFields ==
  ASSUME NEW k \in Inboxes
  PROVE  k.state \in InboxStates /\ k.hold \in BOOLEAN /\ k.ack \in BOOLEAN
BY DEF Inboxes

LEMMA InboxFollows ==
  ASSUME NEW k \in Inboxes, NEW s \in InboxStates
  PROVE  LET n == [k EXCEPT !.state = s] IN
         n \in Inboxes /\ n.state = s /\ n.hold = k.hold /\ n.ack = k.ack
BY DEF Inboxes

LEMMA InboxHolds ==
  ASSUME NEW k \in Inboxes, NEW s \in InboxStates, NEW h \in BOOLEAN
  PROVE  LET n == [k EXCEPT !.state = s, !.hold = h]
             m == [k EXCEPT !.hold = h, !.state = s] IN
         n \in Inboxes /\ n.state = s /\ n.hold = h /\ n.ack = k.ack /\ m = n
BY DEF Inboxes

LEMMA InboxAcks ==
  ASSUME NEW k \in Inboxes, NEW s \in InboxStates, NEW a \in BOOLEAN
  PROVE  LET n == [k EXCEPT !.ack = a, !.state = s] IN
         n \in Inboxes /\ n.state = s /\ n.hold = k.hold /\ n.ack = a
BY DEF Inboxes

\* Steps that write the rows of the Task or of the inbox and count nothing.
LEMMA IntakeRowSteps ==
  ASSUME IntakeInv,
         \/ \E hold \in BOOLEAN : Intake!Register(hold)
         \/ Intake!Hold \/ Intake!MarkAck \/ Intake!Release \/ Intake!Retry \/ Intake!Reconcile
  PROVE  IntakeInv'
<1> USE IntakeStatuses DEF Intake!worktree, Intake!history
<1>0. /\ intake_task \in IntakeTasks /\ intake_inbox \in Inboxes
      /\ intake_task.status \in Intake!Status /\ intake_task.hold \in BOOLEAN
      /\ intake_task.result \in Intake!Results
      /\ intake_inbox.state \in InboxStates /\ intake_inbox.hold \in BOOLEAN /\ intake_inbox.ack \in BOOLEAN
  BY TaskFields, InboxFields DEF IntakeInv
<1>1. ASSUME NEW hold \in BOOLEAN, Intake!Register(hold) PROVE IntakeInv'
  <2> DEFINE status == IF hold THEN "HUMAN_GATE" ELSE "QUEUED"
             state == IF hold THEN "RECONCILIATION_HOLD" ELSE "REGISTERED"
  <2>1. intake_task' \in IntakeTasks /\ intake_task'.hold = hold /\ intake_task'.result = intake_task.result
    <3>1. intake_task' = [intake_task EXCEPT !.hold = hold, !.status = status]
      BY <1>1 DEF Intake!Register
    <3>2. status \in Intake!Status
      OBVIOUS
    <3> HIDE DEF status
    <3> QED BY <1>0, <3>1, <3>2 DEF IntakeTasks
  <2>2. /\ intake_inbox' \in Inboxes
        /\ intake_inbox'.hold = hold /\ intake_inbox'.ack = FALSE
    <3>1. intake_inbox' = [state |-> state, hold |-> hold, ack |-> FALSE]
      BY <1>1 DEF Intake!Register
    <3>2. state \in InboxStates
      BY DEF InboxStates
    <3> QED BY <3>1, <3>2 DEF Inboxes
  <2> QED BY <1>1, <2>1, <2>2 DEF IntakeInv, Intake!Register
<1>2. ASSUME Intake!Hold PROVE IntakeInv'
  <2> DEFINE status == IF intake_task.status = "WAITING_MAIN" THEN "HUMAN_GATE" ELSE intake_task.status
  <2>1. intake_task' \in IntakeTasks /\ intake_task'.hold /\ intake_task'.result = "held"
    <3>1. intake_task' = [intake_task EXCEPT !.hold = TRUE, !.result = "held", !.status = status]
      BY <1>0, <1>2 DEF Intake!Hold, Intake!Held, IntakeTasks
    <3>2. status \in Intake!Status /\ "held" \in Intake!Results
      BY <1>0
    <3> HIDE DEF status
    <3> QED BY <1>0, <3>1, <3>2 DEF IntakeTasks
  <2>2. /\ intake_inbox' \in Inboxes /\ intake_inbox'.hold
        /\ intake_inbox'.state = "RECONCILIATION_HOLD"
    <3>1. "RECONCILIATION_HOLD" \in InboxStates
      BY DEF InboxStates
    <3> QED BY <1>0, <1>2, <3>1, InboxHolds DEF Intake!Hold
  <2> QED BY <1>2, <2>1, <2>2 DEF IntakeInv, Intake!Hold
<1>3. ASSUME Intake!MarkAck PROVE IntakeInv'
  <2> DEFINE state == IF intake_inbox.state = "REGISTERED" THEN "ACKED" ELSE intake_inbox.state
  <2>1. intake_inbox' = [intake_inbox EXCEPT !.ack = TRUE, !.state = state]
    BY <1>0, <1>3 DEF Intake!MarkAck, Inboxes
  <2>2. state \in InboxStates /\ state # "REGISTERED" /\ (state = "none" => intake_inbox.state = "none")
    BY <1>0 DEF InboxStates
  <2>3. intake_inbox' \in Inboxes /\ intake_inbox'.hold = intake_inbox.hold /\ intake_inbox'.state = state
    BY <1>0, <2>1, <2>2, InboxAcks
  <2> QED BY <1>3, <2>2, <2>3 DEF IntakeInv, Intake!MarkAck
<1>4. ASSUME Intake!Release PROVE IntakeInv'
  <2> DEFINE status == IF intake_task.status = "HUMAN_GATE" THEN "QUEUED" ELSE intake_task.status
             state == IF intake_inbox.ack THEN "ACKED" ELSE "REGISTERED"
  <2>1. intake_task' \in IntakeTasks /\ ~intake_task'.hold /\ intake_task'.result = intake_task.result
    <3>1. intake_task' = [intake_task EXCEPT !.hold = FALSE, !.status = status]
      BY <1>0, <1>4 DEF Intake!Release, IntakeTasks
    <3>2. status \in Intake!Status
      BY <1>0
    <3> HIDE DEF status
    <3> QED BY <1>0, <3>1, <3>2 DEF IntakeTasks
  <2>2. /\ intake_inbox' \in Inboxes /\ ~intake_inbox'.hold
        /\ intake_inbox'.state = state /\ intake_inbox'.ack = intake_inbox.ack
    <3>1. intake_inbox' = [intake_inbox EXCEPT !.hold = FALSE, !.state = state]
      BY <1>4 DEF Intake!Release, Intake!ReleasedState
    <3>2. state \in InboxStates
      BY DEF InboxStates
    <3> HIDE DEF state
    <3> QED BY <1>0, <3>1, <3>2 DEF Inboxes
  <2>3. intake_inbox'.ack => intake_inbox'.state # "REGISTERED"
    BY <2>2
  <2> HIDE DEF state
  <2> QED BY <1>4, <2>1, <2>2, <2>3 DEF IntakeInv, Intake!Release
<1>5. ASSUME Intake!Retry PROVE IntakeInv'
  <2>1. /\ intake_task' \in IntakeTasks /\ ~intake_task'.hold /\ intake_task'.result = "none"
    BY <1>5 DEF Intake!Retry, IntakeTasks
  <2> QED BY <1>5, <2>1 DEF IntakeInv, Intake!Retry
<1>6. ASSUME Intake!Reconcile PROVE IntakeInv'
  <2>1. CASE intake_inbox.hold \/ intake_task.hold
    <3>1. "RECONCILIATION_HOLD" \in InboxStates
      BY DEF InboxStates
    <3>2. /\ intake_inbox' \in Inboxes /\ intake_inbox'.hold
          /\ intake_inbox'.state = "RECONCILIATION_HOLD"
      BY <1>0, <1>6, <2>1, <3>1, InboxHolds DEF Intake!Reconcile, Intake!Followed
    <3> QED BY <1>6, <2>1, <3>2 DEF IntakeInv, Intake!Reconcile, Intake!Registered
  <2>2. CASE ~(intake_inbox.hold \/ intake_task.hold)
    <3>1. "FOLLOWS" \in InboxStates
      BY DEF InboxStates
    <3>2. \/ intake_inbox' = intake_inbox
          \/ /\ intake_inbox' \in Inboxes /\ intake_inbox'.hold = intake_inbox.hold
             /\ intake_inbox'.state = "FOLLOWS"
      BY <1>0, <1>6, <2>2, <3>1, InboxFollows DEF Intake!Reconcile, Intake!Followed
    <3> QED BY <1>6, <2>2, <3>2 DEF IntakeInv, Intake!Reconcile, Intake!Registered
  <2> QED BY <2>1, <2>2
<1> QED BY <1>1, <1>2, <1>3, <1>4, <1>5, <1>6

LEMMA IntakeTaskMoves ==
  ASSUME IntakeAssumption, IntakeInv,
         \/ Intake!Continue \/ Intake!Dispatch \/ Intake!Claim \/ Intake!Ends
         \/ Intake!Watchdog \/ Intake!Cancel \/ Intake!Requeue
  PROVE  IntakeInv'
<1> USE IntakeStatuses DEF IntakeAssumption, Intake!worktree, Intake!history
<1>0. /\ intake_task \in IntakeTasks /\ intake_task.status \in Intake!Status
      /\ intake_task.hold \in BOOLEAN /\ intake_task.result \in Intake!Results
  BY TaskFields DEF IntakeInv
<1>1. ASSUME intake_task' = intake_task \/ \E s \in Intake!Status : intake_task' = [intake_task EXCEPT !.status = s]
      PROVE  /\ intake_task' \in IntakeTasks /\ intake_task'.hold = intake_task.hold
             /\ intake_task'.result = intake_task.result
  <2>1. ASSUME NEW s \in Intake!Status, intake_task' = [intake_task EXCEPT !.status = s]
        PROVE  /\ intake_task' \in IntakeTasks /\ intake_task'.hold = intake_task.hold
               /\ intake_task'.result = intake_task.result
    BY <1>0, <2>1 DEF IntakeTasks
  <2> QED BY <1>0, <1>1, <2>1
<1>2. CASE Intake!Continue \/ Intake!Cancel \/ Intake!Requeue
  <2>1. \E s \in Intake!Status : intake_task' = [intake_task EXCEPT !.status = s]
    BY <1>2 DEF Intake!Continue, Intake!Cancel, Intake!Requeue
  <2>2. UNCHANGED <<intake_inbox, intake_reviewer, intake_verdict, intake_cli, intake_head, intake_diff,
                    intake_bound, intake_evidence, intake_recovered, intake_stops, intake_retried>>
    BY <1>2 DEF Intake!Continue, Intake!Cancel, Intake!Requeue
  <2> QED BY <1>1, <2>1, <2>2 DEF IntakeInv
<1>3. CASE Intake!Dispatch
  <2>1. intake_reviewer' \in {"none", "ASSIGNED", "PASS"} /\ intake_bound' \in intake_Commits \cup {0}
    BY <1>3 DEF Intake!Dispatch, IntakeInv
  <2>2. \E s \in Intake!Status : intake_task' = [intake_task EXCEPT !.status = s]
    BY <1>3 DEF Intake!Dispatch
  <2> QED BY <1>1, <1>3, <2>1, <2>2 DEF IntakeInv, Intake!Dispatch
<1>4. CASE Intake!Claim /\ intake_head = intake_bound
  <2>1. \E s \in Intake!Status : intake_task' = [intake_task EXCEPT !.status = s]
    BY <1>4 DEF Intake!Claim
  <2> QED BY <1>1, <1>4, <2>1 DEF IntakeInv, Intake!Claim
<1>5. CASE Intake!Watchdog \/ (Intake!Claim /\ intake_head # intake_bound)
  <2>1. \E r \in {"none", "watchdog"} : intake_task' = [intake_task EXCEPT !.status = "WAITING_MAIN", !.result = r]
    BY <1>5 DEF Intake!Watchdog, Intake!Claim, Intake!Row
  <2>2. /\ intake_task' \in IntakeTasks /\ intake_task'.hold = intake_task.hold
        /\ intake_task'.result \in {"none", "watchdog"}
    BY <1>0, <2>1 DEF IntakeTasks
  <2>3. UNCHANGED <<intake_inbox, intake_reviewer, intake_verdict, intake_cli, intake_head, intake_diff,
                    intake_bound, intake_evidence, intake_recovered, intake_stops, intake_retried>>
    BY <1>5 DEF Intake!Watchdog, Intake!Claim
  <2> QED BY <2>2, <2>3 DEF IntakeInv
<1>6. CASE Intake!Ends
  <2>1. intake_verdict' \in Verdicts
    <3>1. [review |-> "REVISION_REQUIRED", qa |-> FALSE] \in Verdicts
      BY DEF Verdicts
    <3>2. [review |-> "REVIEW_PASS", qa |-> FALSE] \in Verdicts
      BY DEF Verdicts
    <3>3. [review |-> "REVIEW_PASS", qa |-> TRUE] \in Verdicts
      BY DEF Verdicts
    <3> QED BY <1>6, <3>1, <3>2, <3>3 DEF Intake!Ends, IntakeInv
  <2>2. intake_task' = intake_task \/ \E s \in Intake!Status : intake_task' = [intake_task EXCEPT !.status = s]
    BY <1>6 DEF Intake!Ends
  <2>3. intake_reviewer' \in {"none", "ASSIGNED", "PASS"}
    BY <1>6 DEF Intake!Ends, IntakeInv
  <2> QED BY <1>1, <1>6, <2>1, <2>2, <2>3 DEF IntakeInv, Intake!Ends
<1> QED BY <1>2, <1>3, <1>4, <1>5, <1>6

LEMMA IntakeCounts ==
  ASSUME IntakeAssumption, IntakeInv,
         \/ Intake!Gather \/ Intake!Worktree \/ Intake!SafeStop
         \/ \E old, new \in intake_Commits : Intake!Rebind(old, new)
         \/ \E role \in Intake!Targets : Intake!Recover(role)
  PROVE  IntakeInv'
<1> USE DEF IntakeAssumption, Intake!worktree, Intake!history
<1>0. /\ intake_task \in IntakeTasks /\ intake_task.status \in Intake!Status
      /\ intake_task.hold \in BOOLEAN /\ intake_task.result \in Intake!Results
  BY TaskFields DEF IntakeInv
<1>1. CASE Intake!Gather
  <2>1. intake_evidence' \in Evidences
    BY <1>1 DEF Intake!Gather, Evidences, IntakeInv
  <2> QED BY <1>1, <2>1 DEF IntakeInv, Intake!Gather
<1>2. CASE Intake!Worktree
  <2>0. 0 \in Intake!Diffs
    BY DEF Intake!Diffs
  <2>1. intake_head' \in intake_Commits /\ intake_diff' \in Intake!Diffs
    BY <1>2, <2>0 DEF Intake!Worktree, IntakeInv
  <2> QED BY <1>2, <2>1 DEF IntakeInv, Intake!Worktree
<1>3. ASSUME NEW old \in intake_Commits, NEW new \in intake_Commits, Intake!Rebind(old, new)
      PROVE  IntakeInv'
  BY <1>3 DEF IntakeInv, Intake!Rebind
<1>4. /\ intake_recovered.count <= intake_stops /\ intake_recovered.count \in Nat
      /\ intake_stops \in Nat /\ intake_stops \in 0 .. intake_MaxStops
  <2>1. /\ intake_recovered \in Recoveries /\ intake_stops \in 0 .. intake_MaxStops
        /\ intake_recovered.count <= intake_stops
    BY DEF IntakeInv
  <2>2. intake_recovered.count \in Nat
    BY <2>1 DEF Recoveries
  <2>3. intake_stops \in Nat
    BY <2>1
  <2> QED BY <2>1, <2>2, <2>3
<1>5. CASE Intake!SafeStop
  <2>1. intake_task' \in IntakeTasks /\ intake_task'.hold = intake_task.hold
    BY <1>0, <1>5, IntakeStatuses DEF Intake!SafeStop, Intake!Row, IntakeTasks
  <2>2. intake_stops' \in 0 .. intake_MaxStops /\ intake_recovered.count < intake_stops'
    <3>1. intake_stops < intake_MaxStops /\ intake_stops' = intake_stops + 1
      BY <1>5 DEF Intake!SafeStop
    <3> QED BY <1>4, <3>1
  <2>3. intake_recovered'.count = intake_recovered.count /\ intake_recovered.count <= intake_stops'
    <3>1. intake_stops' = intake_stops + 1 /\ intake_recovered' = intake_recovered
      BY <1>5 DEF Intake!SafeStop
    <3> QED BY <1>4, <3>1
  <2> QED BY <1>5, <2>1, <2>2, <2>3 DEF IntakeInv, Intake!SafeStop
<1>6. ASSUME NEW role \in Intake!Targets, Intake!Recover(role) PROVE IntakeInv'
  <2>1. intake_task' \in IntakeTasks /\ intake_task'.hold = intake_task.hold /\ intake_task'.result = "recovered"
    BY <1>0, <1>6, IntakeStatuses DEF Intake!Recover, Intake!Row, IntakeTasks
  <2>2. intake_recovered' \in Recoveries /\ intake_recovered'.count = intake_recovered.count + 1
    <3>1. intake_recovered' = [last |-> role, count |-> intake_recovered.count + 1]
      BY <1>6 DEF Intake!Recover
    <3> QED BY <1>4, <3>1 DEF Recoveries
  <2>3. intake_recovered'.count <= intake_stops
    <3>1. intake_recovered.count < intake_stops
      BY <1>6 DEF Intake!Recover, Intake!Recoverable, IntakeInv
    <3> QED BY <1>4, <2>2, <3>1
  <2>4. intake_reviewer' \in {"none", "ASSIGNED", "PASS"}
    BY <1>6 DEF Intake!Recover, IntakeInv
  <2> QED BY <1>6, <2>1, <2>2, <2>3, <2>4 DEF IntakeInv, Intake!Recover
<1> QED BY <1>1, <1>2, <1>3, <1>5, <1>6

LEMMA IntakeStarts == ASSUME IntakeAssumption, Intake!Init PROVE IntakeInv
<1>1. intake_task \in IntakeTasks /\ intake_task.result = "none"
  BY IntakeStatuses DEF Intake!Init, IntakeTasks
<1>2. intake_inbox \in Inboxes /\ intake_inbox.state = "none"
  BY DEF Intake!Init, Inboxes, InboxStates
<1>3. intake_verdict \in Verdicts
  BY DEF Intake!Init, Verdicts
<1>4. intake_evidence \in Evidences
  BY DEF Intake!Init, Intake!NoEvidence, Evidences, Intake!Diffs, IntakeAssumption
<1>5. intake_recovered \in Recoveries /\ intake_recovered.count = 0
  BY DEF Intake!Init, Recoveries
<1>6. intake_diff \in Intake!Diffs
  BY DEF Intake!Init, Intake!Diffs, IntakeAssumption
<1>7. intake_stops = 0 /\ intake_stops \in 0 .. intake_MaxStops
  BY DEF Intake!Init, IntakeAssumption
<1>8. intake_recovered.count <= intake_stops
  BY <1>5, <1>7
<1>9. /\ intake_reviewer = "none" /\ intake_cli = FALSE /\ intake_head = 1 /\ intake_bound = 0
      /\ intake_retried = FALSE
  BY DEF Intake!Init
<1> QED BY <1>1, <1>2, <1>3, <1>4, <1>5, <1>6, <1>7, <1>8, <1>9 DEF IntakeInv, IntakeAssumption

LEMMA IntakeInductive ==
  ASSUME IntakeAssumption
  PROVE  ServicesSpec => [](focus = "intake" => IntakeInv)
<1> DEFINE Held == focus = "intake" => IntakeInv
<1>1. ServicesInit => Held
  BY IntakeStarts DEF ServicesInit, On
<1>2. IntakeInv /\ [Intake!Next]_intakeVars => IntakeInv'
  <2>1. IntakeInv /\ UNCHANGED intakeVars => IntakeInv'
    <3> SUFFICES ASSUME IntakeInv, UNCHANGED intakeVars PROVE IntakeInv'
      OBVIOUS
    <3>1. UNCHANGED <<intake_task, intake_inbox, intake_reviewer, intake_verdict, intake_cli, intake_head,
                      intake_diff, intake_bound, intake_evidence, intake_recovered, intake_stops,
                      intake_retried>>
      BY DEF intakeVars
    <3> QED BY <3>1 DEF IntakeInv
  <2> QED BY <2>1, IntakeRowSteps, IntakeTaskMoves, IntakeCounts DEF Intake!Next
<1>3. Held /\ [ServicesNext]_serviceVars => Held'
  BY <1>2, FocusedStep
<1> QED BY <1>1, <1>3, PTL DEF ServicesSpec

\* However recoveries, holds, cancellations and retries follow one another, every
\* TASK_RECOVERY event answers a safe stop of its own.
THEOREM ServicesRecoverOnce ==
  ASSUME IntakeAssumption
  PROVE  ServicesSpec => []OneRecoveryPerStop
<1>1. (focus = "intake" => IntakeInv) => OneRecoveryPerStop
  BY IntakeInvImplies DEF OneRecoveryPerStop
<1> QED BY <1>1, IntakeInductive, PTL

\* The row of the bridge and the row of the Task agree on holds and ACKs in every
\* order of what the bridge, the operators, the Runtime and the worktree do.
THEOREM ServicesAgree ==
  ASSUME IntakeAssumption
  PROVE  ServicesSpec => []BridgeAgrees
<1>1. (focus = "intake" => IntakeInv) => BridgeAgrees
  BY IntakeInvImplies DEF BridgeAgrees
<1> QED BY <1>1, IntakeInductive, PTL
-----------------------------------------------------------------------------
(***************************************************************************)
(* The types.  Most invariants above have those of their service; the      *)
(* manager's, the pause's and the experts' need none but their own.        *)
(***************************************************************************)
StoppedTasks ==
  [status : {"RUNNING", "WAITING_MAIN", "QUEUED", "HUMAN_GATE"}, hold : BOOLEAN,
   watchdog : BOOLEAN, live : BOOLEAN]

\* What the transitions of the stopped Task write.
LEMMA TaskWrites ==
  ASSUME NEW record \in StoppedTasks, NEW status \in {"RUNNING", "WAITING_MAIN", "QUEUED", "HUMAN_GATE"},
         NEW b \in BOOLEAN
  PROVE  /\ [record EXCEPT !.status = status] \in StoppedTasks
         /\ [record EXCEPT !.status = status, !.live = b] \in StoppedTasks
         /\ [record EXCEPT !.status = status, !.watchdog = b] \in StoppedTasks
         /\ [record EXCEPT !.live = FALSE] \in StoppedTasks
         /\ [record EXCEPT !.hold = TRUE, !.watchdog = FALSE, !.status = status] \in StoppedTasks
         /\ [record EXCEPT !.hold = FALSE, !.status = status] \in StoppedTasks
BY DEF StoppedTasks

\* The Task of a step, which is a record of the rows above or untouched.
LEMMA TaskWritten ==
  ASSUME manager_task \in StoppedTasks, [Manager!Next]_managerVars
  PROVE  manager_task' \in StoppedTasks
<1>1. manager_task.status \in {"RUNNING", "WAITING_MAIN", "QUEUED", "HUMAN_GATE"}
      /\ manager_task.live \in BOOLEAN
  BY DEF StoppedTasks
<1>2. CASE \E u \in manager_Consumers, a \in manager_Accepts : Manager!Consume(u, a)
  BY <1>2, TaskWrites DEF Manager!Consume, Manager!Queued
<1>3. CASE \/ Manager!Crash \/ Manager!CliEnds
           \/ \E u \in manager_Consumers, a \in manager_Accepts : Manager!CrashAfterClaim(u, a)
  BY <1>3, TaskWrites DEF Manager!Crash, Manager!CrashAfterClaim, Manager!Dies, Manager!CliEnds
<1>4. CASE Manager!Continue \/ Manager!Run
  <2>1. PICK status \in {"RUNNING", "QUEUED"} :
          manager_task' = [manager_task EXCEPT !.status = status,
                             !.live = IF status = "RUNNING" THEN TRUE ELSE @]
    BY <1>4 DEF Manager!Continue, Manager!Run, Manager!TaskMoves
  <2>2. PICK b \in BOOLEAN : manager_task' = [manager_task EXCEPT !.status = status, !.live = b]
    BY <1>1, <2>1
  <2>3. QED
    BY <2>2, TaskWrites
<1>5. CASE \E watchdog \in BOOLEAN : Manager!Stop(watchdog)
  BY <1>5, TaskWrites DEF Manager!Stop
<1>6. CASE Manager!Hold \/ Manager!Release
  <2>1. PICK status \in {"RUNNING", "WAITING_MAIN", "QUEUED", "HUMAN_GATE"} :
          \/ manager_task' = [manager_task EXCEPT !.hold = TRUE, !.watchdog = FALSE, !.status = status]
          \/ manager_task' = [manager_task EXCEPT !.hold = FALSE, !.status = status]
    BY <1>1, <1>6 DEF Manager!Hold, Manager!Release
  <2>2. QED
    BY <2>1, TaskWrites
<1>7. CASE UNCHANGED manager_task
  BY <1>7
<1>8. QED
  BY <1>2, <1>3, <1>4, <1>5, <1>6, <1>7
     DEF Manager!Next, Manager!Ask, Manager!Answer, Manager!Consumed, managerVars

\* The rest of what JudgeInv leaves out.
LEMMA ManagerTypesNext ==
  ASSUME Manager!TypeOK, [Manager!Next]_managerVars, manager_MaxStops \in Nat
  PROVE  Manager!TypeOK'
<1> USE DEF Manager!TypeOK
<1>1. manager_task' \in StoppedTasks
  BY TaskWritten DEF StoppedTasks
<1>2. manager_task' \in [status : {"RUNNING", "WAITING_MAIN", "QUEUED", "HUMAN_GATE"}, hold : BOOLEAN,
                         watchdog : BOOLEAN, live : BOOLEAN]
  BY <1>1 DEF StoppedTasks
<1>3. ASSUME NEW c \in manager_Askers, NEW a \in manager_Accepts, Manager!Ask(c, a)
      PROVE  Manager!TypeOK'
  BY <1>2, <1>3 DEF Manager!Ask
<1>4. ASSUME NEW c \in manager_Askers, NEW r \in Manager!Results, Manager!Answer(c, r)
      PROVE  Manager!TypeOK'
  BY <1>2, <1>4 DEF Manager!Answer
<1>5. ASSUME NEW u \in manager_Consumers, NEW a \in manager_Accepts,
             Manager!Consume(u, a) \/ Manager!CrashAfterClaim(u, a)
      PROVE  Manager!TypeOK'
  BY <1>2, <1>5 DEF Manager!Consume, Manager!CrashAfterClaim, Manager!Dies
<1>6. ASSUME NEW u \in manager_Consumers, Manager!Consumed(u) PROVE Manager!TypeOK'
  BY <1>2, <1>6 DEF Manager!Consumed
<1>7. CASE Manager!Crash
  BY <1>2, <1>7 DEF Manager!Crash, Manager!Dies
<1>8. CASE Manager!Continue \/ Manager!Run
  BY <1>2, <1>8 DEF Manager!Continue, Manager!Run, Manager!TaskMoves
<1>9. CASE Manager!CliEnds \/ Manager!Hold \/ Manager!Release
  BY <1>2, <1>9 DEF Manager!CliEnds, Manager!Hold, Manager!Release
<1>10. CASE \E watchdog \in BOOLEAN : Manager!Stop(watchdog)
  BY <1>2, <1>10 DEF Manager!Stop
<1>11. CASE UNCHANGED managerVars
  BY <1>11 DEF managerVars
<1>12. QED
  BY <1>3, <1>4, <1>5, <1>6, <1>7, <1>8, <1>9, <1>10, <1>11 DEF Manager!Next

\* The services whose types are inductive by themselves.
OwnTypes ==
  /\ focus = "manager" => Manager!TypeOK
  /\ focus = "pause" => PauseP!TypeOK
  /\ focus = "expert" => ExpertP!TypeOK

LEMMA OwnTypesInductive ==
  ASSUME manager_MaxStops \in Nat, pause_MaxPauses \in Nat
  PROVE  ServicesSpec => []OwnTypes
<1>1. ServicesInit => OwnTypes
  <2>1. Manager!Init => Manager!TypeOK
    BY DEF Manager!Init, Manager!TypeOK
  <2>2. QED
    BY <2>1, PauseStarts, PauseP!TypesInit, ExpertStarts, ExpertP!TypesInit
       DEF OwnTypes, ServicesInit, On
<1>2. OwnTypes /\ [ServicesNext]_serviceVars => OwnTypes'
  BY FocusedStep, ManagerTypesNext, PauseSteps, PauseP!TypesNext, ExpertSteps, ExpertP!TypesNext
     DEF OwnTypes
<1>3. QED
  BY <1>1, <1>2, PTL DEF ServicesSpec

LEMMA SameTypes ==
  /\ WireP!TypeOK => Wire!TypeOK
  /\ PauseP!TypeOK => Pause!TypeOK
  /\ ExpertP!TypeOK => Expert!TypeOK
<1>1. WireP!TypeOK => Wire!TypeOK
  BY DEF WireP!TypeOK, Wire!TypeOK, WireP!RowStates, Wire!RowStates
<1>2. PauseP!TypeOK => Pause!TypeOK
  BY DEF PauseP!TypeOK, Pause!TypeOK, PauseP!Tasks, Pause!Tasks, PauseP!Drivers, Pause!Drivers,
     PauseP!Sweep, Pause!Sweep, PauseP!None, Pause!None, PauseP!Active, Pause!Active
<1>3. ExpertP!TypeOK => Expert!TypeOK
  BY DEF ExpertP!TypeOK, Expert!TypeOK, ExpertP!Engaged, Expert!Engaged, ExpertP!Results,
     Expert!Results
<1>4. QED
  BY <1>1, <1>2, <1>3

\* What the theorems above ask of the constants, taken together.
ServicesAssumption ==
  /\ wire_Fragments \in Nat \ {0} /\ BufferAssumption /\ RoomAssumption /\ IntakeAssumption
  /\ TalkAssumption /\ FreeAssumption /\ Choice!None \notin choice_Models
  /\ manager_MaxStops \in Nat /\ pause_MaxPauses \in Nat
  /\ office_MaxTriage \in Nat /\ Office!None \notin office_Anomalies /\ LockAssumption

\* Every variable of every service keeps its type: every row, call and record of
\* the services' code has one of the shapes the modules declare.
THEOREM ServicesTyped ==
  ASSUME ServicesAssumption
  PROVE  ServicesSpec => []ServicesTypeOK
<1> USE DEF ServicesAssumption
<1>1. ServicesSpec => [](focus = "wire" => WireP!Inv)
  BY WireInductive
<1>2. ServicesSpec => [](focus = "fragment" => BufferInv)
  BY BufferInductive
<1>3. ServicesSpec => [](focus = "room" => RoomInv)
  BY RoomInductive
<1>4. ServicesSpec => [](focus = "intake" => IntakeInv)
  BY IntakeInductive
<1>5. ServicesSpec => [](focus = "talk" => TalkInv)
  BY TalkInductive
<1>6. ServicesSpec => []((focus = "fallback" => FallbackInv) /\ (focus = "pool" => PoolInv))
  BY FreeInductive
<1>7. ServicesSpec => [](focus = "choice" => ChoiceInv)
  BY ChoiceInductive
<1>8. ServicesSpec => [](focus = "office" => OfficeInv)
  BY OfficeInductive
<1>9. ServicesSpec => [](focus = "lock" => LockInv)
  BY LockInductive
<1>10. ServicesSpec => []OwnTypes
  BY OwnTypesInductive
<1>11. ASSUME RunInv, OwnTypes, focus = "wire" => WireP!Inv, focus = "fragment" => BufferInv,
              focus = "room" => RoomInv, focus = "intake" => IntakeInv, focus = "talk" => TalkInv,
              (focus = "fallback" => FallbackInv) /\ (focus = "pool" => PoolInv),
              focus = "choice" => ChoiceInv, focus = "office" => OfficeInv, focus = "lock" => LockInv
       PROVE  ServicesTypeOK
  BY <1>11, RunInvImplies, SameTypes, IntakeInvImplies
     DEF ServicesTypeOK, OwnTypes, WireP!Inv, BufferInv, RoomInv, TalkInv, FallbackInv, PoolInv,
         ChoiceInv, OfficeInv, LockInv
<1>12. QED
  BY <1>1, <1>2, <1>3, <1>4, <1>5, <1>6, <1>7, <1>8, <1>9, <1>10, <1>11, RunInductive, PTL
=============================================================================

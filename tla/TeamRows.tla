------------------------------ MODULE TeamRows ------------------------------
(***************************************************************************)
(* One team Task of the orchestrator: the rows that describe it (tasks,    *)
(* task_teams, task_roles, inbound_messages, protocol_events), the Discord *)
(* messages under way, the calls in progress, and how the code reads them. *)
(* TeamDispatch, WorkerRuntime and Supervision act on this state; TeamChain *)
(* composes them.  The Node process is single-threaded: a step of the model *)
(* is the code between two awaits.                                         *)
(*                                                                         *)
(* "DEVELOPER" stands for the three implementing Roles (DEVELOPER,         *)
(* DEBUGGER, REFACTORER), which the modelled code treats alike.            *)
(***************************************************************************)
EXTENDS TaskStateMachine, Naturals, Sequences, FiniteSets

CONSTANTS
  Agents,        \* the coding agents, one CLI worker and one Discord bot each
  NoAgent,       \* an unassigned agent column
  Orchestrator,  \* the sender of scheduler traffic
  RoleOf,        \* the Roles of the team, in sequence order
  MaxDispatch,   \* bound: scheduler TASK messages in a behaviour
  MaxRound,      \* bound: revision rounds
  Faults         \* which of FaultKinds may happen

FaultKinds ==
  {"crash", "loss", "watchdog", "lost_process", "cancel", "budget", "throw",
   "binding", "touch", "redrive", "continue", "refuse", "dirty", "unroutable"}

N == Len(RoleOf)
Roles == 1 .. N

\* The sequences DEFAULT_ROLE_POLICY gives the task types whose only executing
\* Role is an implementing one (ARCHITECT and MCP_SPECIALIST are left out).
Chains ==
  {<<"DEVELOPER", "REVIEWER", "QA">>, <<"DEVELOPER", "REVIEWER">>,
   <<"DEVELOPER">>, <<"REVIEWER">>, <<"QA">>}

ASSUME ChainAssumption == RoleOf \in Chains
ASSUME AgentsAssumption == NoAgent \notin Agents
ASSUME BoundsAssumption == MaxDispatch \in Nat /\ MaxRound \in Nat
ASSUME FaultsAssumption == Faults \subseteq FaultKinds

Dispatchers == {"tick", "activation"}
RoleStatus == {"PENDING", "ASSIGNED", "ACTIVE", "PASS", "FAIL", "BLOCKED"}
TeamStatus == {"NONE", "PLANNED", "ACTIVE", "BLOCKED", "COMPLETE"}
Terminal == {"COMPLETED", "CANCELLED"}

\* A wire message; the record is its logical key (inboundGuard.logicalKeyFor).
\* Only scheduler TASKs carry a dispatch_id; did = 0 is its absence.
Messages ==
  [kind : {"TASK", "HANDOFF", "REVISION_REQUEST"},
   from : Agents \cup {Orchestrator}, to : Agents, seq : Roles,
   round : 0 .. MaxRound, did : 0 .. MaxDispatch]

VARIABLES
  status,      \* tasks.status
  attempt,     \* tasks.attempt
  curSeq,      \* tasks.current_role_sequence, 0 when NULL
  assigned,    \* tasks.assigned_agent
  why,         \* which kind of text tasks.result holds
  team,        \* task_teams.status, "NONE" before the team is planned
  roleStatus,  \* task_roles.status
  roleAgent,   \* task_roles.assigned_agent
  roleRound,   \* task_roles.revision_round
  dirty,       \* passed Roles whose evidence lines name a failure
  verdict,     \* a chain_complete VERDICT is in protocol_events
  answered,    \* an ACK or RESULT follows the latest TASK in protocol_events
  qaSent,      \* recipient and round of every QA TASK in protocol_events
  bus,         \* messages published and not yet delivered
  seen,        \* logical keys of inbound_messages RECEIVED or PROCESSED
  pc,          \* per agent: where its WorkerRuntime.receive stands
  flight,      \* per agent: the locals of that receive
  busy,        \* agents whose row is BUSY with this Task
  orphan,      \* a RUNNING worker_processes row survives from an earlier run
  budget,      \* RunBudgetController.canContinue
  dpc,         \* per dispatcher: where its call stands
  plan,        \* per dispatcher: the first Role, as read before the awaits
  nDisp,       \* scheduler TASK messages so far; also their dispatch_id
  stale        \* history: Roles whose PASS predates a PASS upstream of them

taskVars  == <<status, attempt, curSeq, assigned, why>>
teamVars  == <<team, roleStatus, roleAgent, roleRound, dirty>>
eventVars == <<verdict, answered, qaSent>>
wireVars  == <<bus, seen>>
flightVars == <<pc, flight, busy>>
dispVars  == <<dpc, plan, nDisp>>
vars == <<taskVars, teamVars, eventVars, wireVars, flightVars, orphan, budget,
          dispVars, stale>>

-----------------------------------------------------------------------------
(* Reading the rows *)

Implements(s) == RoleOf[s] = "DEVELOPER"
AgentsOf(T, ag) == {ag[t] : t \in T} \ {NoAgent}

RoutableIgnoringReview(s, T, ag) ==
  Agents \ AgentsOf({t \in T : Implements(t)}, ag)

\* The Roles whose agents may not take Role s.
Clashing(s) ==
  CASE RoleOf[s] = "QA" -> {"DEVELOPER", "REVIEWER"}
    [] RoleOf[s] = "REVIEWER" -> {"DEVELOPER"}
    [] OTHER -> {"REVIEWER", "QA"}

\* AgentRouter.route for Role s when the Roles T are held as ag says: the
\* agents separation of duties leaves.  Health, capability, connection and the
\* manual override only narrow the choice, down to nobody.
Routable(s, T, ag) ==
  Agents \ AgentsOf({t \in T : RoleOf[t] \in Clashing(s)}, ag)

RunningRow(a) == pc[a] = "executing" /\ ~flight[a].lost
NoRunningRow == ~orphan /\ \A a \in Agents : ~RunningRow(a)

AllPassed == \A s \in Roles : roleStatus[s] = "PASS"

CompletesOnStatusAlone == AllPassed

\* review/verdict.ts canCompleteTeam, on the chains modelled here.
CanCompleteTeam ==
  /\ AllPassed
  /\ \E r \in Roles :
       /\ RoleOf[r] = "REVIEWER"
       /\ \A t \in Roles : Implements(t) => roleAgent[t] # roleAgent[r]
  /\ \A q \in Roles : RoleOf[q] = "QA" =>
       \A t \in Roles \ {q} : roleAgent[t] # roleAgent[q]
  /\ dirty = {}

\* TaskCompletionProjection.reconcile: whether its gate opens in status st, and
\* the status it leaves.  (verdict' of the same step counts: v.)
GateOpens(st, tm, v) ==
  /\ tm # "NONE"
  /\ st \notin {"FAIL", "BLOCKED", "HUMAN_GATE"}
  /\ st = "WAITING_MAIN" => v
  /\ CanCompleteTeam
  /\ tm = "COMPLETE" \/ v

ReconciledToTeamStatus(st, tm, v) == IF GateOpens(st, tm, v) THEN "COMPLETE" ELSE st

Reconciled(st, tm, v) ==
  IF /\ GateOpens(st, tm, v)
     /\ st \in {"DISPATCHED", "CLAIMED", "RUNNING", "WAITING_RESULT",
                "REVIEWING", "WAITING_MAIN", "PASS"}
  THEN "COMPLETED" ELSE st

ReconciledTeam(st, tm, v) == IF GateOpens(st, tm, v) THEN "COMPLETE" ELSE tm

\* TaskCompletionProjection.reconcile on the rows as they are, then st.
ReconcileTo(st) ==
  /\ team' = ReconciledTeam(status, team, verdict)
  /\ status' = st
  /\ why' = IF st = status THEN why ELSE "other"
\* ... which touches the tasks row, unless it says COMPLETED already.
Rewrites(st) ==
  \/ GateOpens(status, team, verdict) /\ status # "COMPLETED"
  \/ st # status

\* Every write to the tasks row moves updated_at, which the fence compares.
Touched(f) ==
  [x \in Agents |->
     IF pc[x] = "executing" THEN [f[x] EXCEPT !.touched = TRUE] ELSE f[x]]

\* The locals of WorkerRuntime.receive; Idle(a) when no call is in flight.
Flights ==
  [msg : Messages, seq : 0 .. N, attempt : Nat, ok : BOOLEAN,
   target : Agents \cup {NoAgent},
   touched : BOOLEAN,  \* the tasks row was written since the fence's version
   lost : BOOLEAN,     \* its worker_processes row no longer says RUNNING
   based : BOOLEAN]    \* history: no Role upstream has passed again since
Idle(a) ==
  [msg |-> [kind |-> "TASK", from |-> Orchestrator, to |-> a, seq |-> 1,
            round |-> 0, did |-> 0],
   seq |-> 0, attempt |-> 0, ok |-> FALSE, target |-> NoAgent,
   touched |-> FALSE, lost |-> FALSE, based |-> TRUE]

NoPlan == [agent |-> NoAgent, round |-> 0]

\* Protocol.emit: the event row is committed, then published.
Publish(m) == bus' = bus \cup {m} \/ ("loss" \in Faults /\ bus' = bus)

\* TaskRepository.transition: assertTransition, then the row.
Transition(to) == CanTransition(status, to) /\ status' = to
MoveToWaitingMain(reason) == Transition("WAITING_MAIN") /\ why' = reason

TaskTypeOK ==
  /\ status \in Status /\ attempt \in Nat /\ curSeq \in 0 .. N
  /\ assigned \in Agents \cup {NoAgent}
  /\ why \in {"none", "watchdog", "other"}
TeamTypeOK ==
  /\ team \in TeamStatus
  /\ roleStatus \in [Roles -> RoleStatus]
  /\ roleAgent \in [Roles -> Agents \cup {NoAgent}]
  /\ roleRound \in [Roles -> 0 .. MaxRound]
  /\ dirty \subseteq Roles /\ stale \subseteq Roles
EventTypeOK ==
  /\ verdict \in BOOLEAN /\ answered \in {"noTask", "open", "answered"}
  /\ qaSent \subseteq Agents \X (0 .. MaxRound)
WireTypeOK == bus \subseteq Messages /\ seen \subseteq Messages
FlightTypeOK ==
  /\ pc \in [Agents -> {"idle", "acking", "executing", "publishing",
                        "verdict", "handing"}]
  /\ flight \in [Agents -> Flights]
  /\ busy \subseteq Agents /\ orphan \in BOOLEAN /\ budget \in BOOLEAN
DispTypeOK ==
  /\ dpc \in [Dispatchers -> {"idle", "listed", "preparing"}]
  /\ plan \in [Dispatchers -> [agent : Agents \cup {NoAgent}, round : 0 .. MaxRound]]
  /\ nDisp \in 0 .. MaxDispatch
TypeOK ==
  /\ TaskTypeOK /\ TeamTypeOK /\ EventTypeOK
  /\ WireTypeOK /\ FlightTypeOK /\ DispTypeOK

Init ==
  /\ status = "QUEUED" /\ attempt = 0 /\ curSeq = 0 /\ assigned = NoAgent
  /\ why = "none"
  /\ team = "NONE"
  /\ roleStatus = [s \in Roles |-> "PENDING"]
  /\ roleAgent = [s \in Roles |-> NoAgent]
  /\ roleRound = [s \in Roles |-> 0]
  /\ dirty = {} /\ verdict = FALSE /\ answered = "noTask" /\ qaSent = {}
  /\ bus = {} /\ seen = {}
  /\ pc = [a \in Agents |-> "idle"] /\ flight = [a \in Agents |-> Idle(a)]
  /\ busy = {} /\ orphan = FALSE /\ budget = TRUE
  /\ dpc = [d \in Dispatchers |-> "idle"]
  /\ plan = [d \in Dispatchers |-> NoPlan]
  /\ nDisp = 0 /\ stale = {}

=============================================================================

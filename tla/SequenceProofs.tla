--------------------------- MODULE SequenceProofs ---------------------------
(***************************************************************************)
(* A team Task works through its Roles in sequence, for every chain, set of*)
(* agents, bound and set of faults without redrives: one CLI at a time,    *)
(* passes that only a revision takes back, completions that are earned,    *)
(* and so the sequential pipeline it promises.  With redrives all of it    *)
(* fails: a Role that is moved leaves its first agent with a claim.        *)
(***************************************************************************)
EXTENDS TeamChainProofs

\* RuntimeDispatchRecovery moves no dispatch to another agent.
Steady == "redrive" \notin Faults

\* The CLI of a's call is about to run, or runs.
OnRole(a) == pc[a] \in {"acking", "executing"}

\* The hand-off a recorded result asks for.
HandingOn(a) == pc[a] = "publishing" /\ HandsOn(a) /\ SeqOf(a) + 1 \in Roles
SendingBack(a) == pc[a] = "publishing" /\ SendsBack(a) /\ SeqOf(a) - 1 \in Roles

-----------------------------------------------------------------------------
(* The inductive invariant                                                 *)

\* What is sent, worked on or prepared belongs to the agent of its Role, and
\* the Task is assigned to the agent of the Role it stands at.
Addressed ==
  /\ \A m \in bus : roleAgent[m.seq] = m.to
  /\ \A a \in Agents : pc[a] # "idle" =>
       roleAgent[SeqOf(a)] = a /\ flight[a].seq = SeqOf(a)
  /\ \A d \in Dispatchers : dpc[d] = "preparing" => plan[d].agent = roleAgent[1]
  /\ assigned # NoAgent => curSeq \in Roles /\ roleAgent[curSeq] = assigned

\* A Task without a team has not begun.
Unplanned ==
  team = "NONE" =>
    assigned = NoAgent /\ \A s \in Roles : roleStatus[s] = "PENDING"

\* The Roles that passed are the first ones.
InOrder ==
  \A s, t \in Roles : s < t /\ roleStatus[t] = "PASS" => roleStatus[s] = "PASS"

\* Role s is the next to pass.
Reached(s) ==
  roleStatus[s] = "ACTIVE" /\ \A t \in Roles : t < s => roleStatus[t] = "PASS"

\* Work at round r of Role s is not older than the implementation it is about.
UpToDate(s, r) ==
  /\ Implements(s) => r >= roleRound[s]
  /\ RoleOf[s] = "REVIEWER" /\ s - 1 \in Roles => r >= roleRound[s - 1]

NoMessage(s) == \A m \in bus : m.seq # s

\* Agents work on the next Role only, on all that was done before it, and a
\* Role after the first is started by one message.
WorkInOrder ==
  \A a \in Agents : OnRole(a) =>
    /\ Reached(SeqOf(a)) /\ flight[a].based
    /\ UpToDate(SeqOf(a), flight[a].msg.round)
    /\ SeqOf(a) # 1 => NoMessage(SeqOf(a))
MessagesInOrder ==
  \A m \in bus : m.seq # 1 =>
    /\ Reached(m.seq) /\ UpToDate(m.seq, m.round)
    /\ \A n \in bus : n.seq = m.seq => n = m

\* Until it is handed on, a result stands and nobody is ahead of it.
ResultsStand ==
  \A a \in Agents :
    /\ pc[a] = "publishing" /\ Ok(a) => roleStatus[SeqOf(a)] = "PASS"
    /\ HandingOn(a) =>
         /\ flight[a].target = roleAgent[SeqOf(a) + 1]
         /\ roleStatus[SeqOf(a) + 1] # "PASS" /\ NoMessage(SeqOf(a) + 1)
         /\ \A b \in Agents : OnRole(b) \/ SendingBack(b) => SeqOf(b) # SeqOf(a) + 1
         /\ UpToDate(SeqOf(a), flight[a].msg.round)
    /\ SendingBack(a) =>
         /\ flight[a].target = roleAgent[SeqOf(a) - 1]
         /\ roleStatus[SeqOf(a) - 1] = "PASS" /\ roleStatus[SeqOf(a)] # "PASS"
         /\ NoMessage(SeqOf(a))
         /\ UpToDate(SeqOf(a), flight[a].msg.round)

\* A Role whose pass is overtaken has to pass again.
StaleIsOpen == \A s \in stale : roleStatus[s] # "PASS"

SequenceInv ==
  /\ DutiesInv /\ Addressed /\ Unplanned /\ InOrder /\ WorkInOrder
  /\ MessagesInOrder /\ ResultsStand /\ StaleIsOpen /\ CompletionIsEarned

-----------------------------------------------------------------------------
(* What the steps need to know of the chain, the types and the invariant   *)

\* Where the kinds of Roles stand in a chain.
LEMMA ChainShape ==
  \A s \in Roles :
    /\ s \in Nat /\ s >= 1 /\ s <= N
    /\ Implements(s) => s = 1
    /\ Implements(s) /\ s + 1 \in Roles => RoleOf[s + 1] = "REVIEWER"
    /\ RoleOf[s] = "REVIEWER" /\ s - 1 \in Roles => s = 2 /\ Implements(s - 1)
    /\ RoleOf[s] = "REVIEWER" /\ s + 1 \in Roles => s = 2
    /\ RoleOf[s] \in {"DEVELOPER", "REVIEWER", "QA"}
<1>1. CASE RoleOf = <<"DEVELOPER", "REVIEWER", "QA">>
  <2>1. N = 3 BY <1>1 DEF N
  <2>2. RoleOf[1] = "DEVELOPER" /\ RoleOf[2] = "REVIEWER" /\ RoleOf[3] = "QA"
    BY <1>1
  <2> QED BY <2>1, <2>2 DEF Roles, Implements
<1>2. CASE RoleOf = <<"DEVELOPER", "REVIEWER">>
  <2>1. N = 2 BY <1>2 DEF N
  <2>2. RoleOf[1] = "DEVELOPER" /\ RoleOf[2] = "REVIEWER"
    BY <1>2
  <2> QED BY <2>1, <2>2 DEF Roles, Implements
<1>3. CASE Len(RoleOf) = 1
  <2>1. N = 1 BY <1>3 DEF N
  <2> QED BY <2>1, ChainFacts DEF Roles, Implements
<1> QED BY <1>1, <1>2, <1>3, ChainAssumption DEF Chains

\* The types of what the steps read.
LEMMA Typed ==
  ASSUME DutiesInv
  PROVE  /\ bus \subseteq Messages
         /\ \A m \in Messages : m.to \in Agents /\ m.seq \in Roles /\ m.round \in Nat
         /\ pc \in [Agents -> {"idle", "acking", "executing", "publishing",
                               "verdict", "handing"}]
         /\ flight \in [Agents -> Flights]
         /\ \A a \in Agents : flight[a].msg \in Messages /\ SeqOf(a) \in Roles
         /\ roleStatus \in [Roles -> RoleStatus]
         /\ roleAgent \in [Roles -> Agents \cup {NoAgent}]
         /\ roleRound \in [Roles -> Nat]
         /\ dpc \in [Dispatchers -> {"idle", "listed", "preparing"}]
         /\ plan \in [Dispatchers -> [agent : Agents \cup {NoAgent}, round : 0 .. MaxRound]]
         /\ stale \subseteq Roles
BY BoundsAssumption
DEF DutiesInv, TypeInv, TypeOK, WireTypeOK, FlightTypeOK, TeamTypeOK, DispTypeOK,
    Messages, Flights, SeqOf

\* Nothing is in progress without a team.
LEMMA NothingWithoutTeam ==
  ASSUME DutiesInv, team = "NONE"
  PROVE  /\ bus = {} /\ \A a \in Agents : pc[a] = "idle"
         /\ \A d \in Dispatchers : dpc[d] # "preparing"
BY ChainFacts, AgentsAssumption
DEF DutiesInv, TypeInv, StaffedInProgress, InProgress, Staffed

\* Only one Role is the next to pass, and only its agent works on it.
LEMMA OneReached ==
  ASSUME NEW s \in Roles, NEW t \in Roles, Reached(s), Reached(t)
  PROVE  s = t
BY ChainShape DEF Reached

LEMMA OneOnRole ==
  ASSUME SequenceInv, NEW a \in Agents, NEW b \in Agents, OnRole(a), OnRole(b)
  PROVE  a = b
<1>1. SeqOf(a) = SeqOf(b)
  BY Typed, OneReached DEF SequenceInv, WorkInOrder
<1> QED BY <1>1 DEF SequenceInv, Addressed, OnRole

\* While an agent works no other Role is being started ...
LEMMA WorkIsAlone ==
  ASSUME SequenceInv, NEW a \in Agents, OnRole(a), NEW m \in bus
  PROVE  m.seq = 1
<1> SUFFICES ASSUME m.seq # 1 PROVE FALSE
  OBVIOUS
<1>1. m.seq = SeqOf(a)
  BY Typed, OneReached DEF SequenceInv, WorkInOrder, MessagesInOrder
<1> QED BY <1>1 DEF SequenceInv, WorkInOrder, NoMessage

\* ... and no result waits to be handed on.
LEMMA NoResultBesideWork ==
  ASSUME SequenceInv, NEW a \in Agents, OnRole(a), NEW b \in Agents
  PROVE  ~HandingOn(b) /\ ~SendingBack(b)
<1>1. /\ Reached(SeqOf(a)) /\ SeqOf(a) \in Roles /\ SeqOf(b) \in Roles
      /\ roleAgent[SeqOf(a)] = a
  BY Typed DEF SequenceInv, WorkInOrder, Addressed, OnRole
<1>2. ASSUME HandingOn(b) PROVE FALSE
  <2>1. SeqOf(b) = 1 /\ SeqOf(b) + 1 \in Roles
    BY <1>1, <1>2, ChainShape DEF HandingOn, HandsOn
  <2>2. roleStatus[SeqOf(b)] = "PASS" /\ roleStatus[SeqOf(b) + 1] # "PASS"
        /\ SeqOf(a) # SeqOf(b) + 1
    BY <1>2 DEF SequenceInv, ResultsStand, HandingOn, HandsOn
  <2>3. 1 \in Roles /\ 2 \in Roles /\ SeqOf(a) \in Nat \ {0}
        /\ roleStatus[1] = "PASS" /\ roleStatus[2] # "PASS" /\ SeqOf(a) # 2
    BY <1>1, <2>1, <2>2, ChainShape
  <2>4. SeqOf(a) # 1 /\ ~(2 < SeqOf(a))
    BY <1>1, <2>3 DEF Reached
  <2> QED BY <2>3, <2>4
<1>3. ASSUME SendingBack(b) PROVE FALSE
  <2>1. SeqOf(b) = 2 /\ SeqOf(b) - 1 \in Roles
    BY <1>1, <1>3, ChainShape DEF SendingBack, SendsBack, Role
  <2>2. roleStatus[SeqOf(b) - 1] = "PASS" /\ roleStatus[SeqOf(b)] # "PASS"
    BY <1>3 DEF SequenceInv, ResultsStand
  <2>3. SeqOf(a) = SeqOf(b)
    <3>1. 1 \in Roles /\ 2 \in Roles /\ SeqOf(a) \in Nat \ {0}
          /\ roleStatus[1] = "PASS" /\ roleStatus[2] # "PASS"
      BY <1>1, <2>1, <2>2, ChainShape
    <3>2. SeqOf(a) # 1 /\ ~(2 < SeqOf(a))
      BY <1>1, <3>1 DEF Reached
    <3> QED BY <2>1, <3>1, <3>2
  <2>4. roleAgent[SeqOf(b)] = b
    BY <1>3 DEF SequenceInv, Addressed, SendingBack
  <2> QED BY <1>1, <1>3, <2>3, <2>4 DEF OnRole, SendingBack
<1> QED BY <1>2, <1>3

-----------------------------------------------------------------------------
(* Steps that leave the Roles as they are and dispatch at most the first    *)

Steps == SequenceInv /\ Steady /\ DutiesInv'

RolesStay ==
  /\ UNCHANGED <<roleStatus, roleAgent, roleRound, dirty, stale>>
  /\ team' = "NONE" => team = "NONE"
  /\ \/ UNCHANGED <<assigned, curSeq>>
     \/ team' # "NONE" /\ assigned' = roleAgent[1] /\ curSeq' = 1
  /\ status' = "COMPLETED" => status = "COMPLETED" \/ (AllPassed /\ dirty = {})
  /\ \A m \in bus' : m \in bus \/ (m.seq = 1 /\ m.to = roleAgent[1])
  /\ \A a \in Agents :
       /\ pc'[a] # "idle" =>
            /\ pc[a] # "idle" /\ flight'[a].msg = flight[a].msg
            /\ flight'[a].seq = flight[a].seq /\ flight'[a].ok = flight[a].ok
            /\ flight'[a].target = flight[a].target
            /\ flight'[a].based = flight[a].based
       /\ OnRole(a)' => OnRole(a)
       /\ pc'[a] = "publishing" => pc[a] = "publishing"
  /\ \A d \in Dispatchers : dpc'[d] = "preparing" =>
       (dpc[d] = "preparing" /\ plan'[d] = plan[d]) \/ plan'[d].agent = roleAgent[1]

\* They keep the invariant.
LEMMA RolesStayKeeps ==
  ASSUME Steps, RolesStay
  PROVE  SequenceInv'
<1> USE DEF Steps, SequenceInv
<1>1. Addressed'
  BY ChainFacts DEF RolesStay, Addressed, SeqOf
<1>2. Unplanned' /\ InOrder' /\ StaleIsOpen'
  BY DEF RolesStay, Unplanned, InOrder, StaleIsOpen
<1>3. \A s : Reached(s)' <=> Reached(s)
  BY DEF RolesStay, Reached
<1>4. \A s, r : UpToDate(s, r)' <=> UpToDate(s, r)
  BY DEF RolesStay, UpToDate, Implements
<1>5. \A s : s # 1 /\ NoMessage(s) => NoMessage(s)'
  BY DEF RolesStay, NoMessage
<1>6. \A a \in Agents : pc'[a] # "idle" => SeqOf(a)' = SeqOf(a)
  BY DEF RolesStay, SeqOf
<1>7. WorkInOrder'
  BY <1>3, <1>4, <1>5, <1>6 DEF RolesStay, WorkInOrder, OnRole
<1>8. MessagesInOrder'
  BY <1>3, <1>4 DEF RolesStay, MessagesInOrder
<1>9. ResultsStand'
  <2>1. \A a \in Agents : HandingOn(a)' => HandingOn(a)
    BY <1>6 DEF RolesStay, HandingOn, HandsOn, Ok, Implements
  <2>2. \A a \in Agents : SendingBack(a)' => SendingBack(a)
    BY <1>6 DEF RolesStay, SendingBack, SendsBack, Role, Ok
  <2>3. \A a, b \in Agents : HandingOn(a)' /\ (OnRole(b)' \/ SendingBack(b)') =>
          (OnRole(b) \/ SendingBack(b)) /\ SeqOf(b)' = SeqOf(b)
    BY <1>6, <2>2 DEF RolesStay, SendingBack, OnRole
  <2>4. \A a \in Agents : pc'[a] = "publishing" =>
          /\ pc[a] = "publishing" /\ SeqOf(a)' = SeqOf(a) /\ Ok(a)' = Ok(a)
          /\ flight'[a].msg = flight[a].msg /\ flight'[a].target = flight[a].target
    BY <1>6 DEF RolesStay, Ok
  <2>5. roleStatus' = roleStatus /\ roleAgent' = roleAgent
    BY DEF RolesStay
  <2>6. ASSUME NEW a \in Agents, HandingOn(a)'
        PROVE  /\ flight'[a].target = roleAgent'[SeqOf(a)' + 1]
               /\ roleStatus'[SeqOf(a)' + 1] # "PASS" /\ NoMessage(SeqOf(a) + 1)'
               /\ \A b \in Agents :
                    (OnRole(b) \/ SendingBack(b))' => SeqOf(b)' # SeqOf(a)' + 1
               /\ UpToDate(SeqOf(a), flight[a].msg.round)'
    <3>1. HandingOn(a) /\ pc'[a] = "publishing"
      BY <2>1, <2>6 DEF HandingOn
    <3>2. SeqOf(a) + 1 # 1
      BY Typed, ChainShape
    <3>3. NoMessage(SeqOf(a) + 1)'
      <4>1. NoMessage(SeqOf(a) + 1)
        BY <3>1 DEF ResultsStand
      <4> QED BY <1>5, <2>4, <2>6, <3>1, <3>2, <4>1
    <3> QED BY <1>4, <2>3, <2>4, <2>5, <2>6, <3>1, <3>3 DEF ResultsStand
  <2>7. ASSUME NEW a \in Agents, SendingBack(a)'
        PROVE  /\ flight'[a].target = roleAgent'[SeqOf(a)' - 1]
               /\ roleStatus'[SeqOf(a)' - 1] = "PASS" /\ roleStatus'[SeqOf(a)'] # "PASS"
               /\ NoMessage(SeqOf(a))'
               /\ UpToDate(SeqOf(a), flight[a].msg.round)'
    <3>1. SendingBack(a) /\ pc'[a] = "publishing"
      BY <2>2, <2>7 DEF SendingBack
    <3>2. SeqOf(a) # 1
      <4>1. SeqOf(a) \in Roles /\ SeqOf(a) - 1 \in Roles
        BY <3>1, Typed DEF SendingBack
      <4> QED BY <4>1, ChainShape
    <3> QED BY <1>4, <1>5, <2>4, <2>5, <3>1, <3>2 DEF ResultsStand
  <2>8. \A a \in Agents : pc'[a] = "publishing" /\ Ok(a)' => roleStatus'[SeqOf(a)'] = "PASS"
    BY <2>4, <2>5 DEF ResultsStand
  <2> QED BY <2>6, <2>7, <2>8 DEF ResultsStand
<1>10. CompletionIsEarned'
  BY Typed DEF RolesStay, CompletionIsEarned, StaleIsOpen, AllPassed
<1> QED
  BY <1>1, <1>2, <1>7, <1>8, <1>9, <1>10

\* What the steps know of the flights when only the tasks row is written.
LEMMA TouchedKeeps ==
  ASSUME NEW f \in [Agents -> Flights]
  PROVE  \A x \in Agents : /\ Touched(f)[x].msg = f[x].msg /\ Touched(f)[x].seq = f[x].seq
                            /\ Touched(f)[x].ok = f[x].ok
                            /\ Touched(f)[x].target = f[x].target
                            /\ Touched(f)[x].based = f[x].based
BY DEF Touched, Flights

\* A Task is completed by its gate, which opens when every Role has passed.
LEMMA CompletedByGate ==
  /\ Reconciled(status, team, verdict) = "COMPLETED" =>
       status = "COMPLETED" \/ (AllPassed /\ dirty = {})
  /\ ReconciledTeam(status, team, verdict) = "NONE" => team = "NONE"
BY DEF Reconciled, ReconciledTeam, GateOpens, CanCompleteTeam

\* The dispatchers' steps that do not reach a Role.
LEMMA DispatchQuiet ==
  ASSUME SequenceInv, NEW d \in Dispatchers,
         \/ TickList \/ TickSkip \/ RefuseBlockedTeam(d)
         \/ DispatchRefused(d) \/ DispatchThrows(d)
  PROVE  RolesStay
<1> USE Typed DEF SequenceInv
<1>1. flight' = flight \/ flight' = Touched(flight)
  BY DEF TickList, TickSkip, RefuseBlockedTeam, DispatchRefused, DispatchThrows,
         flightVars
<1>2. \A a \in Agents :
        /\ flight'[a].msg = flight[a].msg /\ flight'[a].seq = flight[a].seq
        /\ flight'[a].ok = flight[a].ok /\ flight'[a].target = flight[a].target
        /\ flight'[a].based = flight[a].based
  BY <1>1, TouchedKeeps
<1>3. /\ UNCHANGED <<teamVars, stale, assigned, curSeq, bus, pc>>
      /\ status' \in {status, "WAITING_MAIN"}
  BY DEF TickList, TickSkip, RefuseBlockedTeam, DispatchRefused, DispatchThrows,
         MoveToWaitingMain, Transition, taskVars, wireVars, flightVars
<1>4. \A e \in Dispatchers : dpc'[e] = "preparing" =>
        dpc[e] = "preparing" /\ plan'[e] = plan[e]
  BY DEF TickList, TickSkip, RefuseBlockedTeam, DispatchRefused, DispatchThrows
<1> QED BY <1>2, <1>3, <1>4 DEF RolesStay, OnRole, teamVars

\* A message that is turned away.
LEMMA DropsQuiet ==
  ASSUME NEW m \in bus,
         DropDuplicate(m) \/ DropClaimed(m) \/ SupersedeComplete(m)
  PROVE  RolesStay
BY DEF DropDuplicate, DropClaimed, SupersedeComplete, RolesStay, taskVars, teamVars,
       flightVars, dispVars, OnRole

\* A call of a ends.
LEMMA EndsQuiet ==
  ASSUME SequenceInv, NEW a \in Agents, NEW f, EndFlight(a, f),
         f = flight \/ f = Touched(flight),
         UNCHANGED <<roleStatus, roleAgent, roleRound, dirty, stale, assigned, curSeq>>,
         team' = "NONE" => team = "NONE",
         status' = "COMPLETED" => status = "COMPLETED" \/ (AllPassed /\ dirty = {}),
         UNCHANGED <<bus, dispVars>>
  PROVE  RolesStay
<1>1. /\ flight \in [Agents -> Flights] /\ DOMAIN pc = Agents
      /\ DOMAIN f = Agents
      /\ \A x \in Agents :
           /\ f[x].msg = flight[x].msg /\ f[x].seq = flight[x].seq
           /\ f[x].ok = flight[x].ok /\ f[x].target = flight[x].target
           /\ f[x].based = flight[x].based
  <2>1. flight \in [Agents -> Flights] /\ DOMAIN pc = Agents
    BY Typed DEF SequenceInv
  <2>2. DOMAIN flight = Agents /\ DOMAIN Touched(flight) = Agents
    BY <2>1 DEF Touched
  <2> QED BY <2>1, <2>2, TouchedKeeps
<1>2. /\ pc'[a] = "idle" /\ \A x \in Agents \ {a} : pc'[x] = pc[x]
      /\ \A x \in Agents \ {a} : flight'[x] = f[x]
  BY <1>1 DEF EndFlight
<1>3. \A x \in Agents :
        /\ pc'[x] # "idle" =>
            /\ pc[x] # "idle" /\ flight'[x].msg = flight[x].msg
            /\ flight'[x].seq = flight[x].seq /\ flight'[x].ok = flight[x].ok
            /\ flight'[x].target = flight[x].target
            /\ flight'[x].based = flight[x].based
        /\ OnRole(x)' => OnRole(x)
        /\ pc'[x] = "publishing" => pc[x] = "publishing"
  BY <1>1, <1>2 DEF OnRole
<1> QED BY <1>3 DEF RolesStay, dispVars

\* The steps of a call that ends, or that reaches its CLI.
LEMMA CallsQuiet ==
  ASSUME SequenceInv, NEW a \in Agents,
         \/ AckDone(a) \/ StaleCallback(a) \/ FlightThrows(a) \/ BindingRejected(a)
         \/ QaCompletesChain(a) \/ VerdictDone(a) \/ OutcomeOverBudget(a)
         \/ OutcomeStops(a) \/ HandDone(a)
  PROVE  RolesStay
<1> USE DEF taskVars, teamVars, wireVars
<1>1. CASE AckDone(a)
  BY <1>1, Typed DEF SequenceInv, AckDone, RolesStay, OnRole, dispVars
<1>2. CASE StaleCallback(a)
  BY <1>2, EndsQuiet DEF StaleCallback
<1>3. CASE FlightThrows(a)
  BY <1>3, EndsQuiet DEF FlightThrows
<1>4. CASE BindingRejected(a)
  BY <1>4, EndsQuiet DEF BindingRejected, MoveToWaitingMain, Transition
<1>5. CASE QaCompletesChain(a)
  BY <1>5, Typed DEF SequenceInv, QaCompletesChain, RolesStay, OnRole, dispVars
<1>6. CASE VerdictDone(a)
  BY <1>6, EndsQuiet, CompletedByGate DEF VerdictDone, ReconcileTo, FinishFlight
<1>7. CASE OutcomeOverBudget(a)
  BY <1>7, EndsQuiet, CompletedByGate DEF OutcomeOverBudget, ReconcileTo, FinishFlight
<1>8. CASE OutcomeStops(a)
  BY <1>8, EndsQuiet, CompletedByGate DEF OutcomeStops, ReconcileTo, FinishFlight
<1>9. CASE HandDone(a)
  BY <1>9, EndsQuiet DEF HandDone, FinishFlight
<1> QED BY <1>1, <1>2, <1>3, <1>4, <1>5, <1>6, <1>7, <1>8, <1>9

\* What acts on the Task from outside its chain.
LEMMA SupervisingQuiet ==
  ASSUME SequenceInv, Supervising
  PROVE  RolesStay
<1>1. /\ UNCHANGED <<roleStatus, roleAgent, roleRound, dirty, stale, assigned, curSeq>>
      /\ team' = "NONE" => team = "NONE"
      /\ status' = "COMPLETED" => status = "COMPLETED" \/ (AllPassed /\ dirty = {})
      /\ bus' \subseteq bus
  BY CompletedByGate
  DEF Supervising, Watchdog, OrphanLost, ContinueFromWatchdog, OwnerCancel,
      TouchMetadata, BudgetExpires, Backfill, Crash, ProcessLost, MoveToWaitingMain,
      Transition, ReconcileTo, taskVars, teamVars, wireVars
<1>2. \A x \in Agents : pc'[x] \in {pc[x], "idle"}
  BY Typed
  DEF SequenceInv, Supervising, Watchdog, OrphanLost, ContinueFromWatchdog, OwnerCancel,
      TouchMetadata, BudgetExpires, Backfill, Crash, ProcessLost
<1>3. \A e \in Dispatchers : dpc'[e] = "preparing" =>
        dpc[e] = "preparing" /\ plan'[e] = plan[e]
  BY DEF Supervising, Watchdog, OrphanLost, ContinueFromWatchdog, OwnerCancel,
         TouchMetadata, BudgetExpires, Backfill, Crash, ProcessLost, dispVars
<1>4. \A x \in Agents : pc'[x] # "idle" =>
        /\ flight'[x].msg = flight[x].msg /\ flight'[x].seq = flight[x].seq
        /\ flight'[x].ok = flight[x].ok /\ flight'[x].target = flight[x].target
        /\ flight'[x].based = flight[x].based
  <2>0. flight \in [Agents -> Flights]
    BY Typed DEF SequenceInv
  <2>1. ASSUME flight' = flight \/ flight' = Touched(flight)
        PROVE  <1>4!:
    BY <2>0, <2>1, TouchedKeeps
  <2>2. CASE Watchdog \/ OrphanLost \/ ContinueFromWatchdog \/ OwnerCancel
             \/ TouchMetadata \/ Backfill
    BY <2>1, <2>2
    DEF Watchdog, OrphanLost, ContinueFromWatchdog, OwnerCancel, TouchMetadata, Backfill
  <2>3. CASE BudgetExpires
    BY <2>0, <2>3 DEF BudgetExpires, Flights
  <2>4. CASE Crash
    BY <2>4 DEF Crash
  <2>5. ASSUME NEW a \in Agents, ProcessLost(a)
        PROVE  <1>4!:
    <3> DEFINE g == [flight EXCEPT ![a].lost = TRUE]
    <3>1. /\ g \in [Agents -> Flights]
          /\ \A x \in Agents :
               /\ g[x].msg = flight[x].msg /\ g[x].seq = flight[x].seq
               /\ g[x].ok = flight[x].ok /\ g[x].target = flight[x].target
               /\ g[x].based = flight[x].based
      BY <2>0 DEF Flights
    <3>2. flight' \in {g, Touched(g)}
      BY <2>5 DEF ProcessLost
    <3> HIDE DEF g
    <3> QED BY <3>1, <3>2, TouchedKeeps
  <2> QED BY <2>2, <2>3, <2>4, <2>5, Supervising DEF Supervising
<1> QED BY <1>1, <1>2, <1>3, <1>4 DEF RolesStay, OnRole

\* A dispatch reaches the first Role, and the agent that holds it.
LEMMA DispatchStays ==
  ASSUME SequenceInv, NEW d \in Dispatchers, ReuseTeam(d) \/ DispatchFinish(d)
  PROVE  RolesStay
<1> USE Typed DEF SequenceInv
<1>1. CASE ReuseTeam(d)
  BY <1>1 DEF ReuseTeam, RolesStay, taskVars, teamVars, wireVars, flightVars, OnRole
<1>2. CASE DispatchFinish(d)
  <2>1. plan[d].agent = roleAgent[1] /\ team # "NONE"
    BY <1>2, NothingWithoutTeam DEF DispatchFinish, Addressed
  <2>2. \A m \in bus' : m \in bus \/ (m.seq = 1 /\ m.to = roleAgent[1])
    BY <1>2, <2>1 DEF DispatchFinish, Publish
  <2>3. \A e \in Dispatchers : dpc'[e] = "preparing" =>
          dpc[e] = "preparing" /\ plan'[e] = plan[e]
    BY <1>2 DEF DispatchFinish
  <2>4. /\ UNCHANGED <<teamVars, stale, pc>> /\ status' = "DISPATCHED"
        /\ assigned' = roleAgent[1] /\ curSeq' = 1 /\ flight' = Touched(flight)
    BY <1>2, <2>1 DEF DispatchFinish, Transition
  <2> QED BY <2>1, <2>2, <2>3, <2>4, TouchedKeeps DEF RolesStay, teamVars, OnRole
<1> QED BY <1>1, <1>2

\* Planning the team is the first thing that happens to a Task.
LEMMA PlanTeamKeeps ==
  ASSUME Steps, NEW d \in Dispatchers, PlanTeam(d)
  PROVE  SequenceInv'
<1> USE Typed DEF Steps, SequenceInv
<1>1. /\ bus = {} /\ \A a \in Agents : pc[a] = "idle"
      /\ \A e \in Dispatchers : dpc[e] # "preparing"
      /\ assigned = NoAgent /\ \A s \in Roles : roleStatus[s] = "PENDING"
  BY NothingWithoutTeam DEF PlanTeam, Unplanned
<1>2. /\ bus' = {} /\ \A a \in Agents : pc'[a] = "idle"
      /\ assigned' = NoAgent /\ team' # "NONE" /\ status' \in {status, "WAITING_MAIN"}
  BY <1>1 DEF PlanTeam, MoveToWaitingMain, Transition, wireVars
<1>3. stale' \subseteq Roles /\ \A s \in Roles : roleStatus'[s] # "PASS"
  BY DEF PlanTeam
<1>4. \A e \in Dispatchers : dpc'[e] = "preparing" => plan'[e].agent = roleAgent'[1]
  BY <1>1 DEF PlanTeam
<1>5. Addressed' /\ Unplanned' /\ InOrder' /\ StaleIsOpen'
  BY <1>2, <1>3, <1>4 DEF Addressed, Unplanned, InOrder, StaleIsOpen
<1>6. WorkInOrder' /\ MessagesInOrder' /\ ResultsStand'
  BY <1>2
  DEF WorkInOrder, MessagesInOrder, ResultsStand, OnRole, HandingOn, SendingBack
<1>7. CompletionIsEarned'
  BY <1>1, <1>2, ChainFacts DEF CompletionIsEarned, AllPassed
<1> QED BY <1>5, <1>6, <1>7

-----------------------------------------------------------------------------
(* Steps of the one Role that is worked on                                 *)

\* Beside a's own work nothing is under way but dispatches of the first Role.
Alone(a, M) ==
  /\ \A b \in Agents \ {a} : ~OnRole(b) /\ ~HandingOn(b) /\ ~SendingBack(b)
  /\ \A n \in M : n.seq = 1

\* A step of a leaves the other calls to their outcomes.
OthersKept(a) ==
  \A b \in Agents \ {a} :
    /\ pc'[b] = pc[b] /\ flight'[b].msg = flight[b].msg
    /\ flight'[b].seq = flight[b].seq /\ flight'[b].ok = flight[b].ok
    /\ flight'[b].target = flight[b].target

LEMMA AloneAfterwards ==
  ASSUME NEW a \in Agents, NEW M, Alone(a, M), OthersKept(a)
  PROVE  \A b \in Agents \ {a} : ~OnRole(b)' /\ ~HandingOn(b)' /\ ~SendingBack(b)'
BY DEF Alone, OthersKept, OnRole, HandingOn, HandsOn, SendingBack, SendsBack, SeqOf, Ok,
       Role, Implements

\* The next Role to pass is the first that did not.
LEMMA FrontOnly ==
  ASSUME NEW t \in Roles, roleStatus[t] # "PASS",
         \A u \in Roles : u < t => roleStatus[u] = "PASS",
         NEW s \in Roles, Reached(s)
  PROVE  s = t
BY ChainShape DEF Reached

\* A result to be handed on is of the first Role, and the second is open; one
\* to be sent back is of the second, and the first stands.
LEMMA HandOffShape ==
  ASSUME SequenceInv, NEW b \in Agents
  PROVE  /\ 1 \in Roles
         /\ HandingOn(b) => /\ SeqOf(b) = 1 /\ 2 \in Roles /\ Implements(1)
                            /\ RoleOf[2] = "REVIEWER"
                            /\ roleStatus[1] = "PASS" /\ roleStatus[2] # "PASS"
                            /\ NoMessage(2) /\ roleAgent[1] = b
                            /\ flight[b].target = roleAgent[2]
                            /\ flight[b].msg.round >= roleRound[1]
         /\ SendingBack(b) => /\ SeqOf(b) = 2 /\ 2 \in Roles /\ Implements(1)
                              /\ roleStatus[1] = "PASS" /\ roleStatus[2] # "PASS"
                              /\ NoMessage(2) /\ roleAgent[2] = b
                              /\ flight[b].target = roleAgent[1]
                              /\ flight[b].msg.round >= roleRound[1]
<1>1. 1 \in Roles /\ SeqOf(b) \in Roles
  BY Typed, ChainFacts DEF SequenceInv
<1>2. ASSUME HandingOn(b)
      PROVE  /\ SeqOf(b) = 1 /\ 2 \in Roles /\ Implements(1)
             /\ RoleOf[2] = "REVIEWER"
             /\ roleStatus[1] = "PASS" /\ roleStatus[2] # "PASS"
             /\ NoMessage(2) /\ roleAgent[1] = b
             /\ flight[b].target = roleAgent[2]
             /\ flight[b].msg.round >= roleRound[1]
  <2>1. SeqOf(b) = 1 /\ SeqOf(b) + 1 \in Roles /\ Implements(1)
    BY <1>1, <1>2, ChainShape DEF HandingOn, HandsOn
  <2>2. SeqOf(b) + 1 = 2
    BY <2>1
  <2>3. /\ flight[b].target = roleAgent[2] /\ roleStatus[2] # "PASS" /\ NoMessage(2)
        /\ UpToDate(1, flight[b].msg.round) /\ roleStatus[1] = "PASS"
    BY <1>2, <2>1, <2>2 DEF SequenceInv, ResultsStand, HandingOn, HandsOn
  <2>4. roleAgent[1] = b
    BY <1>2, <2>1 DEF SequenceInv, Addressed, HandingOn
  <2>5. RoleOf[2] = "REVIEWER"
    BY <1>1, <2>1, <2>2, ChainShape
  <2> QED BY <2>1, <2>2, <2>3, <2>4, <2>5 DEF UpToDate
<1>3. ASSUME SendingBack(b)
      PROVE  /\ SeqOf(b) = 2 /\ 2 \in Roles /\ Implements(1)
             /\ roleStatus[1] = "PASS" /\ roleStatus[2] # "PASS"
             /\ NoMessage(2) /\ roleAgent[2] = b
             /\ flight[b].target = roleAgent[1]
             /\ flight[b].msg.round >= roleRound[1]
  <2>1. /\ SeqOf(b) = 2 /\ SeqOf(b) - 1 \in Roles /\ Implements(SeqOf(b) - 1)
        /\ RoleOf[SeqOf(b)] = "REVIEWER"
    BY <1>1, <1>3, ChainShape DEF SendingBack, SendsBack, Role
  <2>2. SeqOf(b) - 1 = 1 /\ 2 - 1 = 1
    BY <2>1
  <2>3. /\ flight[b].target = roleAgent[1] /\ roleStatus[1] = "PASS"
        /\ roleStatus[2] # "PASS" /\ NoMessage(2)
        /\ UpToDate(2, flight[b].msg.round)
    BY <1>3, <2>1, <2>2 DEF SequenceInv, ResultsStand
  <2>4. roleAgent[2] = b
    BY <1>3, <2>1 DEF SequenceInv, Addressed, SendingBack
  <2> QED BY <1>1, <2>1, <2>2, <2>3, <2>4 DEF UpToDate
<1> QED BY <1>1, <1>2, <1>3

\* What a claim makes of the flights.
LEMMA ClaimFlights ==
  ASSUME SequenceInv, NEW m \in bus, ClaimRole(m)
  PROVE  /\ OthersKept(m.to) /\ m.to \in Agents /\ m.seq \in Roles
         /\ pc[m.to] = "idle" /\ pc'[m.to] = "acking"
         /\ flight'[m.to].msg = m /\ flight'[m.to].seq = m.seq
         /\ flight'[m.to].based = TRUE
<1> USE Typed DEF SequenceInv
<1> DEFINE att == IF status \in {"DISPATCHED", "RUNNING"} THEN attempt + 1 ELSE attempt
           new == [Idle(m.to) EXCEPT !.msg = m, !.seq = m.seq, !.attempt = att]
<1>1. m.to \in Agents /\ m.seq \in Roles
  OBVIOUS
<1>2. /\ flight' = [Touched(flight) EXCEPT ![m.to] = new]
      /\ pc' = [pc EXCEPT ![m.to] = "acking"] /\ pc[m.to] = "idle"
  BY DEF ClaimRole, StartFlight, Accepted
<1>3. DOMAIN Touched(flight) = Agents
  BY DEF Touched
<1>4. new.msg = m /\ new.seq = m.seq /\ new.based = TRUE
  BY DEF Idle
<1> HIDE DEF new
<1> QED BY <1>1, <1>2, <1>3, <1>4, TouchedKeeps DEF OthersKept

\* A message that is accepted finds its Role the next to pass, and nothing else
\* under way.
LEMMA ClaimAlone ==
  ASSUME SequenceInv, NEW m \in bus, ClaimRole(m)
  PROVE  /\ \A t \in Roles : t < m.seq => roleStatus[t] = "PASS"
         /\ roleStatus[m.seq] # "PASS" /\ roleAgent[m.seq] = m.to
         /\ UpToDate(m.seq, m.round)
         /\ Alone(m.to, bus \ {m})
<1>1. /\ m.seq \in Roles /\ m.to \in Agents /\ m.round = roleRound[m.seq]
      /\ roleAgent[m.seq] = m.to /\ pc[m.to] = "idle" /\ roleStatus[m.seq] # "PASS"
  BY Typed DEF SequenceInv, ClaimRole, ClaimsRole, HoldsRole, Accepted
<1>2. \A t \in Roles : t < m.seq => roleStatus[t] = "PASS"
  <2>1. CASE m.seq = 1
    BY <2>1, ChainShape
  <2>2. CASE m.seq # 1
    BY <2>2 DEF SequenceInv, MessagesInOrder, Reached
  <2> QED BY <2>1, <2>2
<1>3. UpToDate(m.seq, m.round)
  <2>1. CASE m.seq = 1
    <3>1. RoleOf[m.seq] = "REVIEWER" => m.seq - 1 \notin Roles
      BY <1>1, <2>1, ChainShape
    <3>2. roleRound[m.seq] \in Nat
      BY <1>1, Typed DEF SequenceInv
    <3> QED BY <1>1, <3>1, <3>2 DEF UpToDate
  <2>2. CASE m.seq # 1
    BY <2>2 DEF SequenceInv, MessagesInOrder
  <2> QED BY <2>1, <2>2
<1>4. ASSUME NEW t \in Roles, Reached(t)
      PROVE  t = m.seq
  BY <1>1, <1>2, <1>4, FrontOnly
<1>5. ASSUME NEW b \in Agents
      PROVE  ~OnRole(b)
  <2>1. SUFFICES ASSUME OnRole(b) PROVE FALSE
    OBVIOUS
  <2>2. SeqOf(b) = m.seq
    BY <1>4, <2>1, Typed DEF SequenceInv, WorkInOrder
  <2> QED BY <1>1, <2>1, <2>2 DEF SequenceInv, Addressed, OnRole
<1>6. ASSUME NEW n \in bus \ {m}
      PROVE  n.seq = 1
  <2>1. SUFFICES ASSUME n.seq # 1 PROVE FALSE
    OBVIOUS
  <2>2. n.seq = m.seq
    BY <1>4, <2>1, Typed DEF SequenceInv, MessagesInOrder
  <2> QED BY <2>1, <2>2 DEF SequenceInv, MessagesInOrder
<1>7. ASSUME NEW b \in Agents, HandingOn(b) \/ SendingBack(b)
      PROVE  FALSE
  <2>1. /\ 2 \in Roles /\ 1 \in Roles /\ roleStatus[1] = "PASS"
        /\ roleStatus[2] # "PASS" /\ NoMessage(2)
    BY <1>7, HandOffShape
  <2>2. m.seq # 1 /\ m.seq # 2 /\ ~(2 < m.seq)
    BY <1>1, <1>2, <2>1 DEF NoMessage
  <2>3. m.seq \in Nat /\ m.seq >= 1
    BY <1>1, ChainShape
  <2> QED BY <2>2, <2>3
<1> QED BY <1>1, <1>2, <1>3, <1>5, <1>6, <1>7 DEF Alone

\* The claim begins the next Role.
LEMMA ClaimRoleKeeps ==
  ASSUME Steps, NEW m \in bus, ClaimRole(m)
  PROVE  SequenceInv'
<1> USE Typed DEF Steps, SequenceInv
<1> DEFINE a == m.to
           s == m.seq
<1>1. /\ a \in Agents /\ s \in Roles /\ s \in Nat \ {0}
      /\ pc[a] = "idle" /\ pc'[a] = "acking" /\ OthersKept(a)
      /\ flight'[a].msg = m /\ flight'[a].seq = s /\ flight'[a].based
      /\ SeqOf(a)' = s
  <2>1. s \in Roles /\ s \in Nat \ {0}
    <3>1. s \in Roles
      BY ClaimFlights
    <3>2. s \in Nat /\ s >= 1
      BY <3>1, ChainShape
    <3> QED BY <3>1, <3>2
  <2> QED BY <2>1, ClaimFlights DEF SeqOf
<1>2. /\ \A t \in Roles : t < s => roleStatus[t] = "PASS"
      /\ roleStatus[s] # "PASS" /\ roleAgent[s] = a
      /\ UpToDate(s, m.round) /\ Alone(a, bus \ {m})
  BY ClaimAlone
<1>3. /\ UNCHANGED <<roleAgent, roleRound, stale, dpc, plan>>
      /\ bus' = bus \ {m} /\ team' = "ACTIVE" /\ curSeq' = s /\ assigned' = a
      /\ status' \in {status, "RUNNING"}
      /\ roleStatus' = [roleStatus EXCEPT ![s] = "ACTIVE"]
  BY DEF ClaimRole, StartFlight, dispVars
<1>4. /\ roleStatus'[s] = "ACTIVE"
      /\ \A t \in Roles \ {s} : roleStatus'[t] = roleStatus[t]
  BY <1>1, <1>3
<1>5. \A b \in Agents \ {a} : ~OnRole(b)' /\ ~HandingOn(b)' /\ ~SendingBack(b)'
  BY <1>1, <1>2, AloneAfterwards
<1>6. \A n \in bus' : n.seq = 1
  BY <1>2, <1>3 DEF Alone
<1>7. Reached(s)' /\ UpToDate(s, m.round)'
  <2>1. \A t \in Roles : t < s => roleStatus'[t] = "PASS"
    BY <1>1, <1>2, <1>4, ChainShape
  <2> QED BY <1>2, <1>3, <1>4, <2>1 DEF Reached, UpToDate, Implements
<1> HIDE DEF a, s
<1>8. Addressed'
  BY <1>1, <1>2, <1>3 DEF Addressed, OthersKept, SeqOf
<1>9. Unplanned' /\ StaleIsOpen'
  BY <1>1, <1>3, <1>4 DEF Unplanned, StaleIsOpen
<1>10. InOrder'
  BY <1>1, <1>2, <1>4 DEF InOrder
<1>11. WorkInOrder'
  BY <1>1, <1>5, <1>6, <1>7 DEF WorkInOrder, NoMessage
<1>12. MessagesInOrder'
  BY <1>6 DEF MessagesInOrder
<1>13. ResultsStand'
  <2>1. ASSUME NEW x \in Agents, pc'[x] = "publishing", Ok(x)'
        PROVE  roleStatus'[SeqOf(x)'] = "PASS"
    <3>1. /\ x # a /\ pc[x] = "publishing" /\ Ok(x) /\ SeqOf(x)' = SeqOf(x)
      BY <1>1, <2>1 DEF OthersKept, Ok, SeqOf
    <3> QED BY <1>2, <1>4, <3>1 DEF ResultsStand
  <2>2. \A x \in Agents : ~HandingOn(x)' /\ ~SendingBack(x)'
    BY <1>1, <1>5 DEF HandingOn, SendingBack
  <2> QED BY <2>1, <2>2 DEF ResultsStand
<1>14. CompletionIsEarned'
  BY <1>1, <1>2, <1>3 DEF CompletionIsEarned, AllPassed
<1> QED BY <1>8, <1>9, <1>10, <1>11, <1>12, <1>13, <1>14

\* A result that passes the fence is of the next Role, which it finishes.
LEMMA ResultFlights ==
  ASSUME SequenceInv, NEW a \in Agents, NEW ok \in BOOLEAN,
         NEW text \in {"clean", "dirty"}, AdapterDone(a, ok, text)
  PROVE  /\ SeqOf(a) \in Roles /\ roleAgent[SeqOf(a)] = a /\ Reached(SeqOf(a))
         /\ UpToDate(SeqOf(a), flight[a].msg.round) /\ flight[a].based
         /\ Alone(a, bus) /\ OthersKept(a) /\ pc'[a] = "publishing"
         /\ flight'[a].msg = flight[a].msg /\ flight'[a].ok = ok
         /\ flight'[a].seq = SeqOf(a)
         /\ flight'[a].target = IF Role(a) = "REVIEWER" THEN PreviousAgent(SeqOf(a))
                                ELSE NextAgent(SeqOf(a))
<1> USE Typed DEF SequenceInv
<1>1. OnRole(a)
  BY DEF AdapterDone, OnRole
<1>2. /\ SeqOf(a) \in Roles /\ roleAgent[SeqOf(a)] = a
      /\ Reached(SeqOf(a)) /\ UpToDate(SeqOf(a), flight[a].msg.round)
      /\ flight[a].based
  BY <1>1 DEF WorkInOrder, Addressed, OnRole
<1>3. Alone(a, bus)
  <2>1. \A b \in Agents : ~HandingOn(b) /\ ~SendingBack(b)
    BY <1>1, NoResultBesideWork
  <2>2. \A b \in Agents \ {a} : ~OnRole(b)
    BY <1>1, OneOnRole
  <2>3. \A n \in bus : n.seq = 1
    BY <1>1, WorkIsAlone
  <2> QED BY <2>1, <2>2, <2>3 DEF Alone
<1>4. pc'[a] = "publishing" /\ \A b \in Agents \ {a} : pc'[b] = pc[b]
  BY DEF AdapterDone
<1>5. /\ flight'[a].msg = flight[a].msg /\ flight'[a].ok = ok
      /\ flight'[a].seq = SeqOf(a)
      /\ flight'[a].target = IF Role(a) = "REVIEWER" THEN PreviousAgent(SeqOf(a))
                             ELSE NextAgent(SeqOf(a))
  <2>1. flight[a] \in Flights /\ HoldsRole(a, flight[a].msg.seq)
    BY <1>2 DEF HoldsRole, SeqOf
  <2>2. flight'[a] =
          [flight[a] EXCEPT !.ok = ok, !.seq = flight[a].msg.seq,
             !.target = IF RoleOf[flight[a].msg.seq] = "REVIEWER"
                        THEN PreviousAgent(flight[a].msg.seq)
                        ELSE NextAgent(flight[a].msg.seq)]
    BY <2>1 DEF AdapterDone
  <2> QED BY <2>1, <2>2 DEF Flights, SeqOf, Role
<1>6. \A b \in Agents \ {a} :
        /\ flight'[b].msg = flight[b].msg /\ flight'[b].seq = flight[b].seq
        /\ flight'[b].ok = flight[b].ok /\ flight'[b].target = flight[b].target
  <2>1. \A b \in Agents \ {a} : flight[b] \in Flights
    OBVIOUS
  <2>2. \A b \in Agents \ {a} :
          flight'[b] \in {flight[b], [flight[b] EXCEPT !.based = FALSE]}
    BY DEF AdapterDone
  <2> QED BY <2>1, <2>2 DEF Flights
<1> QED BY <1>2, <1>3, <1>4, <1>5, <1>6 DEF OthersKept

LEMMA AdapterDoneKeeps ==
  ASSUME Steps, NEW a \in Agents, NEW ok \in BOOLEAN,
         NEW text \in {"clean", "dirty"}, AdapterDone(a, ok, text)
  PROVE  SequenceInv'
<1> USE Typed DEF Steps, SequenceInv
<1>0. PICK s \in Roles : s = SeqOf(a)
  OBVIOUS
<1>1. /\ s \in Roles /\ roleAgent[s] = a /\ Reached(s)
      /\ UpToDate(s, flight[a].msg.round) /\ flight[a].based
      /\ Alone(a, bus) /\ OthersKept(a) /\ pc'[a] = "publishing"
      /\ flight'[a].msg = flight[a].msg /\ flight'[a].ok = ok
      /\ flight'[a].seq = s
      /\ flight'[a].target = IF Role(a) = "REVIEWER" THEN PreviousAgent(s)
                             ELSE NextAgent(s)
  BY <1>0, ResultFlights
<1>2. /\ UNCHANGED <<status, team, assigned, curSeq, roleAgent, roleRound, bus, dpc, plan>>
      /\ roleStatus' = [roleStatus EXCEPT ![s] = IF ok THEN "PASS" ELSE "FAIL"]
      /\ stale' \subseteq (stale \ {s}) \cup {t \in Roles : t > s} \/ (~ok /\ stale' = stale)
  BY <1>0, <1>1 DEF AdapterDone, HoldsRole, SeqOf, Reached, taskVars, wireVars, dispVars
<1>3. /\ roleStatus'[s] = IF ok THEN "PASS" ELSE "FAIL"
      /\ \A t \in Roles \ {s} : roleStatus'[t] = roleStatus[t]
      /\ roleStatus[s] = "ACTIVE"
  BY <1>1, <1>2 DEF Reached
<1>4. SeqOf(a)' = s /\ Role(a)' = Role(a) /\ Ok(a)' = ok
  BY <1>0, <1>1 DEF SeqOf, Role, Ok
<1>5. \A b \in Agents \ {a} : ~OnRole(b)' /\ ~HandingOn(b)' /\ ~SendingBack(b)'
  BY <1>1, AloneAfterwards
<1>6. \A n \in bus' : n.seq = 1
  BY <1>1, <1>2 DEF Alone
<1>7. \A r : UpToDate(s, r)' <=> UpToDate(s, r)
  BY <1>2 DEF UpToDate, Implements
<1>8. Role(a) = RoleOf[s] /\ s \in Nat /\ s >= 1
  <2>1. Role(a) = RoleOf[s]
    BY <1>0 DEF Role
  <2>2. s \in Nat /\ s >= 1
    BY ChainShape
  <2> QED BY <2>1, <2>2
<1>9. Addressed'
  BY <1>0, <1>1, <1>2, <1>4 DEF Addressed, OthersKept, SeqOf
<1>10. Unplanned' /\ InOrder'
  BY <1>1, <1>2, <1>3 DEF Unplanned, InOrder, Reached
<1>11. StaleIsOpen'
  <2>1. \A t \in Roles : t > s => roleStatus[t] # "PASS"
    BY <1>1, <1>3 DEF InOrder
  <2> QED BY <1>1, <1>2, <1>3, <1>8, <2>1, ChainShape DEF StaleIsOpen
<1>12. WorkInOrder'
  BY <1>1, <1>5 DEF WorkInOrder, OnRole
<1>13. MessagesInOrder'
  BY <1>6 DEF MessagesInOrder
<1>14. ResultsStand'
  <2>1. ASSUME NEW x \in Agents, pc'[x] = "publishing", Ok(x)'
        PROVE  roleStatus'[SeqOf(x)'] = "PASS"
    <3>1. CASE x = a
      BY <1>3, <1>4, <2>1, <3>1
    <3>2. CASE x # a
      <4>1. pc[x] = "publishing" /\ Ok(x) /\ SeqOf(x)' = SeqOf(x)
        BY <1>1, <2>1, <3>2 DEF OthersKept, Ok, SeqOf
      <4>2. roleStatus[SeqOf(x)] = "PASS" /\ SeqOf(x) \in Roles
        BY <4>1 DEF ResultsStand
      <4> QED BY <1>3, <4>1, <4>2
    <3> QED BY <3>1, <3>2
  <2>2. ASSUME HandingOn(a)'
        PROVE  /\ flight'[a].target = roleAgent'[s + 1] /\ roleStatus'[s + 1] # "PASS"
               /\ NoMessage(s + 1)'
               /\ \A b \in Agents : OnRole(b)' \/ SendingBack(b)' => FALSE
               /\ UpToDate(s, flight[a].msg.round)'
    <3>1. Implements(s) /\ ok /\ s + 1 \in Roles
      BY <1>4, <2>2 DEF HandingOn, HandsOn, Implements
    <3>2. s = 1 /\ s < N /\ s + 1 # 1 /\ s + 1 > s
      <4>1. s = 1
        BY <3>1, ChainShape
      <4>2. s + 1 <= N
        BY <3>1, ChainShape
      <4> QED BY <4>1, <4>2, ChainFacts
    <3>3. flight'[a].target = roleAgent[s + 1]
      BY <1>1, <1>8, <3>1, <3>2 DEF Implements, NextAgent
    <3>4. roleStatus[s + 1] # "PASS"
      BY <1>1, <1>3, <3>1, <3>2 DEF InOrder
    <3>5. ~OnRole(a)' /\ ~SendingBack(a)'
      BY <1>1, <1>4, <1>8, <3>1 DEF OnRole, SendingBack, SendsBack
    <3>6. NoMessage(s + 1)'
      BY <1>6, <3>2 DEF NoMessage
    <3>7. UpToDate(s, flight[a].msg.round)'
      BY <1>1, <1>7, <1>4
    <3> QED BY <1>2, <1>3, <1>5, <3>1, <3>2, <3>3, <3>4, <3>5, <3>6, <3>7
  <2>3. ASSUME SendingBack(a)'
        PROVE  /\ flight'[a].target = roleAgent'[s - 1] /\ roleStatus'[s - 1] = "PASS"
               /\ roleStatus'[s] # "PASS"
               /\ NoMessage(s)'
               /\ UpToDate(s, flight[a].msg.round)'
    <3>1. RoleOf[s] = "REVIEWER" /\ ~ok /\ s - 1 \in Roles
      BY <1>4, <1>8, <2>3 DEF SendingBack, SendsBack, Role
    <3>2. s = 2 /\ Implements(s - 1) /\ s > 1 /\ s - 1 # s /\ s - 1 < s
      BY <1>1, <3>1, ChainShape
    <3>3. flight'[a].target = roleAgent[s - 1]
      BY <1>1, <1>8, <3>1, <3>2 DEF PreviousAgent
    <3>4. roleStatus[s - 1] = "PASS"
      BY <1>1, <3>1, <3>2 DEF Reached
    <3>5. NoMessage(s)'
      BY <1>6, <3>2 DEF NoMessage
    <3>6. UpToDate(s, flight[a].msg.round)'
      BY <1>1, <1>7, <1>4
    <3> QED BY <1>2, <1>3, <3>1, <3>2, <3>3, <3>4, <3>5, <3>6
  <2>4. \A x \in Agents : x # a => ~HandingOn(x)' /\ ~SendingBack(x)'
    BY <1>5
  <2> QED
    BY <1>4, <2>1, <2>2, <2>3, <2>4 DEF ResultsStand
<1>15. CompletionIsEarned'
  BY <1>1, <1>2, <1>3 DEF CompletionIsEarned, AllPassed
<1> QED BY <1>9, <1>10, <1>11, <1>12, <1>13, <1>14, <1>15

\* A review that continues stands on the two passes before QA, and nothing else
\* is under way.
LEMMA ContinuationAlone ==
  ASSUME SequenceInv, NEW a \in Agents, pc[a] = "publishing",
         NEW q \in Roles, ContinuesToQa(a, q)
  PROVE  /\ q = 3 /\ RoleOf[q] = "QA" /\ roleStatus[q] \in {"ASSIGNED", "PENDING"}
         /\ \A t \in Roles : t < q => roleStatus[t] = "PASS"
         /\ Alone(a, bus)
<1> USE Typed DEF SequenceInv
<1>1. /\ q = SeqOf(a) + 1 /\ SeqOf(a) \in Roles /\ RoleOf[SeqOf(a)] = "REVIEWER"
      /\ RoleOf[q] = "QA" /\ roleStatus[q] \in {"ASSIGNED", "PENDING"} /\ Ok(a)
  BY DEF ContinuesToQa, Addressed, Role
<1>2. SeqOf(a) = 2 /\ q = 3
  BY <1>1, ChainShape
<1>3. roleStatus[2] = "PASS" /\ 2 \in Roles
  BY <1>1, <1>2 DEF ResultsStand
<1>4. \A t \in Roles : t < q => roleStatus[t] = "PASS"
  <2>1. ASSUME NEW t \in Roles, t < q PROVE roleStatus[t] = "PASS"
    <3>1. t = 2 \/ t < 2
      BY <1>2, <2>1, ChainShape
    <3> QED BY <1>3, <3>1 DEF InOrder
  <2> QED BY <2>1
<1>5. \A t \in Roles : ~Reached(t)
  BY <1>1, <1>4, FrontOnly DEF Reached
<1>6. \A b \in Agents : ~OnRole(b)
  BY <1>5 DEF WorkInOrder
<1>7. \A n \in bus : n.seq = 1
  BY <1>5 DEF MessagesInOrder
<1>8. \A b \in Agents : ~HandingOn(b) /\ ~SendingBack(b)
  BY <1>3, HandOffShape
<1> QED BY <1>1, <1>2, <1>4, <1>6, <1>7, <1>8 DEF Alone

LEMMA ReviewToQaKeeps ==
  ASSUME Steps, NEW a \in Agents, ReviewToQa(a)
  PROVE  SequenceInv'
<1> USE Typed DEF Steps, SequenceInv
<1>1. PICK q \in Roles :
        /\ ContinuesToQa(a, q)
        /\ curSeq' = q /\ assigned' = roleAgent[q]
        /\ roleStatus' = [roleStatus EXCEPT ![q] = "ACTIVE"]
        /\ Publish([kind |-> "TASK", from |-> Orchestrator, to |-> roleAgent[q],
                    seq |-> q, round |-> roleRound[q], did |-> 0])
  BY DEF ReviewToQa
<1> DEFINE m == [kind |-> "TASK", from |-> Orchestrator, to |-> roleAgent[q],
                 seq |-> q, round |-> roleRound[q], did |-> 0]
<1>2. /\ q = 3 /\ RoleOf[q] = "QA" /\ roleStatus[q] \in {"ASSIGNED", "PENDING"}
      /\ \A t \in Roles : t < q => roleStatus[t] = "PASS"
      /\ Alone(a, bus) /\ pc[a] = "publishing"
  BY <1>1, ContinuationAlone DEF ReviewToQa, Published
<1>3. /\ team' = "ACTIVE" /\ UNCHANGED <<roleAgent, roleRound, stale, dpc, plan>>
      /\ flight' = Touched(flight) /\ pc' = [pc EXCEPT ![a] = "handing"]
  BY DEF ReviewToQa, dispVars
<1>4. status' = "COMPLETED" => status = "COMPLETED"
  BY <1>2, CompletedByGate DEF ReviewToQa, AllPassed
<1>5. /\ roleStatus'[q] = "ACTIVE"
      /\ \A t \in Roles \ {q} : roleStatus'[t] = roleStatus[t]
  BY <1>1
<1>6. /\ OthersKept(a) /\ pc'[a] = "handing"
      /\ \A x \in Agents : /\ flight'[x].msg = flight[x].msg
                            /\ flight'[x].seq = flight[x].seq
                            /\ flight'[x].ok = flight[x].ok
  BY <1>3, TouchedKeeps DEF OthersKept
<1>7. \A b \in Agents : ~OnRole(b)' /\ ~HandingOn(b)' /\ ~SendingBack(b)'
  BY <1>2, <1>6, AloneAfterwards DEF OnRole, HandingOn, SendingBack
<1>8. \A n \in bus' : n.seq = 1 \/ n = m
  BY <1>1, <1>2 DEF Alone, Publish
<1>9. \A n \in bus' : n \in bus \/ n = m
  BY <1>1 DEF Publish
<1>10. Reached(q)' /\ UpToDate(q, roleRound[q])'
  <2>1. \A t \in Roles : t < q => roleStatus'[t] = "PASS"
    BY <1>2, <1>5
  <2> QED BY <1>2, <1>5, <2>1 DEF Reached, UpToDate, Implements
<1>11. m.seq = q /\ m.to = roleAgent[q] /\ m.round = roleRound[q]
  OBVIOUS
<1> HIDE DEF m
<1>12. Addressed'
  <2>1. \A n \in bus' : roleAgent'[n.seq] = n.to
    BY <1>3, <1>9, <1>11 DEF Addressed
  <2>2. \A b \in Agents : pc'[b] # "idle" => pc[b] # "idle"
    BY <1>2, <1>3
  <2> QED BY <1>1, <1>3, <1>6, <2>1, <2>2 DEF Addressed, SeqOf
<1>13. Unplanned' /\ StaleIsOpen'
  BY <1>3, <1>5 DEF Unplanned, StaleIsOpen
<1>14. InOrder'
  BY <1>2, <1>5 DEF InOrder
<1>15. WorkInOrder'
  BY <1>7 DEF WorkInOrder
<1>16. MessagesInOrder'
  BY <1>3, <1>8, <1>10, <1>11 DEF MessagesInOrder
<1>17. ResultsStand'
  <2>1. ASSUME NEW x \in Agents, pc'[x] = "publishing", Ok(x)'
        PROVE  roleStatus'[SeqOf(x)'] = "PASS"
    <3>1. pc[x] = "publishing" /\ Ok(x) /\ SeqOf(x)' = SeqOf(x)
      BY <1>3, <1>6, <2>1 DEF Ok, SeqOf
    <3>2. SeqOf(x) \in Roles /\ roleStatus[SeqOf(x)] = "PASS"
      BY <3>1 DEF ResultsStand
    <3> QED BY <1>2, <1>5, <3>1, <3>2
  <2> QED BY <1>7, <2>1 DEF ResultsStand
<1>18. CompletionIsEarned'
  BY <1>2, <1>4 DEF CompletionIsEarned, AllPassed
<1> QED BY <1>12, <1>13, <1>14, <1>15, <1>16, <1>17, <1>18

\* A result is handed on, or sent back, while nothing else is under way.
LEMMA HandOffAlone ==
  ASSUME SequenceInv, NEW a \in Agents, pc[a] = "publishing",
         HandingOn(a) \/ SendingBack(a)
  PROVE  /\ Alone(a, bus)
         /\ \A t \in Roles : roleStatus[t] = "PASS" => t = 1
<1> USE Typed DEF SequenceInv
<1>1. /\ 1 \in Roles /\ 2 \in Roles /\ roleStatus[1] = "PASS"
      /\ roleStatus[2] # "PASS" /\ NoMessage(2)
  BY HandOffShape
<1>2. \A t \in Roles : roleStatus[t] = "PASS" => t = 1
  <2> SUFFICES ASSUME NEW t \in Roles, roleStatus[t] = "PASS", t # 1
               PROVE  FALSE
    OBVIOUS
  <2>1. t \in Nat /\ t >= 1
    BY ChainShape
  <2>2. 2 < t
    BY <1>1, <2>1
  <2> QED BY <1>1, <2>2 DEF InOrder
<1>3. \A t \in Roles : Reached(t) => t = 2
  <2>1. \A u \in Roles : u < 2 => u = 1
    <3> SUFFICES ASSUME NEW u \in Roles, u < 2 PROVE u = 1
      OBVIOUS
    <3>1. u \in Nat /\ u >= 1
      BY ChainShape
    <3> QED BY <3>1
  <2> QED BY <1>1, <2>1, FrontOnly
<1>4. \A b \in Agents \ {a} : ~OnRole(b)
  <2> SUFFICES ASSUME NEW b \in Agents \ {a}, OnRole(b) PROVE FALSE
    OBVIOUS
  <2>1. SeqOf(b) = 2 /\ roleAgent[2] = b
    BY <1>3 DEF WorkInOrder, Addressed, OnRole
  <2>2. CASE HandingOn(a)
    <3>1. SeqOf(a) + 1 = 2
      BY <2>2, HandOffShape
    <3> QED BY <2>1, <2>2, <3>1 DEF ResultsStand
  <2>3. CASE SendingBack(a)
    BY <2>1, <2>3, HandOffShape
  <2> QED BY <2>2, <2>3
<1>5. \A b \in Agents \ {a} : ~HandingOn(b) /\ ~SendingBack(b)
  <2> SUFFICES ASSUME NEW b \in Agents \ {a}, HandingOn(b) \/ SendingBack(b)
               PROVE  FALSE
    OBVIOUS
  <2>1. ~(HandingOn(a) /\ HandingOn(b)) /\ ~(SendingBack(a) /\ SendingBack(b))
    BY HandOffShape
  <2>2. ASSUME NEW x \in Agents, NEW y \in Agents, HandingOn(x), SendingBack(y)
        PROVE  FALSE
    <3>1. SeqOf(x) + 1 = 2 /\ SeqOf(y) = 2
      BY <2>2, HandOffShape
    <3> QED BY <2>2, <3>1 DEF ResultsStand
  <2>3. ~(HandingOn(a) /\ SendingBack(b)) /\ ~(SendingBack(a) /\ HandingOn(b))
    BY <2>2
  <2> QED BY <2>1, <2>3
<1>6. \A n \in bus : n.seq = 1
  BY <1>1, <1>3 DEF MessagesInOrder, NoMessage
<1> QED BY <1>2, <1>4, <1>5, <1>6 DEF Alone

\* The Role a hand-off reopens is the next one, at a round that is not older
\* than the implementation.
LEMMA HandOffReopens ==
  ASSUME SequenceInv, NEW a \in Agents, HandOff(a)
  PROVE  \E t \in Roles, r \in Nat :
           /\ roleStatus' = [roleStatus EXCEPT ![t] = "ACTIVE"]
           /\ roleRound' = [roleRound EXCEPT ![t] = r]
           /\ \A n \in bus' :
                n \in bus \/ (n.seq = t /\ n.round = r /\ n.to = roleAgent[t])
           /\ \/ HandingOn(a) /\ t = 2 /\ r >= roleRound[1]
              \/ SendingBack(a) /\ t = 1 /\ r > roleRound[1]
<1> USE Typed DEF SequenceInv
<1>1. /\ pc[a] = "publishing" /\ flight[a].target # NoAgent
      /\ HandsOn(a) \/ SendsBack(a)
      /\ flight[a].msg.round \in Nat /\ 1 \in Roles /\ roleRound[1] \in Nat
  BY ChainFacts DEF HandOff, Published
<1>2. CASE HandsOn(a)
  <2>1. HandingOn(a)
    BY <1>1, <1>2 DEF HandingOn, DutiesInv, TypeInv, OutcomeDecided
  <2>2. /\ SeqOf(a) + 1 = 2 /\ 2 \in Roles /\ flight[a].target = roleAgent[2]
        /\ flight[a].msg.round >= roleRound[1]
    BY <2>1, HandOffShape
  <2>3. /\ roleStatus' = [roleStatus EXCEPT ![2] = "ACTIVE"]
        /\ roleRound' = [roleRound EXCEPT ![2] = flight[a].msg.round]
        /\ \A n \in bus' :
             n \in bus \/ (n.seq = 2 /\ n.round = flight[a].msg.round /\ n.to = roleAgent[2])
    <3> DEFINE n0 == [kind |-> "HANDOFF", from |-> a, to |-> flight[a].target,
                      seq |-> 2, round |-> flight[a].msg.round, did |-> 0]
    <3>1. /\ roleStatus' = [roleStatus EXCEPT ![2] = "ACTIVE"]
          /\ roleRound' = [roleRound EXCEPT ![2] = flight[a].msg.round]
          /\ \A n \in bus' : n \in bus \/ n = n0
      BY <1>2, <2>2 DEF HandOff, Publish
    <3> QED BY <2>2, <3>1
  <2> QED BY <1>1, <2>1, <2>2, <2>3
<1>3. CASE SendsBack(a)
  <2>1. SendingBack(a)
    BY <1>1, <1>3 DEF SendingBack, DutiesInv, TypeInv, OutcomeDecided
  <2>2. /\ SeqOf(a) - 1 = 1 /\ flight[a].target = roleAgent[1]
        /\ flight[a].msg.round >= roleRound[1]
    BY <2>1, HandOffShape
  <2>3. ~HandsOn(a)
    BY <1>3 DEF HandsOn, SendsBack
  <2>4. /\ roleStatus' = [roleStatus EXCEPT ![1] = "ACTIVE"]
        /\ roleRound' = [roleRound EXCEPT ![1] = flight[a].msg.round + 1]
        /\ \A n \in bus' :
             n \in bus \/ (n.seq = 1 /\ n.round = flight[a].msg.round + 1
                          /\ n.to = roleAgent[1])
    BY <2>2, <2>3 DEF HandOff, Publish
  <2>5. flight[a].msg.round + 1 \in Nat /\ flight[a].msg.round + 1 > roleRound[1]
    BY <1>1, <2>2
  <2> QED BY <1>1, <2>1, <2>4, <2>5
<1> QED BY <1>1, <1>2, <1>3

LEMMA HandOffKeeps ==
  ASSUME Steps, NEW a \in Agents, HandOff(a)
  PROVE  SequenceInv'
<1> USE Typed DEF Steps, SequenceInv
<1>1. PICK t \in Roles, r \in Nat :
        /\ roleStatus' = [roleStatus EXCEPT ![t] = "ACTIVE"]
        /\ roleRound' = [roleRound EXCEPT ![t] = r]
        /\ \A n \in bus' :
             n \in bus \/ (n.seq = t /\ n.round = r /\ n.to = roleAgent[t])
        /\ \/ HandingOn(a) /\ t = 2 /\ r >= roleRound[1]
           \/ SendingBack(a) /\ t = 1 /\ r > roleRound[1]
  BY HandOffReopens
<1>2. /\ Alone(a, bus) /\ pc[a] = "publishing"
      /\ \A u \in Roles : roleStatus[u] = "PASS" => u = 1
      /\ 1 \in Roles /\ 2 \in Roles /\ roleStatus[1] = "PASS" /\ roleStatus[2] # "PASS"
      /\ Implements(1)
  BY <1>1, HandOffAlone, HandOffShape DEF HandOff, Published
<1>3. /\ team' = "ACTIVE" /\ UNCHANGED <<assigned, curSeq, roleAgent, stale, dpc, plan>>
      /\ flight' \in {flight, Touched(flight)} /\ pc' = [pc EXCEPT ![a] = "handing"]
  BY DEF HandOff, dispVars
<1>4. status' = "COMPLETED" => status = "COMPLETED"
  BY <1>2, CompletedByGate DEF HandOff, AllPassed
<1>5. /\ roleStatus'[t] = "ACTIVE" /\ roleRound'[t] = r
      /\ \A u \in Roles \ {t} :
           roleStatus'[u] = roleStatus[u] /\ roleRound'[u] = roleRound[u]
  BY <1>1
<1>6. /\ OthersKept(a) /\ pc'[a] = "handing"
      /\ \A x \in Agents : /\ flight'[x].msg = flight[x].msg
                            /\ flight'[x].seq = flight[x].seq
                            /\ flight'[x].ok = flight[x].ok
  BY <1>3, TouchedKeeps DEF OthersKept
<1>7. \A b \in Agents : ~OnRole(b)' /\ ~HandingOn(b)' /\ ~SendingBack(b)'
  BY <1>2, <1>6, AloneAfterwards DEF OnRole, HandingOn, SendingBack
<1>8. \A n \in bus' : n.seq = 1 \/ (n.seq = t /\ n.round = r)
  BY <1>1, <1>2 DEF Alone
<1>9. Addressed'
  <2>1. \A n \in bus' : roleAgent'[n.seq] = n.to
    BY <1>1, <1>3 DEF Addressed
  <2>2. \A b \in Agents : pc'[b] # "idle" => pc[b] # "idle"
    BY <1>2, <1>3
  <2> QED BY <1>3, <1>6, <2>1, <2>2 DEF Addressed, SeqOf
<1>10. Unplanned' /\ StaleIsOpen'
  BY <1>3, <1>5 DEF Unplanned, StaleIsOpen
<1>11. InOrder'
  BY <1>1, <1>2, <1>5, ChainShape DEF InOrder
<1>12. WorkInOrder'
  BY <1>7 DEF WorkInOrder
<1>13. MessagesInOrder'
  <2>1. CASE t = 1
    BY <1>8, <2>1 DEF MessagesInOrder
  <2>2. CASE t = 2 /\ r >= roleRound[1]
    <3>1. Reached(t)'
      BY <1>2, <1>5, <2>2, ChainShape DEF Reached
    <3>2. UpToDate(t, r)'
      BY <1>2, <1>5, <2>2, ChainShape DEF UpToDate, Implements
    <3>3. \A n, o \in bus' : n.seq # 1 /\ o.seq = n.seq => n = o
      BY <1>2, <2>2 DEF HandOff, Publish, Alone
    <3> QED BY <1>8, <3>1, <3>2, <3>3 DEF MessagesInOrder
  <2> QED BY <1>1, <2>1, <2>2
<1>14. ResultsStand'
  <2>1. ASSUME NEW x \in Agents, pc'[x] = "publishing", Ok(x)'
        PROVE  roleStatus'[SeqOf(x)'] = "PASS"
    <3>1. /\ x # a /\ pc[x] = "publishing" /\ Ok(x) /\ SeqOf(x)' = SeqOf(x)
          /\ SeqOf(x) \in Roles
      BY <1>3, <1>6, <2>1 DEF Ok, SeqOf
    <3>2. SeqOf(x) = 1
      BY <1>2, <3>1 DEF ResultsStand
    <3>3. HandingOn(x)
      BY <1>2, <3>1, <3>2 DEF HandingOn, HandsOn
    <3> QED BY <1>2, <3>1, <3>3 DEF Alone
  <2> QED BY <1>7, <2>1 DEF ResultsStand
<1>15. CompletionIsEarned'
  BY <1>2, <1>4 DEF CompletionIsEarned, AllPassed
<1> QED BY <1>9, <1>10, <1>11, <1>12, <1>13, <1>14, <1>15

-----------------------------------------------------------------------------
(* The theorems                                                            *)

\* Every Role is held, so that nobody takes the Task without one.
LEMMA NobodyRoleless ==
  ASSUME SequenceInv, NEW m \in bus
  PROVE  ~ClaimRoleless(m)
BY Typed DEF SequenceInv, Addressed, ClaimRoleless, ClaimsTask, HoldsNoRole

\* The steps there are, without redrives.
LEMMA StepsThere ==
  ASSUME Steady, SequenceInv, [Next]_vars
  PROVE  \/ RolesStay
         \/ \E d \in Dispatchers : PlanTeam(d)
         \/ \E m \in bus : ClaimRole(m)
         \/ \E a \in Agents, ok \in BOOLEAN, text \in {"clean", "dirty"} :
              AdapterDone(a, ok, text)
         \/ \E a \in Agents : ReviewToQa(a) \/ HandOff(a)
<1>1. CASE Dispatching
  <2>1. "tick" \in Dispatchers /\ ~CanRedrive
    BY DEF Dispatchers, CanRedrive, Steady
  <2>2. CASE TickList \/ TickSkip
    BY <2>1, <2>2, DispatchQuiet
  <2>3. ASSUME NEW d \in Dispatchers, DispatchStep(d)
        PROVE  RolesStay \/ PlanTeam(d)
    BY <2>3, DispatchQuiet, DispatchStays DEF DispatchStep
  <2> QED
    BY <1>1, <2>1, <2>2, <2>3 DEF Dispatching, Redrive, RedriveFindsNobody
<1>2. ASSUME NEW m \in bus, Receive(m)
      PROVE  RolesStay \/ ClaimRole(m)
  BY <1>2, DropsQuiet, NobodyRoleless DEF Receive
<1>3. ASSUME NEW a \in Agents,
             Work(a) \/ CliReturns(a) \/ BindingRejected(a) \/ FlightThrows(a)
      PROVE  \/ RolesStay \/ ReviewToQa(a) \/ HandOff(a)
             \/ \E ok \in BOOLEAN, text \in {"clean", "dirty"} : AdapterDone(a, ok, text)
  BY <1>3, CallsQuiet DEF Work, Outcome, CliReturns
<1>4. CASE Supervising
  BY <1>4, SupervisingQuiet
<1>5. CASE UNCHANGED vars
  BY <1>5
  DEF vars, taskVars, teamVars, wireVars, flightVars, dispVars, RolesStay, OnRole
<1>6. CASE Working
  BY <1>2, <1>3, <1>6 DEF Working
<1> QED BY <1>1, <1>4, <1>5, <1>6 DEF Next

\* Every step keeps the invariant.
LEMMA SequenceNext ==
  ASSUME Steady, SequenceInv, [Next]_vars
  PROVE  SequenceInv'
<1>1. Steps
  BY DutiesNext DEF SequenceInv, Steps
<1> QED
  BY <1>1, StepsThere, RolesStayKeeps, PlanTeamKeeps, ClaimRoleKeeps, AdapterDoneKeeps,
     ReviewToQaKeeps, HandOffKeeps

\* An admitted Task has not begun.
LEMMA SequenceInit ==
  ASSUME Init
  PROVE  SequenceInv
<1>1. /\ bus = {} /\ stale = {} /\ \A a \in Agents : pc[a] = "idle"
      /\ \A d \in Dispatchers : dpc[d] = "idle"
      /\ \A s \in Roles : roleStatus[s] = "PENDING"
      /\ assigned = NoAgent /\ status = "QUEUED"
  BY DEF Init
<1>2. DutiesInv
  BY DutiesInit
<1>3. Addressed /\ Unplanned /\ InOrder /\ StaleIsOpen /\ CompletionIsEarned
  BY <1>1 DEF Addressed, Unplanned, InOrder, StaleIsOpen, CompletionIsEarned
<1>4. WorkInOrder /\ MessagesInOrder /\ ResultsStand
  BY <1>1
  DEF WorkInOrder, MessagesInOrder, ResultsStand, OnRole, HandingOn, SendingBack
<1> QED BY <1>2, <1>3, <1>4 DEF SequenceInv

\* A Task that FAILed is not taken up again: nothing but the owner's cancel
\* leaves FAIL.
LEMMA FailStays ==
  ASSUME [Next]_vars, status = "FAIL"
  PROVE  status' \in {"FAIL", "CANCELLED"}
<1>1. \A to \in {"QUEUED", "DISPATCHED", "WAITING_MAIN", "CANCELLED", "FAIL"} :
        CanTransition(status, to) => to \in {"QUEUED", "CANCELLED", "FAIL"}
  BY DEF CanTransition, Transitions
<1>2. Reconciled(status, team, verdict) = status
  BY DEF Reconciled
<1>3. CASE Dispatching
  BY <1>1, <1>3
  DEF Dispatching, DispatchStep, TickList, TickSkip, PlanTeam, ReuseTeam,
      RefuseBlockedTeam, DispatchFinish, DispatchRefused, DispatchThrows, Redrive,
      RedriveFindsNobody, CanRedrive, MoveToWaitingMain, Transition, taskVars
<1>4. ASSUME NEW m \in bus, Receive(m)
      PROVE  status' = status
  BY <1>4
  DEF Receive, DropDuplicate, DropClaimed, SupersedeComplete, ClaimRole, ClaimRoleless,
      StartFlight, taskVars
<1>5. ASSUME NEW a \in Agents,
             Work(a) \/ CliReturns(a) \/ BindingRejected(a) \/ FlightThrows(a)
      PROVE  status' \in {"FAIL", "CANCELLED"}
  BY <1>1, <1>2, <1>5
  DEF Work, Outcome, CliReturns, AckDone, QaCompletesChain, VerdictDone,
      OutcomeOverBudget, ReviewToQa, HandOff, OutcomeStops, HandDone, StaleCallback,
      AdapterDone, BindingRejected, FlightThrows, ReconcileTo, MoveToWaitingMain,
      Transition, taskVars
<1>6. CASE Supervising
  BY <1>1, <1>2, <1>6
  DEF Supervising, Watchdog, OrphanLost, ContinueFromWatchdog, OwnerCancel,
      TouchMetadata, BudgetExpires, Backfill, Crash, ProcessLost, ReconcileTo,
      MoveToWaitingMain, Transition, taskVars
<1>7. CASE Working
  BY <1>4, <1>5, <1>7 DEF Working
<1>8. CASE UNCHANGED vars
  BY <1>8 DEF vars, taskVars
<1> QED BY <1>3, <1>6, <1>7, <1>8 DEF Next

\* The Roles whose work stands, and how a step moves them: the next one passes
\* and nothing else happens to the Task, or the first is reopened for rework.
Passed == {s \in Roles : roleStatus[s] = "PASS"}

PassesNext ==
  \E s \in Roles :
    /\ Passed = 1 .. (s - 1) /\ Passed' = 1 .. s
    /\ status \notin {"FAIL", "CANCELLED", "COMPLETED"}
    /\ UNCHANGED <<status, roleRound>>

ReopensFirst ==
  /\ Passed = 1 .. 1 /\ Passed' = 1 .. 0
  /\ roleRound'[1] > roleRound[1]
  /\ status # "COMPLETED" /\ UNCHANGED status

LEMMA PassedMoves ==
  ASSUME Steady, SequenceInv, [Next]_vars
  PROVE  UNCHANGED Passed \/ PassesNext \/ ReopensFirst
<1> USE Typed DEF SequenceInv
<1>1. CASE RolesStay
  BY <1>1 DEF RolesStay, Passed
<1>2. ASSUME NEW d \in Dispatchers, PlanTeam(d)
      PROVE  UNCHANGED Passed
  <2>1. \A s \in Roles : roleStatus[s] # "PASS"
    BY <1>2 DEF PlanTeam, Unplanned
  <2>2. \A s \in Roles : roleStatus'[s] # "PASS"
    BY <1>2 DEF PlanTeam
  <2> QED BY <2>1, <2>2 DEF Passed
<1>3. ASSUME NEW m \in bus, ClaimRole(m)
      PROVE  UNCHANGED Passed
  <2>1. m.seq \in Roles /\ roleStatus[m.seq] # "PASS"
        /\ roleStatus' = [roleStatus EXCEPT ![m.seq] = "ACTIVE"]
    BY <1>3 DEF ClaimRole
  <2> QED BY <2>1 DEF Passed
<1>4. ASSUME NEW a \in Agents, NEW ok \in BOOLEAN,
             NEW text \in {"clean", "dirty"}, AdapterDone(a, ok, text)
      PROVE  UNCHANGED Passed \/ PassesNext
  <2>1. PICK s \in Roles : s = SeqOf(a)
    OBVIOUS
  <2>2. roleAgent[s] = a /\ Reached(s)
    BY <1>4, <2>1, ResultFlights
  <2>3. /\ UNCHANGED <<status, roleRound>>
        /\ roleStatus' = [roleStatus EXCEPT ![s] = IF ok THEN "PASS" ELSE "FAIL"]
        /\ status \notin {"FAIL", "CANCELLED"}
    BY <1>4, <2>1, <2>2 DEF AdapterDone, HoldsRole, SeqOf, Reached, Current, taskVars
  <2>4. roleStatus[s] = "ACTIVE" /\ status # "COMPLETED"
    BY <2>2 DEF Reached, CompletionIsEarned, AllPassed
  <2>5. \A t \in Roles : roleStatus[t] = "PASS" <=> t < s
    <3>1. \A t \in Roles : t < s => roleStatus[t] = "PASS"
      BY <2>2 DEF Reached
    <3>2. \A t \in Roles : roleStatus[t] = "PASS" => ~(s < t) /\ t # s
      BY <2>4 DEF InOrder
    <3>3. \A t \in Roles : t < s \/ s < t \/ t = s
      <4>1. s \in Nat /\ Roles \subseteq Nat
        BY ChainShape
      <4> QED BY <4>1
    <3> QED BY <3>1, <3>2, <3>3
  <2>6. Passed = 1 .. (s - 1)
    BY <2>5, ChainFacts DEF Passed, Roles
  <2>7. CASE ok
    <3>1. \A t \in Roles : roleStatus'[t] = "PASS" <=> (t < s \/ t = s)
      BY <2>3, <2>5, <2>7
    <3>2. Passed' = 1 .. s
      BY <3>1, ChainFacts DEF Passed, Roles
    <3> QED BY <2>3, <2>4, <2>6, <3>2 DEF PassesNext
  <2>8. CASE ~ok
    BY <2>3, <2>4, <2>8 DEF Passed
  <2> QED BY <2>7, <2>8
<1>5. ASSUME NEW a \in Agents, ReviewToQa(a)
      PROVE  UNCHANGED Passed
  <2>1. PICK q \in Roles : /\ roleStatus[q] \in {"ASSIGNED", "PENDING"}
                           /\ roleStatus' = [roleStatus EXCEPT ![q] = "ACTIVE"]
    BY <1>5 DEF ReviewToQa, ContinuesToQa
  <2> QED BY <2>1 DEF Passed
<1>6. ASSUME NEW a \in Agents, HandOff(a)
      PROVE  UNCHANGED Passed \/ ReopensFirst
  <2>1. PICK t \in Roles, r \in Nat :
          /\ roleStatus' = [roleStatus EXCEPT ![t] = "ACTIVE"]
          /\ roleRound' = [roleRound EXCEPT ![t] = r]
          /\ \/ HandingOn(a) /\ t = 2
             \/ SendingBack(a) /\ t = 1 /\ r > roleRound[1]
    BY <1>6, HandOffReopens
  <2>2. CASE HandingOn(a) /\ t = 2
    BY <2>1, <2>2, HandOffShape DEF Passed
  <2>3. CASE SendingBack(a) /\ t = 1 /\ r > roleRound[1]
    <3>1. /\ 1 \in Roles /\ 2 \in Roles /\ roleStatus[1] = "PASS"
          /\ roleStatus[2] # "PASS"
          /\ \A u \in Roles : roleStatus[u] = "PASS" => u = 1
      BY <1>6, <2>3, HandOffShape, HandOffAlone DEF HandOff, Published
    <3>2. Passed = 1 .. 1
      BY <3>1 DEF Passed
    <3>3. Passed' = 1 .. 0 /\ roleRound'[1] > roleRound[1]
      <4>1. \A u \in Roles : roleStatus'[u] # "PASS"
        BY <2>1, <2>3, <3>1
      <4>2. Passed' = {} /\ 1 .. 0 = {}
        BY <4>1 DEF Passed
      <4>3. roleRound'[1] = r
        BY <2>1, <2>3, <3>1
      <4> QED BY <2>3, <4>2, <4>3
    <3>4. status # "COMPLETED" /\ status' = status
      BY <1>6, <3>1
      DEF HandOff, Reconciled, GateOpens, CanCompleteTeam, CompletionIsEarned, AllPassed
    <3> QED BY <3>2, <3>3, <3>4 DEF ReopensFirst
  <2> QED BY <2>1, <2>2, <2>3
<1> QED BY <1>1, <1>2, <1>3, <1>4, <1>5, <1>6, StepsThere

\* Work is done in sequence.
THEOREM WorkInSequence ==
  ASSUME "redrive" \notin Faults
  PROVE  Spec => []SequenceInv
<1>1. Steady
  BY DEF Steady
<1>2. Init => SequenceInv
  BY SequenceInit
<1>3. SequenceInv /\ [Next]_vars => SequenceInv'
  BY <1>1, SequenceNext
<1> QED BY <1>2, <1>3, PTL DEF Spec

\* "The scheduler runs one Role at a time": two CLIs never work on the Task.
THEOREM OneCli ==
  ASSUME "redrive" \notin Faults
  PROVE  Spec => []OneRoleAtATime
<1>1. SequenceInv => OneRoleAtATime
  BY OneOnRole DEF OneRoleAtATime, OnRole
<1> QED BY <1>1, WorkInSequence, PTL

\* A result that passes the fence is that of the Role the Task stands at.
THEOREM FenceAtCursor ==
  ASSUME "redrive" \notin Faults
  PROVE  Spec => []FenceFollowsCursor
<1>1. ASSUME SequenceInv, NEW a \in Agents,
             pc[a] = "executing", Current(a), flight[a].seq # 0
      PROVE  flight[a].seq = curSeq /\ roleStatus[curSeq] = "ACTIVE"
  <2> USE <1>1, Typed DEF SequenceInv
  <2>1. /\ SeqOf(a) \in Roles /\ flight[a].seq = SeqOf(a) /\ roleAgent[SeqOf(a)] = a
        /\ roleStatus[SeqOf(a)] = "ACTIVE"
    BY DEF Addressed, WorkInOrder, OnRole, Reached
  <2>2. curSeq \in Roles /\ roleAgent[curSeq] = a
    BY AgentsAssumption DEF Addressed, Current
  <2> QED BY <2>1, <2>2, AgentsAssumption DEF DutiesInv, SeparationOfDuties
<1>2. SequenceInv => FenceFollowsCursor
  BY <1>1 DEF FenceFollowsCursor
<1> QED BY <1>2, WorkInSequence, PTL

\* COMPLETED means that every Role passed, on work nobody redid afterwards.
THEOREM CompletionEarned ==
  ASSUME "redrive" \notin Faults
  PROVE  Spec => []CompletionIsEarned
<1>1. SequenceInv => CompletionIsEarned
  BY DEF SequenceInv
<1> QED BY <1>1, WorkInSequence, PTL

\* Only a revision takes a pass back.
THEOREM PassesStand ==
  ASSUME "redrive" \notin Faults
  PROVE  Spec => PassUndoneByRevision
<1>1. ASSUME SequenceInv, [Next]_vars, NEW s \in Roles,
             roleStatus[s] = "PASS", roleStatus'[s] # "PASS"
      PROVE  roleRound'[s] > roleRound[s]
  <2>1. s \in Passed /\ s \notin Passed'
    BY <1>1 DEF Passed
  <2>2. ~PassesNext
    BY <2>1, ChainShape DEF PassesNext
  <2>3. ReopensFirst
    BY <1>1, <2>1, <2>2, PassedMoves DEF Steady
  <2>4. s = 1
    BY <2>1, <2>3 DEF ReopensFirst
  <2> QED BY <2>3, <2>4 DEF ReopensFirst
<1>2. SequenceInv /\ [Next]_vars =>
        [\A s \in Roles : roleStatus[s] = "PASS" /\ roleStatus'[s] # "PASS"
           => roleRound'[s] > roleRound[s]]_vars
  BY <1>1
<1> QED BY <1>2, WorkInSequence, PTL DEF Spec, PassUndoneByRevision

\* The chain implements the sequential pipeline: every step is a pass of the
\* next Role, a rework of the latest, the completion, the close, or none.
LEMMA PipelineStep ==
  ASSUME Steady, SequenceInv, SequenceInv', [Next]_vars
  PROVE  [Pipeline!Next]_<<Passed, PipelineOutcome>>
<1>1. status \in Terminal => UNCHANGED status
  BY DispatchingKeepsTerminal, WorkingKeepsTerminal, SupervisingKeepsTerminal
  DEF Next, StaysTerminal, vars, taskVars
<1>2. status = "FAIL" => status' \in {"FAIL", "CANCELLED"}
  BY FailStays
<1>3. CASE UNCHANGED Passed
  <2>1. status' = "COMPLETED" => Passed = 1 .. N
    BY <1>3 DEF SequenceInv, CompletionIsEarned, AllPassed, Passed, Roles
  <2>2. \/ PipelineOutcome' = PipelineOutcome
        \/ PipelineOutcome = "open" /\ PipelineOutcome' = "closed"
        \/ PipelineOutcome = "open" /\ PipelineOutcome' = "completed" /\ Passed = 1 .. N
    BY <1>1, <1>2, <2>1 DEF PipelineOutcome, Terminal
  <2> QED
    BY <1>3, <2>2 DEF Passed, Pipeline!Next, Pipeline!Complete, Pipeline!Close
<1>4. CASE PassesNext
  <2>1. PICK s \in Roles :
          /\ Passed = 1 .. (s - 1) /\ Passed' = 1 .. s
          /\ status \notin {"FAIL", "CANCELLED", "COMPLETED"} /\ UNCHANGED status
    BY <1>4 DEF PassesNext
  <2>2. PipelineOutcome = "open" /\ UNCHANGED PipelineOutcome
    BY <2>1 DEF PipelineOutcome
  <2> QED BY <2>1, <2>2 DEF Passed, Pipeline!Next, Pipeline!Pass, Roles
<1>5. CASE ReopensFirst
  <2>1. PipelineOutcome # "completed" /\ UNCHANGED PipelineOutcome
    BY <1>5 DEF PipelineOutcome, ReopensFirst
  <2>2. 1 \in 1 .. N /\ 1 - 1 = 0
    BY ChainFacts DEF Roles
  <2> QED
    BY <1>5, <2>1, <2>2 DEF ReopensFirst, Passed, Pipeline!Next, Pipeline!Rework
<1> QED BY <1>3, <1>4, <1>5, PassedMoves

\* The chain of dispatchers, workers and supervisors implements the sequential
\* pipeline: every step passes the next Role, takes the latest passes back for a
\* revision, completes the Task or is none of the pipeline's.
THEOREM ChainRefinesPipeline ==
  ASSUME "redrive" \notin Faults
  PROVE  Spec => ImplementsPipeline
<1>1. Init => Pipeline!Init
  BY DEF Init, Pipeline!Init, PipelineOutcome
<1>2. SequenceInv /\ SequenceInv' /\ [Next]_vars =>
        [Pipeline!Next]_<<{s \in Roles : roleStatus[s] = "PASS"}, PipelineOutcome>>
  BY PipelineStep DEF Steady, Passed
<1> QED
  BY <1>1, <1>2, WorkInSequence, PTL DEF Spec, ImplementsPipeline, Pipeline!Spec
=============================================================================

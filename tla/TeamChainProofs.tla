-------------------------- MODULE TeamChainProofs --------------------------
(***************************************************************************)
(* Type correctness of a team Task, that COMPLETED and CANCELLED are final,*)
(* the separation of duties and that no agent is left BUSY, for every      *)
(* chain, set of agents, bound and set of faults.                          *)
(***************************************************************************)
EXTENDS TeamChainProperties, TLAPS

\* A chain has a Role, and its Roles are of the three kinds.
LEMMA ChainFacts ==
  /\ N \in Nat /\ N >= 1 /\ 1 \in Roles
  /\ RoleOf \in [Roles -> {"DEVELOPER", "REVIEWER", "QA"}]
<1>1. CASE RoleOf = <<"DEVELOPER", "REVIEWER", "QA">>
  <2>1. N = 3 BY <1>1 DEF N
  <2>2. RoleOf[1] = "DEVELOPER" /\ RoleOf[2] = "REVIEWER" /\ RoleOf[3] = "QA" BY <1>1
  <2>3. DOMAIN RoleOf = 1 .. 3 BY <1>1
  <2> QED BY <1>1, <2>1, <2>2, <2>3 DEF Roles
<1>2. CASE RoleOf = <<"DEVELOPER", "REVIEWER">>
  BY <1>2 DEF N, Roles
<1>3. CASE RoleOf = <<"DEVELOPER">>
  BY <1>3 DEF N, Roles
<1>4. CASE RoleOf = <<"REVIEWER">>
  BY <1>4 DEF N, Roles
<1>5. CASE RoleOf = <<"QA">>
  BY <1>5 DEF N, Roles
<1> QED BY <1>1, <1>2, <1>3, <1>4, <1>5, ChainAssumption DEF Chains

\* The locals of no call in progress are well typed.
LEMMA IdleType == \A a \in Agents : Idle(a) \in Flights
BY ChainFacts, BoundsAssumption DEF Idle, Flights, Messages, Roles

\* A write to the tasks row changes no local but the fence's version.
LEMMA TouchedType ==
  ASSUME NEW f \in [Agents -> Flights]
  PROVE  /\ Touched(f) \in [Agents -> Flights]
         /\ \A x \in Agents : /\ Touched(f)[x].msg = f[x].msg
                              /\ Touched(f)[x].ok = f[x].ok
                              /\ Touched(f)[x].target = f[x].target
BY DEF Touched, Flights

\* A flight that lost its process row differs in that alone.
LEMMA LostType ==
  ASSUME NEW f \in [Agents -> Flights], NEW a \in Agents
  PROVE  /\ [f[a] EXCEPT !.lost = TRUE] \in Flights
         /\ [f EXCEPT ![a].lost = TRUE] \in [Agents -> Flights]
         /\ \A x \in Agents : /\ [f EXCEPT ![a].lost = TRUE][x].msg = f[x].msg
                              /\ [f EXCEPT ![a].lost = TRUE][x].ok = f[x].ok
                              /\ [f EXCEPT ![a].lost = TRUE][x].target = f[x].target
BY DEF Flights

\* What StartFlight writes is well typed.
LEMMA StartFlightType ==
  ASSUME TypeOK, NEW m \in bus, NEW s \in 0 .. N, StartFlight(m, s)
  PROVE  /\ status' \in Status /\ attempt' \in Nat
         /\ WireTypeOK' /\ m.to \in Agents /\ m.seq \in Roles
         /\ pc' \in [Agents -> {"idle", "acking", "executing", "publishing",
                              "verdict", "handing"}]
         /\ flight' \in [Agents -> Flights] /\ busy' \subseteq Agents
         /\ answered' \in {"noTask", "open", "answered"}
         /\ \A x \in Agents : pc'[x] = "publishing" =>
              /\ pc[x] = "publishing" /\ flight'[x].msg = flight[x].msg
              /\ flight'[x].ok = flight[x].ok
              /\ flight'[x].target = flight[x].target
<1> DEFINE att == IF status \in {"DISPATCHED", "RUNNING"} THEN attempt + 1 ELSE attempt
           new == [Idle(m.to) EXCEPT !.msg = m, !.seq = s, !.attempt = att]
<1>1. m \in Messages /\ m.to \in Agents /\ m.seq \in Roles
  BY DEF TypeOK, WireTypeOK, Messages
<1>2. att \in Nat BY DEF TypeOK, TaskTypeOK
<1>3. new \in Flights
  BY <1>1, <1>2, IdleType DEF Flights, Idle
<1>4. flight' = [Touched(flight) EXCEPT ![m.to] = new]
  BY DEF StartFlight
<1>5. flight' \in [Agents -> Flights]
  BY <1>1, <1>3, <1>4, TouchedType DEF TypeOK, FlightTypeOK
<1>6. \A x \in Agents : pc'[x] = "publishing" =>
        /\ pc[x] = "publishing" /\ flight'[x].msg = flight[x].msg
        /\ flight'[x].ok = flight[x].ok /\ flight'[x].target = flight[x].target
  BY <1>1, <1>4, TouchedType DEF StartFlight, TypeOK, FlightTypeOK
<1> QED
  BY <1>1, <1>2, <1>5, <1>6
  DEF StartFlight, TypeOK, TaskTypeOK, WireTypeOK, EventTypeOK, FlightTypeOK, Status

\* A step that decides no outcome leaves the decided ones as they were.
LEMMA DecisionsKept ==
  ASSUME OutcomeDecided,
         \A a \in Agents : pc'[a] = "publishing" =>
           /\ pc[a] = "publishing" /\ flight'[a].msg = flight[a].msg
           /\ flight'[a].ok = flight[a].ok /\ flight'[a].target = flight[a].target
  PROVE  OutcomeDecided'
BY DEF OutcomeDecided, SendsBack, HandsOn, SeqOf, Role, Ok, Implements

-----------------------------------------------------------------------------
(* Steps that start nothing: no Role is given out, no message is sent, no  *)
(* call begins and no outcome is decided.  Most of Next is of this kind.   *)

USE DEF TypeInv, TypeOK, TaskTypeOK, TeamTypeOK, EventTypeOK, WireTypeOK,
        FlightTypeOK, DispTypeOK, StaffedInProgress, InProgress, Staffed,
        PlansAnAgent, taskVars, teamVars, eventVars, wireVars, flightVars,
        dispVars

StartsNothing ==
  /\ TypeOK'
  /\ status' = "DISPATCHED" => status = "DISPATCHED"
  /\ team' # team => team' = "COMPLETE" /\ InProgress
  /\ bus' \subseteq bus
  /\ \A a \in Agents : pc'[a] # "idle" => pc[a] # "idle"
  /\ \A d \in Dispatchers : dpc'[d] = "preparing" =>
       dpc[d] = "preparing" /\ plan'[d] = plan[d]
  /\ \A a \in Agents : pc'[a] = "publishing" =>
       /\ pc[a] = "publishing" /\ flight'[a].msg = flight[a].msg
       /\ flight'[a].ok = flight[a].ok /\ flight'[a].target = flight[a].target
  /\ UNCHANGED <<roleAgent, verdict>>

\* A step that starts nothing keeps the invariant.
LEMMA QuietStep ==
  ASSUME TypeInv, StartsNothing
  PROVE  TypeInv'
<1>1. InProgress' => InProgress
  BY DEF StartsNothing
<1>2. StaffedInProgress'
  BY <1>1 DEF StartsNothing
<1>3. PlansAnAgent'
  BY DEF StartsNothing
<1>4. OutcomeDecided'
  BY DecisionsKept DEF StartsNothing
<1> QED BY <1>2, <1>3, <1>4 DEF StartsNothing

\* Whatever acts on the Task from outside its chain starts nothing.
LEMMA SupervisingType ==
  ASSUME TypeInv, Supervising
  PROVE  TypeInv'
<1>1. Watchdog => StartsNothing
  BY TouchedType
  DEF StartsNothing, Watchdog, MoveToWaitingMain, Transition, Status
<1>2. OrphanLost => StartsNothing
  <2> SUFFICES ASSUME OrphanLost PROVE StartsNothing
    OBVIOUS
  <2>1. CASE status \in {"CLAIMED", "RUNNING"}
    BY ZenonT(30), <2>1, TouchedType
    DEF StartsNothing, OrphanLost, MoveToWaitingMain, Transition, Status
  <2>2. CASE status \notin {"CLAIMED", "RUNNING"}
    BY <2>2 DEF StartsNothing, OrphanLost
  <2> QED BY <2>1, <2>2
<1>3. ContinueFromWatchdog => StartsNothing
  BY TouchedType DEF StartsNothing, ContinueFromWatchdog, Transition, Status
<1>4. OwnerCancel => StartsNothing
  BY TouchedType DEF StartsNothing, OwnerCancel, Transition, Status
<1>5. TouchMetadata => StartsNothing
  BY TouchedType DEF StartsNothing, TouchMetadata
<1>6. BudgetExpires => StartsNothing
  <2> SUFFICES ASSUME BudgetExpires PROVE StartsNothing
    OBVIOUS
  <2>1. \A x \in Agents : /\ flight'[x] \in Flights /\ flight'[x].msg = flight[x].msg
                          /\ flight'[x].ok = flight[x].ok
                          /\ flight'[x].target = flight[x].target
    BY LostType DEF BudgetExpires
  <2>2. flight' \in [Agents -> Flights]
    BY <2>1 DEF BudgetExpires
  <2> QED BY <2>1, <2>2 DEF StartsNothing, BudgetExpires
<1>7. Backfill => StartsNothing
  BY TouchedType
  DEF StartsNothing, Backfill, ReconcileTo, Reconciled, ReconciledTeam, Status,
      TeamStatus
<1>8. Crash => StartsNothing
  <2> SUFFICES ASSUME Crash PROVE StartsNothing
    OBVIOUS
  <2>1. flight' \in [Agents -> Flights]
    BY IdleType DEF Crash
  <2>2. orphan' \in BOOLEAN
    BY DEF Crash
  <2>3. plan' \in [Dispatchers -> [agent : Agents \cup {NoAgent}, round : 0 .. MaxRound]]
    BY BoundsAssumption DEF Crash, NoPlan
  <2> QED BY <2>1, <2>2, <2>3 DEF StartsNothing, Crash
<1>9. ASSUME NEW a \in Agents, ProcessLost(a)
      PROVE  StartsNothing
  <2> DEFINE f == [flight EXCEPT ![a].lost = TRUE]
  <2>1. /\ f \in [Agents -> Flights]
        /\ \A x \in Agents : /\ f[x].msg = flight[x].msg /\ f[x].ok = flight[x].ok
                             /\ f[x].target = flight[x].target
    BY LostType
  <2>2. /\ Touched(f) \in [Agents -> Flights]
        /\ \A x \in Agents : /\ Touched(f)[x].msg = f[x].msg
                             /\ Touched(f)[x].ok = f[x].ok
                             /\ Touched(f)[x].target = f[x].target
    BY <2>1, TouchedType
  <2>3. flight' \in {f, Touched(f)}
    BY <1>9 DEF ProcessLost
  <2> HIDE DEF f
  <2>4. CASE status \in {"CLAIMED", "RUNNING"}
    BY <1>9, <2>1, <2>2, <2>3, <2>4
    DEF StartsNothing, ProcessLost, MoveToWaitingMain, Transition, Status
  <2>5. CASE status \notin {"CLAIMED", "RUNNING"}
    BY ZenonT(30), <1>9, <2>1, <2>2, <2>3, <2>5 DEF StartsNothing, ProcessLost
  <2> QED BY <2>4, <2>5
<1> QED
  BY <1>1, <1>2, <1>3, <1>4, <1>5, <1>6, <1>7, <1>8, <1>9, QuietStep DEF Supervising

-----------------------------------------------------------------------------
(* The worker runtime *)

\* Turning a message away starts nothing.
LEMMA DropsType ==
  ASSUME TypeInv, NEW m \in bus,
         DropDuplicate(m) \/ DropClaimed(m) \/ SupersedeComplete(m)
  PROVE  TypeInv'
<1>1. DropDuplicate(m) => StartsNothing
  BY DEF StartsNothing, DropDuplicate
<1>2. DropClaimed(m) => StartsNothing
  BY DEF StartsNothing, DropClaimed
<1>3. SupersedeComplete(m) => StartsNothing
  BY DEF StartsNothing, SupersedeComplete
<1> QED BY <1>1, <1>2, <1>3, QuietStep

\* A claim writes well-typed rows, and the team was staffed when m was sent.
LEMMA ClaimType ==
  ASSUME TypeInv, NEW m \in bus, ClaimRole(m) \/ ClaimRoleless(m)
  PROVE  TypeInv'
<1>1. m.to \in Agents /\ m.seq \in Roles /\ m.seq \in 0 .. N
  BY ChainFacts DEF Messages, Roles
<1>2. StartFlight(m, m.seq) \/ StartFlight(m, curSeq)
  BY DEF ClaimRole, ClaimRoleless
<1>3. /\ status' \in Status /\ attempt' \in Nat /\ WireTypeOK'
      /\ pc' \in [Agents -> {"idle", "acking", "executing", "publishing",
                           "verdict", "handing"}]
      /\ flight' \in [Agents -> Flights] /\ busy' \subseteq Agents
      /\ answered' \in {"noTask", "open", "answered"}
      /\ \A x \in Agents : pc'[x] = "publishing" =>
           /\ pc[x] = "publishing" /\ flight'[x].msg = flight[x].msg
           /\ flight'[x].ok = flight[x].ok
           /\ flight'[x].target = flight[x].target
  BY <1>1, <1>2, StartFlightType
<1>4. UNCHANGED <<why, roleAgent, roleRound, dirty, verdict, qaSent, orphan, budget,
                  dpc, plan, nDisp, stale>>
  BY DEF ClaimRole, ClaimRoleless
<1>5. /\ curSeq' \in 0 .. N /\ assigned' \in Agents \cup {NoAgent}
      /\ roleStatus' \in [Roles -> RoleStatus] /\ team' \in TeamStatus
      /\ team' = "NONE" => team = "NONE"
  BY <1>1, ChainFacts DEF ClaimRole, ClaimRoleless, RoleStatus, TeamStatus, Roles
<1>6. TypeOK'
  BY <1>3, <1>4, <1>5
<1>7. StaffedInProgress'
  BY <1>4, <1>5
<1>8. OutcomeDecided'
  BY <1>3, DecisionsKept
<1> QED BY <1>4, <1>6, <1>7, <1>8

\* A call that returns, or whose ACK is out, starts nothing.
LEMMA FlightStepsType ==
  ASSUME TypeInv, NEW a \in Agents,
         \/ AckDone(a) \/ StaleCallback(a) \/ FlightThrows(a) \/ BindingRejected(a)
         \/ HandDone(a) \/ VerdictDone(a) \/ OutcomeOverBudget(a) \/ OutcomeStops(a)
  PROVE  TypeInv'
<1>1. AckDone(a) => StartsNothing
  BY DEF StartsNothing, AckDone
<1>2. StaleCallback(a) => StartsNothing
  BY IdleType DEF StartsNothing, StaleCallback, EndFlight
<1>3. FlightThrows(a) => StartsNothing
  BY IdleType DEF StartsNothing, FlightThrows, EndFlight
<1>4. BindingRejected(a) => StartsNothing
  BY IdleType, TouchedType
  DEF StartsNothing, BindingRejected, EndFlight, MoveToWaitingMain, Transition,
      Status, Flights
<1>5. HandDone(a) => StartsNothing
  BY IdleType DEF StartsNothing, HandDone, FinishFlight, EndFlight, Flights
<1>6. VerdictDone(a) => StartsNothing
  BY IdleType, TouchedType
  DEF StartsNothing, VerdictDone, FinishFlight, EndFlight, Flights, ReconcileTo,
      Reconciled, ReconciledTeam, Status, TeamStatus
<1>7. OutcomeOverBudget(a) => StartsNothing
  BY IdleType, TouchedType
  DEF StartsNothing, OutcomeOverBudget, Published, FinishFlight, EndFlight, Flights,
      ReconcileTo, Reconciled, ReconciledTeam, Status, TeamStatus
<1>8. OutcomeStops(a) => StartsNothing
  BY IdleType, TouchedType
  DEF StartsNothing, OutcomeStops, Published, FinishFlight, EndFlight, Flights,
      ReconcileTo, Reconciled, ReconciledTeam, Status, TeamStatus
<1> QED
  BY <1>1, <1>2, <1>3, <1>4, <1>5, <1>6, <1>7, <1>8, QuietStep

\* The chain is only ever completed while its call is in progress.
LEMMA QaCompletesType ==
  ASSUME TypeInv, NEW a \in Agents, QaCompletesChain(a)
  PROVE  TypeInv'
<1>1. TypeOK'
  BY DEF QaCompletesChain, TeamStatus
<1>2. StaffedInProgress'
  BY DEF QaCompletesChain
<1>3. OutcomeDecided'
  BY DecisionsKept DEF QaCompletesChain
<1> QED BY <1>1, <1>2, <1>3 DEF QaCompletesChain

\* What AdapterDone writes into a flight keeps it well typed.
LEMMA DecidedType ==
  ASSUME NEW f \in Flights
  PROVE  /\ \A ok \in BOOLEAN, q \in 0 .. N, t \in Agents \cup {NoAgent} :
              [f EXCEPT !.ok = ok, !.seq = q, !.target = t] \in Flights
         /\ [f EXCEPT !.based = FALSE] \in Flights
BY DEF Flights

\* A result that passes the fence fixes what follows it: a failed review is at
\* a round that leaves room for another, and the target Role is in the chain.
LEMMA AdapterDoneType ==
  ASSUME TypeInv, NEW a \in Agents, NEW ok \in BOOLEAN,
         NEW text \in {"clean", "dirty"},
         AdapterDone(a, ok, text)
  PROVE  TypeInv'
<1> DEFINE f == flight[a]
           s == f.msg.seq
           own == HoldsRole(a, s)
           target == IF ~own THEN NoAgent
                     ELSE IF RoleOf[s] = "REVIEWER" THEN PreviousAgent(s) ELSE NextAgent(s)
           done == [f EXCEPT !.ok = ok, !.seq = IF own THEN s ELSE 0, !.target = target]
<1>1. f \in Flights /\ s \in Roles /\ f.msg.round \in 0 .. MaxRound
  BY DEF Flights, Messages
<1>2. target \in Agents \cup {NoAgent}
  BY SMTT(20), <1>1, ChainFacts DEF PreviousAgent, NextAgent, Roles
<1>3. done \in Flights
  <2>1. (IF own THEN s ELSE 0) \in 0 .. N
    BY <1>1, ChainFacts DEF Roles
  <2> QED BY ZenonT(30), <1>1, <1>2, <2>1, DecidedType
<1>4. /\ flight'[a] = done
      /\ \A x \in Agents \ {a} :
           flight'[x] = flight[x] \/ flight'[x] = [flight[x] EXCEPT !.based = FALSE]
      /\ DOMAIN flight' = Agents
  BY DEF AdapterDone
<1>5. flight' \in [Agents -> Flights]
  <2>1. \A x \in Agents : [flight[x] EXCEPT !.based = FALSE] \in Flights
    BY DecidedType
  <2> HIDE DEF done
  <2>2. \A x \in Agents : flight'[x] \in Flights
    BY <1>3, <1>4, <2>1
  <2> QED BY <2>2 DEF AdapterDone
<1>6. TypeOK'
  BY <1>1, <1>5
  DEF AdapterDone, RoleStatus
<1>7. StaffedInProgress'
  BY DEF AdapterDone
<1>8. PlansAnAgent'
  BY DEF AdapterDone
<1>9. OutcomeDecided'
  <2> SUFFICES ASSUME NEW x \in Agents, pc'[x] = "publishing"
               PROVE  /\ SendsBack(x)' => flight'[x].msg.round < MaxRound
                      /\ flight'[x].target # NoAgent /\ HandsOn(x)' => SeqOf(x)' + 1 \in Roles
                      /\ flight'[x].target # NoAgent /\ SendsBack(x)' => SeqOf(x)' - 1 \in Roles
    BY DEF OutcomeDecided
  <2>1. CASE x = a
    <3>1. flight'[a].msg = f.msg /\ flight'[a].ok = ok /\ flight'[a].target = target
      BY <1>1, <1>4 DEF Flights
    <3>2. ~ok /\ RoleOf[s] = "REVIEWER" => f.msg.round < MaxRound
      BY DEF AdapterDone
    <3>3. target # NoAgent /\ RoleOf[s] # "REVIEWER" => s + 1 \in Roles
      BY <1>1, ChainFacts DEF NextAgent, Roles
    <3>4. target # NoAgent /\ RoleOf[s] = "REVIEWER" => s - 1 \in Roles
      BY <1>1, ChainFacts DEF PreviousAgent, Roles
    <3> QED
      BY <2>1, <3>1, <3>2, <3>3, <3>4 DEF SendsBack, HandsOn, SeqOf, Role, Ok, Implements
  <2>2. CASE x # a
    <3>1. pc[x] = "publishing"
      BY <2>2 DEF AdapterDone
    <3>2. flight'[x].msg = flight[x].msg /\ flight'[x].ok = flight[x].ok
          /\ flight'[x].target = flight[x].target
      BY <1>4, <2>2 DEF Flights
    <3> QED
      BY <3>1, <3>2 DEF OutcomeDecided, SendsBack, HandsOn, SeqOf, Role, Ok, Implements
  <2> QED BY <2>1, <2>2
<1> QED BY <1>6, <1>7, <1>8, <1>9

\* The TASK that continues to QA goes to the agent of a staffed Role.
LEMMA ReviewToQaType ==
  ASSUME TypeInv, NEW a \in Agents, ReviewToQa(a)
  PROVE  TypeInv'
<1> DEFINE task(q) ==
      [kind |-> "TASK", from |-> Orchestrator, to |-> roleAgent[q], seq |-> q,
       round |-> roleRound[q], did |-> 0]
<1>1. PICK q \in Roles :
        /\ ContinuesToQa(a, q)
        /\ curSeq' = q /\ assigned' = roleAgent[q]
        /\ roleStatus' = [roleStatus EXCEPT ![q] = "ACTIVE"]
        /\ qaSent' = qaSent \cup {<<roleAgent[q], roleRound[q]>>}
        /\ Publish(task(q))
  BY DEF ReviewToQa
<1>2. roleAgent[q] \in Agents /\ roleRound[q] \in 0 .. MaxRound
  BY <1>1 DEF ContinuesToQa
<1>3. task(q) \in Messages
  BY <1>2, BoundsAssumption DEF Messages
<1>4. TaskTypeOK'
  BY <1>1, <1>2 DEF ReviewToQa, Reconciled, Status, Roles
<1>5. TeamTypeOK'
  BY <1>1 DEF ReviewToQa, RoleStatus, TeamStatus
<1>6. EventTypeOK'
  BY <1>1, <1>2 DEF ReviewToQa
<1>7. WireTypeOK'
  BY <1>1, <1>3 DEF ReviewToQa, Publish
<1>8. FlightTypeOK'
  BY TouchedType DEF ReviewToQa
<1>9. DispTypeOK'
  BY DEF ReviewToQa
<1>10. StaffedInProgress'
  BY DEF ReviewToQa, Published
<1>11. PlansAnAgent'
  BY DEF ReviewToQa
<1>12. OutcomeDecided'
  BY DecisionsKept, TouchedType DEF ReviewToQa
<1> QED
  BY <1>4, <1>5, <1>6, <1>7, <1>8, <1>9, <1>10, <1>11, <1>12

\* A hand-off addresses the Role, and the round, that AdapterDone decided.
LEMMA HandOffType ==
  ASSUME TypeInv, NEW a \in Agents, HandOff(a)
  PROVE  TypeInv'
<1> DEFINE f == flight[a]
           t == IF HandsOn(a) THEN SeqOf(a) + 1 ELSE SeqOf(a) - 1
           r == IF HandsOn(a) THEN f.msg.round ELSE f.msg.round + 1
           m == [kind |-> IF HandsOn(a) THEN "HANDOFF" ELSE "REVISION_REQUEST",
                 from |-> a, to |-> f.target, seq |-> t, round |-> r, did |-> 0]
<1>1. f \in Flights /\ f.msg \in Messages /\ f.target \in Agents
  BY DEF HandOff, Flights
<1>2. t \in Roles /\ r \in 0 .. MaxRound
  BY <1>1, BoundsAssumption
  DEF HandOff, Published, OutcomeDecided, SendsBack, SeqOf, Messages
<1>3. m \in Messages
  BY <1>1, <1>2, BoundsAssumption DEF Messages
<1>4. TaskTypeOK'
  BY DEF HandOff, Reconciled, Status
<1>5. TeamTypeOK'
  BY <1>2 DEF HandOff, RoleStatus, TeamStatus
<1>6. EventTypeOK'
  BY DEF HandOff
<1>7. WireTypeOK'
  BY <1>3 DEF HandOff, Publish
<1>8. FlightTypeOK'
  BY TouchedType DEF HandOff
<1>9. DispTypeOK'
  BY DEF HandOff
<1>10. StaffedInProgress'
  BY DEF HandOff, Published
<1>11. PlansAnAgent'
  BY DEF HandOff
<1>12. OutcomeDecided'
  BY DecisionsKept, TouchedType DEF HandOff
<1> QED
  BY <1>4, <1>5, <1>6, <1>7, <1>8, <1>9, <1>10, <1>11, <1>12

-----------------------------------------------------------------------------
(* Dispatching *)

\* Listing, skipping, refusing and giving up start nothing.
LEMMA DispatchQuietType ==
  ASSUME TypeInv, NEW d \in Dispatchers,
         \/ TickList \/ TickSkip \/ RedriveFindsNobody
         \/ RefuseBlockedTeam(d) \/ DispatchRefused(d) \/ DispatchThrows(d)
  PROVE  TypeInv'
<1>1. TickList => StartsNothing
  BY DEF StartsNothing, TickList
<1>2. TickSkip => StartsNothing
  BY DEF StartsNothing, TickSkip
<1>3. RedriveFindsNobody => StartsNothing
  BY TouchedType DEF StartsNothing, RedriveFindsNobody, CanRedrive, Transition, Status
<1>4. RefuseBlockedTeam(d) => StartsNothing
  <2> SUFFICES ASSUME RefuseBlockedTeam(d) PROVE StartsNothing
    OBVIOUS
  <2>1. CASE status = "QUEUED"
    BY <2>1, TouchedType
    DEF StartsNothing, RefuseBlockedTeam, MoveToWaitingMain, Transition, Status
  <2>2. CASE status # "QUEUED"
    BY <2>2 DEF StartsNothing, RefuseBlockedTeam
  <2> QED BY <2>1, <2>2
<1>5. NoPlan \in [agent : Agents \cup {NoAgent}, round : 0 .. MaxRound]
  BY BoundsAssumption DEF NoPlan
<1>6. DispatchRefused(d) => StartsNothing
  BY <1>5, TouchedType
  DEF StartsNothing, DispatchRefused, MoveToWaitingMain, Transition, Status
<1>7. DispatchThrows(d) => StartsNothing
  BY <1>5 DEF StartsNothing, DispatchThrows
<1> QED BY <1>1, <1>2, <1>3, <1>4, <1>6, <1>7, QuietStep

\* A Role is routed to an agent, never to nobody.
LEMMA RoutableType ==
  ASSUME NEW s, NEW T, NEW ag
  PROVE  Routable(s, T, ag) \subseteq Agents
BY DEF Routable

\* A team is planned before anything starts, and prepared only when complete.
LEMMA PlanTeamType ==
  ASSUME TypeInv, NEW d \in Dispatchers, PlanTeam(d)
  PROVE  TypeInv'
<1>1. PICK f \in [Roles -> Agents \cup {NoAgent}], k \in 0 .. N :
        /\ \A s \in Roles :
             IF s <= k THEN f[s] \in Routable(s, 1 .. (s - 1), f) ELSE f[s] = NoAgent
        /\ roleAgent' = f
        /\ roleStatus' = [s \in Roles |-> IF s <= k THEN "ASSIGNED"
                           ELSE IF s = k + 1 THEN "BLOCKED" ELSE "PENDING"]
        /\ IF k = N
           THEN /\ team' = "PLANNED"
                /\ dpc' = [dpc EXCEPT ![d] = "preparing"]
                /\ plan' = [plan EXCEPT ![d] = [agent |-> f[1], round |-> roleRound[1]]]
                /\ UNCHANGED <<status, why>>
           ELSE /\ team' = "BLOCKED"
                /\ dpc' = [dpc EXCEPT ![d] = "idle"]
                /\ UNCHANGED plan
                /\ IF status = "QUEUED" THEN MoveToWaitingMain("other")
                   ELSE UNCHANGED <<status, why>>
  BY DEF PlanTeam
<1>2. ~InProgress
  BY ChainFacts, AgentsAssumption DEF PlanTeam
<1>3. k = N => \A s \in Roles : f[s] \in Agents
  BY <1>1, RoutableType, ChainFacts DEF Roles
<1>4. TaskTypeOK'
  BY <1>1 DEF PlanTeam, MoveToWaitingMain, Transition, Status
<1>5. TeamTypeOK'
  BY <1>1 DEF PlanTeam, TeamStatus, RoleStatus
<1>6. EventTypeOK' /\ WireTypeOK'
  BY DEF PlanTeam
<1>7. FlightTypeOK'
  BY TouchedType DEF PlanTeam
<1>8. DispTypeOK'
  <2>1. CASE k = N
    <3>1. [agent |-> f[1], round |-> roleRound[1]] \in
            [agent : Agents \cup {NoAgent}, round : 0 .. MaxRound]
      BY ChainFacts
    <3>2. plan' \in [Dispatchers -> [agent : Agents \cup {NoAgent}, round : 0 .. MaxRound]]
      BY <1>1, <2>1, <3>1
    <3>3. dpc' \in [Dispatchers -> {"idle", "listed", "preparing"}]
      BY <1>1, <2>1
    <3> QED BY <3>2, <3>3 DEF PlanTeam
  <2>2. CASE k # N
    BY <1>1, <2>2 DEF PlanTeam
  <2> QED BY <2>1, <2>2
<1>9. StaffedInProgress'
  <2>1. CASE k = N
    BY <1>1, <1>3, <2>1
  <2>2. CASE k # N
    BY <1>1, <1>2, <2>2 DEF PlanTeam, MoveToWaitingMain, Transition
  <2> QED BY <2>1, <2>2
<1>10. PlansAnAgent'
  <2>1. CASE k = N
    BY <1>1, <1>3, <2>1, ChainFacts
  <2>2. CASE k # N
    BY <1>1, <2>2
  <2> QED BY <2>1, <2>2
<1>11. OutcomeDecided'
  BY SMTT(20), DecisionsKept, TouchedType DEF PlanTeam
<1> QED BY <1>4, <1>5, <1>6, <1>7, <1>8, <1>9, <1>10, <1>11

\* A stored team that is not BLOCKED is staffed.
LEMMA ReuseTeamType ==
  ASSUME TypeInv, NEW d \in Dispatchers, ReuseTeam(d)
  PROVE  TypeInv'
<1>1. Staffed
  BY DEF ReuseTeam
<1>2. TypeOK'
  BY <1>1, ChainFacts DEF ReuseTeam
<1>3. StaffedInProgress'
  BY <1>1, AgentsAssumption, ChainFacts DEF ReuseTeam
<1>4. PlansAnAgent'
  BY <1>1, ChainFacts DEF ReuseTeam
<1>5. OutcomeDecided'
  BY DecisionsKept DEF ReuseTeam
<1> QED BY <1>2, <1>3, <1>4, <1>5

\* A dispatch is sent to an agent: to the one the plan named.
LEMMA DispatchFinishType ==
  ASSUME TypeInv, NEW d \in Dispatchers, DispatchFinish(d)
  PROVE  TypeInv'
<1> DEFINE m == [kind |-> "TASK", from |-> Orchestrator, to |-> plan[d].agent,
                 seq |-> 1, round |-> plan[d].round, did |-> nDisp + 1]
<1>1. plan[d].agent \in Agents /\ plan[d].round \in 0 .. MaxRound
  BY DEF DispatchFinish
<1>2. m \in Messages
  BY <1>1, ChainFacts, BoundsAssumption DEF DispatchFinish, Messages
<1>3. TaskTypeOK'
  BY <1>1, ChainFacts DEF DispatchFinish, Transition, Status
<1>4. TeamTypeOK' /\ EventTypeOK'
  BY DEF DispatchFinish
<1>5. WireTypeOK'
  BY <1>2 DEF DispatchFinish, Publish
<1>6. FlightTypeOK'
  BY TouchedType DEF DispatchFinish
<1>7. DispTypeOK'
  BY BoundsAssumption DEF DispatchFinish, NoPlan
<1>8. StaffedInProgress'
  BY DEF DispatchFinish
<1>9. PlansAnAgent'
  BY DEF DispatchFinish
<1>10. OutcomeDecided'
  BY DecisionsKept, TouchedType DEF DispatchFinish
<1> QED BY <1>3, <1>4, <1>5, <1>6, <1>7, <1>8, <1>9, <1>10

\* A redrive replaces the agent of a staffed Role by another agent.
LEMMA RedriveType ==
  ASSUME TypeInv, NEW b \in Agents, Redrive(b)
  PROVE  TypeInv'
<1> DEFINE s == IF curSeq = 0 THEN 1 ELSE curSeq
           m == [kind |-> "TASK", from |-> Orchestrator, to |-> b, seq |-> s,
                 round |-> roleRound[s], did |-> nDisp + 1]
<1>1. s \in Roles
  BY ChainFacts DEF Roles
<1>2. m \in Messages
  BY <1>1, BoundsAssumption DEF Redrive, Messages
<1>3. /\ roleAgent' = [roleAgent EXCEPT ![s] = b]
      /\ roleStatus' = [roleStatus EXCEPT ![s] = "ASSIGNED"]
      /\ assigned' = b /\ curSeq' = s /\ Publish(m)
  BY DEF Redrive
<1> HIDE DEF s, m
<1>4. TaskTypeOK'
  BY <1>1, <1>3 DEF Redrive, Roles
<1>5. TeamTypeOK'
  BY <1>1, <1>3 DEF Redrive, RoleStatus
<1>6. EventTypeOK'
  BY DEF Redrive
<1>7. WireTypeOK'
  BY <1>2, <1>3 DEF Redrive, Publish
<1>8. FlightTypeOK'
  BY TouchedType DEF Redrive
<1>9. DispTypeOK'
  BY BoundsAssumption DEF Redrive
<1>10. StaffedInProgress'
  <2>1. Staffed /\ team # "NONE"
    BY AgentsAssumption, ChainFacts DEF Redrive, CanRedrive
  <2> QED BY <1>1, <1>3, <2>1 DEF Redrive
<1>11. PlansAnAgent'
  BY DEF Redrive
<1>12. OutcomeDecided'
  BY DecisionsKept, TouchedType DEF Redrive
<1> QED
  BY <1>4, <1>5, <1>6, <1>7, <1>8, <1>9, <1>10, <1>11, <1>12

-----------------------------------------------------------------------------
(* The invariant and what follows from it *)

\* No row is staffed, sent or decided when a Task is admitted.
LEMMA TypeInvInit ==
  Init => TypeInv
<1> SUFFICES ASSUME Init PROVE TypeInv
  OBVIOUS
<1>1. flight \in [Agents -> Flights]
  BY IdleType DEF Init
<1>2. plan \in [Dispatchers -> [agent : Agents \cup {NoAgent}, round : 0 .. MaxRound]]
  BY BoundsAssumption DEF Init, NoPlan
<1>3. TaskTypeOK
  BY ChainFacts DEF Init, Status
<1>4. TeamTypeOK
  BY BoundsAssumption DEF Init, TeamStatus, RoleStatus
<1>5. EventTypeOK /\ WireTypeOK
  BY DEF Init
<1>6. FlightTypeOK
  BY <1>1 DEF Init
<1>7. DispTypeOK
  BY <1>2, BoundsAssumption DEF Init
<1> QED BY <1>3, <1>4, <1>5, <1>6, <1>7 DEF Init, OutcomeDecided

\* Every step keeps the invariant.
LEMMA TypeInvNext ==
  TypeInv /\ [Next]_vars => TypeInv'
<1> SUFFICES ASSUME TypeInv, [Next]_vars PROVE TypeInv'
  OBVIOUS
<1>1. CASE Dispatching
  <2>1. ASSUME NEW d \in Dispatchers, DispatchStep(d) PROVE TypeInv'
    BY <2>1, PlanTeamType, ReuseTeamType, DispatchFinishType, DispatchQuietType
    DEF DispatchStep
  <2>2. "tick" \in Dispatchers
    BY DEF Dispatchers
  <2> QED
    BY <1>1, <2>1, <2>2, RedriveType, DispatchQuietType DEF Dispatching
<1>2. CASE Working
  <2>1. ASSUME NEW m \in bus, Receive(m) PROVE TypeInv'
    BY <2>1, DropsType, ClaimType DEF Receive
  <2>2. ASSUME NEW a \in Agents,
               Work(a) \/ CliReturns(a) \/ BindingRejected(a) \/ FlightThrows(a)
        PROVE  TypeInv'
    BY <2>2, FlightStepsType, QaCompletesType, ReviewToQaType, HandOffType,
       AdapterDoneType
    DEF Work, Outcome, CliReturns
  <2> QED BY <1>2, <2>1, <2>2 DEF Working
<1>3. CASE Supervising
  BY <1>3, SupervisingType
<1>4. CASE UNCHANGED vars
  BY <1>4, DecisionsKept DEF vars
<1> QED BY <1>1, <1>2, <1>3, <1>4 DEF Next

\* TypeInv holds in every reachable state.
THEOREM TypeInvariance == Spec => []TypeInv
<1> QED BY TypeInvInit, TypeInvNext, PTL DEF Spec

\* The rows, messages and calls stay well typed: in particular no dispatch, no
\* hand-off and no continuation to QA is ever addressed to nobody, and none
\* leaves the Roles of the chain or the revision rounds it is allowed.
THEOREM TypeCorrect == Spec => []TypeOK
<1> QED BY TypeInvariance, PTL DEF TypeInv


-----------------------------------------------------------------------------
\* Terminal statuses.  Three kinds of code write tasks.status: moves that
\* assertTransition guards, the completion projection, which does not ask it,
\* and the claim of a Role.
StaysTerminal == status \in Terminal => UNCHANGED status

\* No transition leaves a terminal status.
LEMMA TerminalHasNoExit ==
  ASSUME NEW st \in Terminal, NEW to, CanTransition(st, to)
  PROVE  to = st
BY DEF Terminal, CanTransition, Transitions

\* A guarded move keeps a terminal status.
LEMMA GuardedMove ==
  ASSUME NEW to, Transition(to)
  PROVE  StaysTerminal
BY TerminalHasNoExit DEF Transition, StaysTerminal

\* The projection completes Tasks under way only.
LEMMA ProjectionKeepsTerminal ==
  ASSUME NEW st \in Terminal, NEW tm, NEW v
  PROVE  Reconciled(st, tm, v) = st
BY DEF Terminal, Reconciled

\* Dispatching moves the status through assertTransition.
LEMMA DispatchingKeepsTerminal ==
  Dispatching => StaysTerminal
<1>1. TickList \/ TickSkip => StaysTerminal
  BY DEF TickList, TickSkip, taskVars, StaysTerminal
<1>2. ASSUME NEW d \in Dispatchers, DispatchStep(d)
      PROVE  StaysTerminal
  <2>1. PlanTeam(d) => StaysTerminal
    BY GuardedMove DEF PlanTeam, MoveToWaitingMain, StaysTerminal
  <2>2. ReuseTeam(d) \/ DispatchThrows(d) => StaysTerminal
    BY DEF ReuseTeam, DispatchThrows, taskVars, StaysTerminal
  <2>3. RefuseBlockedTeam(d) => StaysTerminal
    BY GuardedMove DEF RefuseBlockedTeam, MoveToWaitingMain, StaysTerminal
  <2>4. DispatchFinish(d) \/ DispatchRefused(d) => StaysTerminal
    BY GuardedMove DEF DispatchFinish, DispatchRefused, MoveToWaitingMain
  <2> QED BY <1>2, <2>1, <2>2, <2>3, <2>4 DEF DispatchStep
<1>3. ASSUME NEW b \in Agents, Redrive(b)
      PROVE  StaysTerminal
  BY <1>3 DEF Redrive, StaysTerminal
<1>4. RedriveFindsNobody => StaysTerminal
  BY GuardedMove DEF RedriveFindsNobody
<1> QED BY <1>1, <1>2, <1>3, <1>4 DEF Dispatching

\* A worker's call claims DISPATCHED and RUNNING Tasks only, and ends in the
\* projection or, over budget, in a guarded close.
LEMMA WorkingKeepsTerminal ==
  Working => StaysTerminal
<1>1. ASSUME NEW m \in bus, Receive(m)
      PROVE  StaysTerminal
  <2>1. DropDuplicate(m) \/ DropClaimed(m) \/ SupersedeComplete(m) => StaysTerminal
    BY DEF DropDuplicate, DropClaimed, SupersedeComplete, taskVars, StaysTerminal
  <2>2. ClaimRole(m) \/ ClaimRoleless(m) => StaysTerminal
    BY DEF ClaimRole, ClaimRoleless, StartFlight, Terminal, StaysTerminal
  <2> QED BY <1>1, <2>1, <2>2 DEF Receive
<1>2. ASSUME NEW a \in Agents, Work(a)
      PROVE  StaysTerminal
  <2>1. AckDone(a) \/ QaCompletesChain(a) \/ HandDone(a) => StaysTerminal
    BY DEF AckDone, QaCompletesChain, HandDone, taskVars, StaysTerminal
  <2>2. VerdictDone(a) \/ OutcomeStops(a) => StaysTerminal
    BY ProjectionKeepsTerminal
    DEF VerdictDone, OutcomeStops, ReconcileTo, StaysTerminal
  <2>3. ReviewToQa(a) \/ HandOff(a) => StaysTerminal
    BY ProjectionKeepsTerminal DEF ReviewToQa, HandOff, StaysTerminal
  <2>4. OutcomeOverBudget(a) => StaysTerminal
    BY ProjectionKeepsTerminal, TerminalHasNoExit
    DEF OutcomeOverBudget, ReconcileTo, StaysTerminal
  <2> QED BY <1>2, <2>1, <2>2, <2>3, <2>4 DEF Work, Outcome
<1>3. ASSUME NEW a \in Agents, CliReturns(a) \/ FlightThrows(a)
      PROVE  StaysTerminal
  BY <1>3 DEF CliReturns, StaleCallback, AdapterDone, FlightThrows, taskVars,
              StaysTerminal
<1>4. ASSUME NEW a \in Agents, BindingRejected(a)
      PROVE  StaysTerminal
  BY <1>4, GuardedMove DEF BindingRejected, MoveToWaitingMain
<1> QED BY <1>1, <1>2, <1>3, <1>4 DEF Working

\* The supervisors move the status through assertTransition or the projection.
LEMMA SupervisingKeepsTerminal ==
  Supervising => StaysTerminal
<1>1. Watchdog \/ ContinueFromWatchdog \/ OwnerCancel => StaysTerminal
  BY GuardedMove DEF Watchdog, ContinueFromWatchdog, OwnerCancel, MoveToWaitingMain
<1>2. OrphanLost => StaysTerminal
  BY GuardedMove DEF OrphanLost, MoveToWaitingMain, StaysTerminal
<1>3. TouchMetadata \/ BudgetExpires \/ Crash => StaysTerminal
  BY DEF TouchMetadata, BudgetExpires, Crash, taskVars, StaysTerminal
<1>4. Backfill => StaysTerminal
  BY ProjectionKeepsTerminal DEF Backfill, ReconcileTo, StaysTerminal
<1>5. ASSUME NEW a \in Agents, ProcessLost(a)
      PROVE  StaysTerminal
  BY <1>5, GuardedMove DEF ProcessLost, MoveToWaitingMain, StaysTerminal
<1> QED BY <1>1, <1>2, <1>3, <1>4, <1>5 DEF Supervising

\* No step of any actor takes a Task out of COMPLETED or CANCELLED.
THEOREM TerminalForGood == Spec => TerminalStable
<1>1. [Next]_vars => [status' # status => status \notin Terminal]_vars
  BY DispatchingKeepsTerminal, WorkingKeepsTerminal, SupervisingKeepsTerminal
  DEF Next, StaysTerminal
<1> QED BY <1>1, PTL DEF Spec, TerminalStable

-----------------------------------------------------------------------------
\* Separation of duties.  AgentRouter compares a Role with some of the others
\* only: a REVIEWER is not compared with the QA that was planned after it.  What
\* makes this enough is where the cursor can stand when a Role is moved.

\* A dispatch that may still be redriven is of the first Role or of QA.
DispatchCursor ==
  status = "DISPATCHED" => curSeq \in {0, 1} \/ RoleOf[curSeq] = "QA"

DutiesInv == TypeInv /\ SeparationOfDuties /\ DispatchCursor

\* The kinds of an earlier and a later Role of a chain.
LEMMA ChainOrder ==
  /\ \A s, t \in Roles : t < s =>
       \/ RoleOf[s] = "QA" /\ RoleOf[t] \in {"DEVELOPER", "REVIEWER"}
       \/ RoleOf[s] = "REVIEWER" /\ RoleOf[t] = "DEVELOPER"
  /\ N > 1 => RoleOf[1] = "DEVELOPER"
<1>1. CASE RoleOf = <<"DEVELOPER", "REVIEWER", "QA">>
  <2>1. N = 3 BY <1>1 DEF N
  <2>2. RoleOf[1] = "DEVELOPER" /\ RoleOf[2] = "REVIEWER" /\ RoleOf[3] = "QA"
    BY <1>1
  <2> QED BY <2>1, <2>2 DEF Roles
<1>2. CASE RoleOf = <<"DEVELOPER", "REVIEWER">>
  <2>1. N = 2 BY <1>2 DEF N
  <2>2. RoleOf[1] = "DEVELOPER" /\ RoleOf[2] = "REVIEWER"
    BY <1>2
  <2> QED BY <2>1, <2>2 DEF Roles
<1>3. CASE Len(RoleOf) = 1
  BY <1>3 DEF N, Roles
<1> QED BY <1>1, <1>2, <1>3, ChainAssumption DEF Chains

\* Planning a Role compares it with every Role before it ...
LEMMA EarlierRolesClash ==
  \A s, t \in Roles : t < s => RoleOf[t] \in Clashing(s)
BY ChainOrder DEF Clashing

\* ... and the first Role, like QA, is compared with every other.
LEMMA EndRolesClash ==
  \A s, t \in Roles :
    s # t /\ (s = 1 \/ RoleOf[s] = "QA") => RoleOf[t] \in Clashing(s)
<1> SUFFICES ASSUME NEW s \in Roles, NEW t \in Roles, s # t,
                    s = 1 \/ RoleOf[s] = "QA"
             PROVE  RoleOf[t] \in Clashing(s)
  OBVIOUS
<1>1. CASE t < s
  BY <1>1, EarlierRolesClash
<1>2. CASE s < t
  <2>1. s = 1 /\ N > 1
    BY <1>2, ChainOrder, ChainFacts DEF Roles
  <2>2. RoleOf[s] = "DEVELOPER" /\ RoleOf[t] \in {"REVIEWER", "QA"}
    BY <1>2, <2>1, ChainOrder
  <2> QED BY <2>2 DEF Clashing
<1> QED BY <1>1, <1>2, ChainFacts DEF Roles

\* The agent a Role is routed to holds none of the clashing Roles.
LEMMA RoutedApart ==
  ASSUME NEW s, NEW T, NEW ag, NEW b \in Routable(s, T, ag),
         NEW t \in T, RoleOf[t] \in Clashing(s)
  PROVE  b # ag[t] \/ ag[t] = NoAgent
BY DEF Routable, AgentsOf

\* The steps that give out no Role and dispatch nothing new.
KeepsDuties ==
  /\ UNCHANGED roleAgent
  /\ status' = "DISPATCHED" => status = "DISPATCHED" /\ curSeq' = curSeq

\* They keep the duties apart.
LEMMA DutiesKept ==
  ASSUME SeparationOfDuties, DispatchCursor, KeepsDuties
  PROVE  SeparationOfDuties' /\ DispatchCursor'
BY DEF SeparationOfDuties, DispatchCursor, KeepsDuties

\* TeamPlanner.plan: each Role is routed against those before it.
LEMMA PlanTeamDuties ==
  ASSUME DutiesInv, NEW d \in Dispatchers, PlanTeam(d)
  PROVE  SeparationOfDuties' /\ DispatchCursor'
<1>1. PICK f \in [Roles -> Agents \cup {NoAgent}], k \in 0 .. N :
        /\ \A s \in Roles :
             IF s <= k THEN f[s] \in Routable(s, 1 .. (s - 1), f) ELSE f[s] = NoAgent
        /\ roleAgent' = f
  BY DEF PlanTeam
<1>2. ASSUME NEW s \in Roles, NEW t \in Roles, t < s, f[s] # NoAgent
      PROVE  f[s] # f[t]
  <2>1. f[s] \in Routable(s, 1 .. (s - 1), f)
    BY <1>1, <1>2
  <2>2. t \in 1 .. (s - 1) /\ RoleOf[t] \in Clashing(s)
    BY <1>2, EarlierRolesClash, ChainFacts DEF Roles
  <2> QED BY <1>2, <2>1, <2>2, RoutedApart
<1>3. ASSUME NEW s \in Roles, NEW t \in Roles, s # t, f[s] # NoAgent
      PROVE  f[s] # f[t]
  <2>1. CASE t < s
    BY <1>2, <1>3, <2>1
  <2>2. CASE s < t
    BY <1>2, <1>3, <2>2
  <2> QED BY <1>3, <2>1, <2>2, ChainFacts DEF Roles
<1>4. DispatchCursor'
  BY DEF PlanTeam, MoveToWaitingMain, Transition, DutiesInv, DispatchCursor
<1> QED BY <1>1, <1>3, <1>4 DEF SeparationOfDuties

\* RuntimeDispatchRecovery: the Role that is moved is compared with every
\* other one, because the cursor stands at an end of the chain.
LEMMA RedriveDuties ==
  ASSUME DutiesInv, NEW b \in Agents, Redrive(b)
  PROVE  SeparationOfDuties' /\ DispatchCursor'
<1> DEFINE s == IF curSeq = 0 THEN 1 ELSE curSeq
<1>1. s \in Roles
  BY ChainFacts DEF DutiesInv, TypeInv, TypeOK, TaskTypeOK, Roles
<1>2. s = 1 \/ RoleOf[s] = "QA"
  BY DEF DutiesInv, DispatchCursor, Redrive, CanRedrive
<1>3. /\ b \in Routable(s, Roles \ {s}, roleAgent)
      /\ roleAgent' = [roleAgent EXCEPT ![s] = b] /\ curSeq' = s
  BY DEF Redrive
<1> HIDE DEF s
<1>4. roleAgent \in [Roles -> Agents \cup {NoAgent}]
  BY DEF DutiesInv, TypeInv, TypeOK, TeamTypeOK
<1>5. \A t \in Roles \ {s} : b # roleAgent[t]
  <2> SUFFICES ASSUME NEW t \in Roles \ {s} PROVE b # roleAgent[t]
    OBVIOUS
  <2>1. RoleOf[t] \in Clashing(s)
    BY <1>1, <1>2, EndRolesClash
  <2> QED BY <1>3, <2>1, RoutedApart, AgentsAssumption
<1>6. SeparationOfDuties'
  BY <1>1, <1>3, <1>4, <1>5 DEF DutiesInv, SeparationOfDuties
<1>7. DispatchCursor'
  BY <1>2, <1>3 DEF DispatchCursor
<1> QED BY <1>6, <1>7

\* The other steps of a dispatcher.
LEMMA DispatchDuties ==
  ASSUME DutiesInv, NEW d \in Dispatchers,
         \/ TickList \/ TickSkip \/ RedriveFindsNobody \/ ReuseTeam(d)
         \/ RefuseBlockedTeam(d) \/ DispatchFinish(d) \/ DispatchRefused(d)
         \/ DispatchThrows(d)
  PROVE  SeparationOfDuties' /\ DispatchCursor'
<1>1. DispatchFinish(d) => SeparationOfDuties' /\ DispatchCursor'
  BY DEF DispatchFinish, teamVars, DutiesInv, SeparationOfDuties, DispatchCursor
<1>2. TickList \/ TickSkip \/ ReuseTeam(d) \/ DispatchThrows(d) => KeepsDuties
  BY DEF TickList, TickSkip, ReuseTeam, DispatchThrows, KeepsDuties, taskVars, teamVars
<1>3. RedriveFindsNobody => KeepsDuties
  BY DEF RedriveFindsNobody, Transition, KeepsDuties, teamVars
<1>4. RefuseBlockedTeam(d) \/ DispatchRefused(d) => KeepsDuties
  BY DEF RefuseBlockedTeam, DispatchRefused, MoveToWaitingMain, Transition,
         KeepsDuties, teamVars
<1> QED BY <1>1, <1>2, <1>3, <1>4, DutiesKept DEF DutiesInv

\* No message moves a Role, and a claim never leaves the Task DISPATCHED.
LEMMA ReceiveDuties ==
  ASSUME DutiesInv, NEW m \in bus, Receive(m)
  PROVE  SeparationOfDuties' /\ DispatchCursor'
<1>1. DropDuplicate(m) \/ DropClaimed(m) \/ SupersedeComplete(m) => KeepsDuties
  BY DEF DropDuplicate, DropClaimed, SupersedeComplete, KeepsDuties, taskVars,
         teamVars
<1>2. ClaimRole(m) => KeepsDuties
  BY DEF ClaimRole, StartFlight, KeepsDuties
<1>3. ClaimRoleless(m) => KeepsDuties
  BY DEF ClaimRoleless, StartFlight, KeepsDuties, teamVars
<1> QED BY <1>1, <1>2, <1>3, DutiesKept DEF Receive, DutiesInv

\* Of what an agent's call does, only the continuation to QA moves the cursor
\* of a Task that may be DISPATCHED, and it moves it to QA.
LEMMA FlightDuties ==
  ASSUME DutiesInv, NEW a \in Agents,
         Work(a) \/ CliReturns(a) \/ BindingRejected(a) \/ FlightThrows(a)
  PROVE  SeparationOfDuties' /\ DispatchCursor'
<1>1. AckDone(a) \/ StaleCallback(a) \/ FlightThrows(a) \/ HandDone(a) => KeepsDuties
  BY DEF AckDone, StaleCallback, FlightThrows, HandDone, KeepsDuties, taskVars,
         teamVars
<1>2. BindingRejected(a) => KeepsDuties
  BY DEF BindingRejected, MoveToWaitingMain, Transition, KeepsDuties, teamVars
<1>3. ASSUME NEW ok \in BOOLEAN, NEW text \in {"clean", "dirty"},
             AdapterDone(a, ok, text)
      PROVE  KeepsDuties
  BY <1>3 DEF AdapterDone, KeepsDuties, taskVars
<1>4. QaCompletesChain(a) => KeepsDuties
  BY DEF QaCompletesChain, KeepsDuties, taskVars
<1>5. VerdictDone(a) => KeepsDuties
  BY DEF VerdictDone, ReconcileTo, Reconciled, KeepsDuties
<1>6. OutcomeOverBudget(a) => KeepsDuties
  BY DEF OutcomeOverBudget, ReconcileTo, Reconciled, KeepsDuties
<1>7. OutcomeStops(a) => KeepsDuties
  BY DEF OutcomeStops, ReconcileTo, Reconciled, KeepsDuties
<1>8. HandOff(a) => KeepsDuties
  BY DEF HandOff, Reconciled, KeepsDuties
<1>9. ReviewToQa(a) => SeparationOfDuties' /\ DispatchCursor'
  BY DEF ReviewToQa, ContinuesToQa, DutiesInv, SeparationOfDuties, DispatchCursor
<1> QED
  BY <1>1, <1>2, <1>3, <1>4, <1>5, <1>6, <1>7, <1>8, <1>9, DutiesKept
  DEF Work, Outcome, CliReturns, DutiesInv

\* Nothing outside the chain gives out a Role or dispatches.
LEMMA SupervisingDuties ==
  ASSUME DutiesInv, Supervising
  PROVE  SeparationOfDuties' /\ DispatchCursor'
<1>1. Watchdog \/ OrphanLost => KeepsDuties
  BY DEF Watchdog, OrphanLost, MoveToWaitingMain, Transition, KeepsDuties, teamVars
<1>2. ContinueFromWatchdog \/ OwnerCancel => KeepsDuties
  BY DEF ContinueFromWatchdog, OwnerCancel, Transition, KeepsDuties, teamVars
<1>3. TouchMetadata \/ BudgetExpires \/ Crash => KeepsDuties
  BY DEF TouchMetadata, BudgetExpires, Crash, KeepsDuties, taskVars, teamVars
<1>4. Backfill => KeepsDuties
  BY DEF Backfill, ReconcileTo, Reconciled, KeepsDuties
<1>5. ASSUME NEW a \in Agents, ProcessLost(a) PROVE KeepsDuties
  BY <1>5 DEF ProcessLost, MoveToWaitingMain, Transition, KeepsDuties, teamVars
<1> QED
  BY <1>1, <1>2, <1>3, <1>4, <1>5, DutiesKept DEF Supervising, DutiesInv

\* Every step keeps the duties apart.
LEMMA DutiesNext ==
  DutiesInv /\ [Next]_vars => DutiesInv'
<1> SUFFICES ASSUME DutiesInv, [Next]_vars PROVE DutiesInv'
  OBVIOUS
<1>1. TypeInv'
  BY TypeInvNext DEF DutiesInv
<1>2. CASE Dispatching
  <2>1. "tick" \in Dispatchers
    BY DEF Dispatchers
  <2> QED
    BY <1>1, <1>2, <2>1, PlanTeamDuties, RedriveDuties, DispatchDuties
    DEF Dispatching, DispatchStep, DutiesInv
<1>3. CASE Working
  BY <1>1, <1>3, ReceiveDuties, FlightDuties DEF Working, DutiesInv
<1>4. CASE Supervising
  BY <1>1, <1>4, SupervisingDuties DEF DutiesInv
<1>5. CASE UNCHANGED vars
  BY <1>1, <1>5 DEF vars, taskVars, teamVars, DutiesInv, SeparationOfDuties,
                    DispatchCursor
<1> QED BY <1>2, <1>3, <1>4, <1>5 DEF Next

\* An admitted Task holds no Role and is not dispatched.
LEMMA DutiesInit ==
  Init => DutiesInv
BY TypeInvInit DEF Init, DutiesInv, SeparationOfDuties, DispatchCursor

\* No agent ever holds two Roles of a Task: what TeamPlanner planned stays
\* apart through every RuntimeDispatchRecovery.
THEOREM DutiesSeparated == Spec => []SeparationOfDuties
<1>1. DutiesInv => SeparationOfDuties
  BY DEF DutiesInv
<1> QED BY DutiesInit, DutiesNext, <1>1, PTL DEF Spec

-----------------------------------------------------------------------------
\* The office's rows.  An agent is BUSY for as long as its call runs: the call
\* marks it and releases it, others only release.  Two ways out of a call skip
\* the release, a rejected binding and a stop of the process.
Released == "binding" \notin Faults /\ "crash" \notin Faults

\* A step that marks nobody and ends no call of a BUSY agent.
LEMMA BusyShrinks ==
  ASSUME BusyMeansInFlight, busy' \subseteq busy,
         \A a \in busy' : pc[a] # "idle" => pc'[a] # "idle"
  PROVE  BusyMeansInFlight'
BY DEF BusyMeansInFlight

\* Dispatching touches no agent's row and no agent's call.
LEMMA DispatchingBusy ==
  ASSUME BusyMeansInFlight, Dispatching
  PROVE  BusyMeansInFlight'
<1>1. UNCHANGED <<pc, busy>>
  BY DEF Dispatching, DispatchStep, TickList, TickSkip, PlanTeam, ReuseTeam,
         RefuseBlockedTeam, DispatchFinish, DispatchRefused, DispatchThrows,
         Redrive, RedriveFindsNobody
<1> QED BY <1>1, BusyShrinks

\* A message is dropped, or starts the call that marks the agent.
LEMMA ReceiveBusy ==
  ASSUME TypeInv, BusyMeansInFlight, NEW m \in bus, Receive(m)
  PROVE  BusyMeansInFlight'
<1>1. CASE DropDuplicate(m) \/ DropClaimed(m) \/ SupersedeComplete(m)
  BY <1>1, BusyShrinks DEF DropDuplicate, DropClaimed, SupersedeComplete
<1>2. CASE ClaimRole(m) \/ ClaimRoleless(m)
  <2>1. pc' = [pc EXCEPT ![m.to] = "acking"] /\ busy' = busy \cup {m.to}
    BY <1>2 DEF ClaimRole, ClaimRoleless, StartFlight
  <2>2. m.to \in Agents
    BY DEF Messages
  <2> QED BY <2>1, <2>2 DEF BusyMeansInFlight
<1> QED BY <1>1, <1>2 DEF Receive

\* A call goes on, or ends and releases its agent.
LEMMA CallBusy ==
  ASSUME TypeInv, BusyMeansInFlight, Released, NEW a \in Agents,
         Work(a) \/ CliReturns(a) \/ BindingRejected(a) \/ FlightThrows(a)
  PROVE  BusyMeansInFlight'
<1>1. ASSUME NEW p \in {"executing", "publishing", "verdict", "handing"},
             pc' = [pc EXCEPT ![a] = p], busy' = busy
      PROVE  BusyMeansInFlight'
  BY <1>1 DEF BusyMeansInFlight
<1>2. ASSUME pc' = [pc EXCEPT ![a] = "idle"], busy' = busy \ {a}
      PROVE  BusyMeansInFlight'
  BY <1>2 DEF BusyMeansInFlight
<1>3. CASE AckDone(a)
  BY <1>1, <1>3 DEF AckDone
<1>4. CASE QaCompletesChain(a)
  BY <1>1, <1>4 DEF QaCompletesChain
<1>5. CASE ReviewToQa(a) \/ HandOff(a)
  BY <1>1, <1>5 DEF ReviewToQa, HandOff
<1>6. CASE \E ok \in BOOLEAN, text \in {"clean", "dirty"} : AdapterDone(a, ok, text)
  BY <1>1, <1>6 DEF AdapterDone
<1>7. CASE VerdictDone(a) \/ OutcomeOverBudget(a) \/ OutcomeStops(a) \/ HandDone(a)
  BY <1>2, <1>7
  DEF VerdictDone, OutcomeOverBudget, OutcomeStops, HandDone, FinishFlight, EndFlight
<1>8. CASE StaleCallback(a) \/ FlightThrows(a)
  BY <1>2, <1>8 DEF StaleCallback, FlightThrows, EndFlight
<1>9. CASE BindingRejected(a)
  BY <1>9 DEF BindingRejected, Released
<1> QED
  BY <1>3, <1>4, <1>5, <1>6, <1>7, <1>8, <1>9 DEF Work, Outcome, CliReturns

\* The supervisors release agents and end no call, as long as the process runs.
LEMMA SupervisingBusy ==
  ASSUME BusyMeansInFlight, Released, Supervising
  PROVE  BusyMeansInFlight'
<1>1. pc' = pc /\ busy' \subseteq busy
  BY DEF Supervising, Released, Watchdog, OrphanLost, ContinueFromWatchdog,
         OwnerCancel, TouchMetadata, BudgetExpires, Backfill, Crash, ProcessLost
<1> QED BY <1>1, BusyShrinks

\* No agent is left BUSY without a call of its own, whatever fails, except
\* through a rejected binding or a stop of the process.
THEOREM NobodyLeftBusy ==
  ASSUME "binding" \notin Faults, "crash" \notin Faults
  PROVE  Spec => []BusyMeansInFlight
<1>1. Released
  BY DEF Released
<1>2. Init => BusyMeansInFlight
  BY DEF Init, BusyMeansInFlight
<1>3. TypeInv /\ BusyMeansInFlight /\ [Next]_vars => BusyMeansInFlight'
  <2> SUFFICES ASSUME TypeInv, BusyMeansInFlight, [Next]_vars
               PROVE  BusyMeansInFlight'
    OBVIOUS
  <2>1. CASE Dispatching
    BY <2>1, DispatchingBusy
  <2>2. CASE Working
    BY <1>1, <2>2, ReceiveBusy, CallBusy DEF Working
  <2>3. CASE Supervising
    BY <1>1, <2>3, SupervisingBusy
  <2>4. CASE UNCHANGED vars
    BY <2>4 DEF vars, BusyMeansInFlight
  <2> QED BY <2>1, <2>2, <2>3, <2>4 DEF Next
<1> QED BY <1>2, <1>3, TypeInvariance, PTL DEF Spec
=============================================================================

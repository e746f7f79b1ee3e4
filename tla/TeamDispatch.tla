---------------------------- MODULE TeamDispatch ----------------------------
(***************************************************************************)
(* How a team Task is started: Dispatcher.tick and .dispatchTask through   *)
(* SequentialTeamScheduler.dispatch and TeamPlanner.plan, and the redrive  *)
(* of a dispatch nobody answered.                                          *)
(***************************************************************************)
EXTENDS TeamRows

\* tick: the QUEUED list is read once; earlier Tasks in it are awaited first.
TickList ==
  /\ dpc["tick"] = "idle" /\ status = "QUEUED" /\ nDisp < MaxDispatch
  /\ dpc' = [dpc EXCEPT !["tick"] = "listed"]
  /\ UNCHANGED <<taskVars, teamVars, eventVars, wireVars, flightVars, orphan,
                 budget, plan, nDisp, stale>>

\* The call reaches this Task: tick from its list, dispatchTask from the row.
Reaches(d) ==
  \/ d = "tick" /\ dpc[d] = "listed"
  \/ d = "activation" /\ dpc[d] = "idle" /\ status = "QUEUED" /\ nDisp < MaxDispatch

TickSkip ==
  /\ dpc["tick"] = "listed" /\ ~budget
  /\ dpc' = [dpc EXCEPT !["tick"] = "idle"]
  /\ UNCHANGED <<taskVars, teamVars, eventVars, wireVars, flightVars, orphan,
                 budget, plan, nDisp, stale>>

\* TeamPlanner.plan for a Task without a team: every Role is routed in turn
\* against those before it, up to the first that nobody can take.
PlanTeam(d) ==
  /\ Reaches(d) /\ budget /\ team = "NONE"
  /\ \E f \in [Roles -> Agents \cup {NoAgent}], k \in 0 .. N :
       /\ k < N => "unroutable" \in Faults
       /\ \A s \in Roles :
            IF s <= k THEN f[s] \in Routable(s, 1 .. (s - 1), f) ELSE f[s] = NoAgent
       /\ roleAgent' = f
       /\ roleStatus' = [s \in Roles |-> IF s <= k THEN "ASSIGNED"
                           ELSE IF s = k + 1 THEN "BLOCKED" ELSE "PENDING"]
       /\ IF k = N
          THEN /\ team' = "PLANNED"
               /\ dpc' = [dpc EXCEPT ![d] = "preparing"]
               /\ plan' = [plan EXCEPT ![d] = [agent |-> f[1], round |-> roleRound[1]]]
               /\ UNCHANGED <<status, why>>
          ELSE /\ team' = "BLOCKED"
               /\ dpc' = [dpc EXCEPT ![d] = "idle"]
               /\ UNCHANGED plan
               /\ IF status = "QUEUED" THEN MoveToWaitingMain("other")
                  ELSE UNCHANGED <<status, why>>
  /\ flight' = Touched(flight)
  /\ UNCHANGED <<attempt, curSeq, assigned, roleRound, dirty, eventVars,
                 wireVars, pc, busy, orphan, budget, nDisp, stale>>

\* plan for a Task that has its team: the stored composition is used again.
ReuseTeam(d) ==
  /\ Reaches(d) /\ budget /\ team \notin {"NONE", "BLOCKED"}
  /\ dpc' = [dpc EXCEPT ![d] = "preparing"]
  /\ plan' = [plan EXCEPT ![d] = [agent |-> roleAgent[1], round |-> roleRound[1]]]
  /\ UNCHANGED <<taskVars, teamVars, eventVars, wireVars, flightVars, orphan,
                 budget, nDisp, stale>>

RefuseBlockedTeam(d) ==
  /\ Reaches(d) /\ budget /\ team = "BLOCKED"
  /\ dpc' = [dpc EXCEPT ![d] = "idle"]
  /\ IF status = "QUEUED"
     THEN MoveToWaitingMain("other") /\ flight' = Touched(flight)
     ELSE UNCHANGED <<status, why, flight>>
  /\ UNCHANGED <<attempt, curSeq, assigned, teamVars, eventVars, wireVars, pc,
                 busy, orphan, budget, plan, nDisp, stale>>

\* The workroom is bound and the preflights pass: the first Role, as read
\* before those awaits, is dispatched whatever the row says by now.
DispatchFinish(d) ==
  /\ dpc[d] = "preparing" /\ nDisp < MaxDispatch
  /\ Transition("DISPATCHED")
  /\ assigned' = plan[d].agent /\ curSeq' = 1
  /\ nDisp' = nDisp + 1 /\ answered' = "open"
  /\ Publish([kind |-> "TASK", from |-> Orchestrator, to |-> plan[d].agent,
              seq |-> 1, round |-> plan[d].round, did |-> nDisp + 1])
  /\ flight' = Touched(flight)
  /\ dpc' = [dpc EXCEPT ![d] = "idle"] /\ plan' = [plan EXCEPT ![d] = NoPlan]
  /\ UNCHANGED <<attempt, why, teamVars, verdict, qaSent, seen, pc, busy,
                 orphan, budget, stale>>

\* A preflight fails, or the workroom is missing.
DispatchRefused(d) ==
  /\ "refuse" \in Faults /\ dpc[d] = "preparing"
  /\ MoveToWaitingMain("other") /\ flight' = Touched(flight)
  /\ dpc' = [dpc EXCEPT ![d] = "idle"] /\ plan' = [plan EXCEPT ![d] = NoPlan]
  /\ UNCHANGED <<attempt, curSeq, assigned, teamVars, eventVars, wireVars, pc,
                 busy, orphan, budget, nDisp, stale>>

\* assertTransition throws, or an await of the preparation rejects.
DispatchThrows(d) ==
  /\ dpc[d] = "preparing"
  /\ "refuse" \in Faults \/ ~CanTransition(status, "DISPATCHED")
  /\ dpc' = [dpc EXCEPT ![d] = "idle"] /\ plan' = [plan EXCEPT ![d] = NoPlan]
  /\ UNCHANGED <<taskVars, teamVars, eventVars, wireVars, flightVars, orphan,
                 budget, nDisp, stale>>

\* RuntimeDispatchRecovery.recover -> Dispatcher.redriveTask -> teams.redrive:
\* QUEUED and back without an await between them.
CanRedrive ==
  /\ "redrive" \in Faults /\ status = "DISPATCHED" /\ assigned # NoAgent
  /\ NoRunningRow /\ answered = "open"

Redrive(b) ==
  /\ CanRedrive /\ nDisp < MaxDispatch
  /\ LET s == IF curSeq = 0 THEN 1 ELSE curSeq IN
       /\ b \in Routable(s, Roles \ {s}, roleAgent)
       /\ roleAgent' = [roleAgent EXCEPT ![s] = b] 
       /\ roleStatus' = [roleStatus EXCEPT ![s] = "ASSIGNED"]
       /\ assigned' = b /\ curSeq' = s
       /\ Publish([kind |-> "TASK", from |-> Orchestrator, to |-> b, seq |-> s,
                   round |-> roleRound[s], did |-> nDisp + 1])
  /\ nDisp' = nDisp + 1 /\ flight' = Touched(flight)
  /\ UNCHANGED <<status, attempt, why, team, roleRound, dirty, eventVars, seen,
                 pc, busy, orphan, budget, dpc, plan, stale>>

RedriveFindsNobody ==
  /\ CanRedrive /\ "unroutable" \in Faults
  /\ Transition("QUEUED") /\ flight' = Touched(flight)
  /\ UNCHANGED <<attempt, curSeq, assigned, why, teamVars, eventVars, wireVars,
                 pc, busy, orphan, budget, dispVars, stale>>

-----------------------------------------------------------------------------
DispatchStep(d) ==
  \/ PlanTeam(d) \/ ReuseTeam(d) \/ RefuseBlockedTeam(d)
  \/ DispatchFinish(d) \/ DispatchRefused(d) \/ DispatchThrows(d)

Dispatching ==
  \/ TickList \/ TickSkip
  \/ \E d \in Dispatchers : DispatchStep(d)
  \/ \E b \in Agents : Redrive(b)
  \/ RedriveFindsNobody
=============================================================================

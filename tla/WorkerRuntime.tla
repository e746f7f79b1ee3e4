--------------------------- MODULE WorkerRuntime ----------------------------
(***************************************************************************)
(* What an agent does with a message: MultiBotGateway.onMessage and        *)
(* InboundGuard in front of WorkerRuntime.receive, the CLI execution, the  *)
(* fence its result passes, and emitOutcome, which hands the work on.      *)
(***************************************************************************)
EXTENDS TeamRows

-----------------------------------------------------------------------------
(* Delivery: MultiBotGateway.onMessage and the entry of                    *)
(* WorkerRuntime.receive, up to the ACK publication                        *)

\* InboundGuard: a logical key is live unless the Task needs recovery.
DurableRecovery ==
  status = "WAITING_MAIN" \/ \E s \in Roles : roleStatus[s] = "BLOCKED"
Duplicate(m) == m \in seen /\ ~DurableRecovery

DropDuplicate(m) ==
  /\ m \in bus /\ Duplicate(m)
  /\ bus' = bus \ {m}
  /\ UNCHANGED <<taskVars, teamVars, eventVars, seen, flightVars, orphan,
                 budget, dispVars, stale>>

HoldsRole(a, s) == roleAgent[s] = a
HoldsNoRole(a) == \A s \in Roles : roleAgent[s] # a

\* WorkerContract.claimRole: the addressed Role is this agent's, at this round.
ClaimsRole(m) == HoldsRole(m.to, m.seq) /\ m.round = roleRound[m.seq]
\* ... or the agent holds no Role here and the Task row does not refuse it.
ClaimsTask(m) ==
  HoldsNoRole(m.to) /\ assigned \in {m.to, NoAgent} /\ m.round = attempt

\* InboundGuard.claim inserts the row; then the budget, the in-flight set or
\* the Role claim turns the message away, and the row stays RECEIVED.
DropClaimed(m) ==
  /\ m \in bus /\ ~Duplicate(m)
  /\ ~budget \/ pc[m.to] # "idle" \/ (~ClaimsRole(m) /\ ~ClaimsTask(m))
  /\ bus' = bus \ {m} /\ seen' = seen \cup {m}
  /\ UNCHANGED <<taskVars, teamVars, eventVars, flightVars, orphan, budget,
                 dispVars, stale>>

Accepted(m) == m \in bus /\ ~Duplicate(m) /\ budget /\ pc[m.to] = "idle"

\* A Role that already passed is not run again: the row is SUPERSEDED.
SupersedeComplete(m) ==
  /\ Accepted(m) /\ ClaimsRole(m) /\ roleStatus[m.seq] = "PASS"
  /\ bus' = bus \ {m} /\ seen' = seen \ {m}
  /\ UNCHANGED <<taskVars, teamVars, eventVars, flightVars, orphan, budget,
                 dispVars, stale>>

\* The receive of m starts for Task Role s (0: none): DISPATCHED goes through
\* CLAIMED to RUNNING, RUNNING stays, any other status is left as it is.
StartFlight(m, s) ==
  LET starts == status \in {"DISPATCHED", "RUNNING"}
      att == IF starts THEN attempt + 1 ELSE attempt IN
    /\ status' = IF starts THEN "RUNNING" ELSE status
    /\ attempt' = att
    /\ pc' = [pc EXCEPT ![m.to] = "acking"]
    /\ flight' = [Touched(flight) EXCEPT ![m.to] =
                    [Idle(m.to) EXCEPT !.msg = m, !.seq = s, !.attempt = att]]
    /\ busy' = busy \cup {m.to}
    /\ bus' = bus \ {m} /\ seen' = seen \cup {m}
    /\ answered' = IF answered = "open" THEN "answered" ELSE answered

ClaimRoleAgain(m) ==
  /\ Accepted(m) /\ ClaimsRole(m)
  /\ StartFlight(m, m.seq)
  /\ roleStatus' = [roleStatus EXCEPT ![m.seq] = "ACTIVE"] /\ team' = "ACTIVE"
  /\ curSeq' = m.seq /\ assigned' = m.to
  /\ UNCHANGED <<why, roleAgent, roleRound, dirty, verdict, qaSent, orphan,
                 budget, dispVars, stale>>

ClaimRole(m) ==
  /\ Accepted(m) /\ ClaimsRole(m) /\ roleStatus[m.seq] # "PASS"
  /\ StartFlight(m, m.seq)
  /\ roleStatus' = [roleStatus EXCEPT ![m.seq] = "ACTIVE"] /\ team' = "ACTIVE"
  /\ curSeq' = m.seq /\ assigned' = m.to
  /\ UNCHANGED <<why, roleAgent, roleRound, dirty, verdict, qaSent, orphan,
                 budget, dispVars, stale>>

ClaimRoleless(m) ==
  /\ Accepted(m) /\ ClaimsTask(m)
  /\ StartFlight(m, curSeq)
  /\ assigned' = IF status \in {"DISPATCHED", "RUNNING"} THEN m.to ELSE assigned
  /\ UNCHANGED <<why, curSeq, teamVars, verdict, qaSent, orphan, budget,
                 dispVars, stale>>

-----------------------------------------------------------------------------
(* Execution: from the ACK to the adapter's result and its fence           *)

\* The ACK is published; the fence's version is read and the CLI starts.
AckDone(a) ==
  /\ pc[a] = "acking"
  /\ pc' = [pc EXCEPT ![a] = "executing"]
  /\ UNCHANGED <<taskVars, teamVars, eventVars, wireVars, flight, busy, orphan,
                 budget, dispVars, stale>>

\* The receive of a returns; f is flight, Touched when the row was written.
EndFlight(a, f) ==
  pc' = [pc EXCEPT ![a] = "idle"] /\ flight' = [f EXCEPT ![a] = Idle(a)]

\* The workspace no longer is the one bound at dispatch: the message is
\* processed and the call returns, leaving the agent's row BUSY.
BindingRejected(a) ==
  /\ "binding" \in Faults /\ pc[a] = "acking"
  /\ MoveToWaitingMain("other") /\ EndFlight(a, Touched(flight))
  /\ seen' = seen \cup {flight[a].msg}
  /\ UNCHANGED <<attempt, curSeq, assigned, teamVars, eventVars, bus, busy,
                 orphan, budget, dispVars, stale>>

CurrentUnlessClosed(a) == status \notin {"PASS", "FAIL", "CANCELLED"}

\* The fence every adapter result passes before it may change anything.
Current(a) ==
  LET f == flight[a] IN
    /\ status \notin {"PASS", "FAIL", "CANCELLED"}
    /\ attempt = f.attempt /\ assigned = a /\ ~f.touched
    /\ f.seq # 0 => roleRound[f.seq] = f.msg.round /\ HoldsRole(a, f.seq)

\* A stale result is dropped and its row SUPERSEDED, unless a second copy of
\* the same logical key was claimed meanwhile and keeps the key live.
StaleCallback(a) ==
  /\ pc[a] = "executing" /\ ~Current(a)
  /\ seen' \in {seen, seen \ {flight[a].msg}}
  /\ EndFlight(a, flight) /\ busy' = busy \ {a}
  /\ UNCHANGED <<taskVars, teamVars, eventVars, bus, orphan, budget, dispVars,
                 stale>>

NextAgent(s) == IF s < N THEN roleAgent[s + 1] ELSE NoAgent
PreviousAgentOffByOne(s) ==
  IF s > 2 /\ Implements(s - 1) THEN roleAgent[s - 1] ELSE NoAgent

\* The implementing Role a review of Role s sends its findings back to.
PreviousAgent(s) ==
  IF s > 1 /\ Implements(s - 1) THEN roleAgent[s - 1] ELSE NoAgent

\* emitOutcome up to the RESULT publication: the hand-off target is read from
\* the rows, the Role is finished, the RESULT event committed.
AdapterDone(a, ok, text) ==
  LET f == flight[a]
      s == f.msg.seq
      own == HoldsRole(a, s)
      passes == own /\ ok /\ roleStatus[s] # "PASS" IN
    /\ pc[a] = "executing" /\ Current(a)
    /\ ~ok /\ RoleOf[s] = "REVIEWER" => f.msg.round < MaxRound
    /\ text = "dirty" => ok /\ "dirty" \in Faults /\ ~Implements(s)
    /\ roleStatus' = IF own /\ roleStatus[s] # "PASS"
                     THEN [roleStatus EXCEPT ![s] = IF ok THEN "PASS" ELSE "FAIL"]
                     ELSE roleStatus
    /\ dirty' = IF passes /\ text = "dirty" THEN dirty \cup {s}
                ELSE IF passes THEN dirty \ {s} ELSE dirty
    /\ stale' = IF passes
                THEN (stale \ {s}) \cup {t \in Roles : t > s}
                     \cup (IF f.based THEN {} ELSE {s})
                ELSE stale
    /\ flight' = [x \in Agents |->
         IF x = a
         THEN [f EXCEPT !.ok = ok, !.seq = IF own THEN s ELSE 0,
                        !.target = IF ~own THEN NoAgent
                                   ELSE IF RoleOf[s] = "REVIEWER" THEN PreviousAgent(s)
                                   ELSE NextAgent(s)]
         ELSE IF passes /\ pc[x] # "idle" /\ flight[x].msg.seq > s
              THEN [flight[x] EXCEPT !.based = FALSE] ELSE flight[x]]
    /\ answered' = IF answered = "open" /\ Implements(s) THEN "answered" ELSE answered
    /\ pc' = [pc EXCEPT ![a] = "publishing"]
    /\ UNCHANGED <<taskVars, team, roleAgent, roleRound, verdict, qaSent,
                   wireVars, busy, orphan, budget, dispVars>>

\* A publication, the adapter or assertTransition throws: the agent is
\* released, the message row stays RECEIVED and nothing else is undone.
FlightThrows(a) ==
  /\ \/ "throw" \in Faults /\ pc[a] # "idle"
     \/ /\ "binding" \in Faults /\ pc[a] = "acking"
        /\ ~CanTransition(status, "WAITING_MAIN")
  /\ EndFlight(a, flight) /\ busy' = busy \ {a}
  /\ UNCHANGED <<taskVars, teamVars, eventVars, wireVars, orphan, budget,
                 dispVars, stale>>

-----------------------------------------------------------------------------
(* Outcome: emitOutcome after the RESULT publication                       *)

SeqOf(a) == flight[a].msg.seq
Role(a) == RoleOf[SeqOf(a)]
Ok(a) == flight[a].ok

FinishFlightUnreleased(a, f) ==
  EndFlight(a, f) /\ busy' = busy /\ seen' = seen \cup {flight[a].msg}

\* contract.complete and agents.release after emitOutcome returned.
FinishFlight(a, f) ==
  /\ EndFlight(a, f) /\ busy' = busy \ {a}
  /\ seen' = seen \cup {flight[a].msg}

\* A passing QA ends the chain: the team is COMPLETE and the VERDICT durable
\* before anything else is asked.
QaCompletesChain(a) ==
  /\ pc[a] = "publishing" /\ Role(a) = "QA" /\ Ok(a)
  /\ team' = "COMPLETE" /\ verdict' = TRUE
  /\ pc' = [pc EXCEPT ![a] = "verdict"]
  /\ UNCHANGED <<taskVars, roleStatus, roleAgent, roleRound, dirty, answered,
                 qaSent, wireVars, flight, busy, orphan, budget, dispVars, stale>>

VerdictDone(a) ==
  LET st == Reconciled(status, team, verdict) IN
    /\ pc[a] = "verdict"
    /\ ReconcileTo(st)
    /\ FinishFlight(a, IF Rewrites(st) THEN Touched(flight) ELSE flight)
    /\ UNCHANGED <<attempt, curSeq, assigned, roleStatus, roleAgent, roleRound,
                   dirty, eventVars, bus, orphan, budget, dispVars, stale>>

Published(a) == pc[a] = "publishing" /\ ~(Role(a) = "QA" /\ Ok(a))

\* The budget closed meanwhile: no follow-up starts, but a failing result
\* closes the Task.
OutcomeOverBudget(a) ==
  LET st == Reconciled(status, team, verdict)
      close == IF st \in {"RUNNING", "WAITING_RESULT", "REVIEWING"}
               THEN "FAIL" ELSE "CANCELLED"
      to == IF ~Ok(a) /\ st \notin {"PASS", "FAIL", "CANCELLED"}
               /\ CanTransition(st, close) THEN close ELSE st IN
    /\ Published(a) /\ ~budget
    /\ ReconcileTo(to)
    /\ FinishFlight(a, IF Rewrites(to) THEN Touched(flight) ELSE flight)
    /\ UNCHANGED <<attempt, curSeq, assigned, roleStatus, roleAgent, roleRound,
                   dirty, eventVars, bus, orphan, budget, dispVars, stale>>

\* A passing review continues to QA: the QA Role is there, waiting, was not
\* sent a TASK at its round, and its agent did none of the work.
ContinuesToQa(a, q) ==
  /\ Role(a) = "REVIEWER" /\ Ok(a)
  /\ flight[a].seq # 0 => flight[a].msg.round = roleRound[flight[a].seq]
  /\ flight[a].seq # 0 /\ q = flight[a].seq + 1 /\ q \in Roles
  /\ RoleOf[q] = "QA" /\ roleStatus[q] \in {"ASSIGNED", "PENDING"}
  /\ roleAgent[q] # NoAgent
  /\ <<roleAgent[q], roleRound[q]>> \notin qaSent
  /\ roleAgent[q] \notin AgentsOf(Roles \ {q}, roleAgent)

ReviewToQa(a) ==
  LET st == Reconciled(status, team, verdict) IN
    /\ Published(a) /\ budget
    /\ \E q \in Roles :
         /\ ContinuesToQa(a, q)
         /\ curSeq' = q /\ assigned' = roleAgent[q]
         /\ roleStatus' = [roleStatus EXCEPT ![q] = "ACTIVE"]
         /\ qaSent' = qaSent \cup {<<roleAgent[q], roleRound[q]>>}
         /\ Publish([kind |-> "TASK", from |-> Orchestrator, to |-> roleAgent[q],
                     seq |-> q, round |-> roleRound[q], did |-> 0])
    /\ team' = "ACTIVE" /\ answered' = "open"
    /\ status' = st /\ why' = IF st = status THEN why ELSE "other"
    /\ pc' = [pc EXCEPT ![a] = "handing"] /\ flight' = Touched(flight)
    /\ UNCHANGED <<attempt, roleAgent, roleRound, dirty, verdict, seen, busy,
                   orphan, budget, dispVars, stale>>

HandsOnAnyway(a) == Implements(SeqOf(a))

\* decideHandoff: an implementing Role that passed hands on at its own round,
\* a review that failed sends the work back one round later.
HandsOn(a) == Implements(SeqOf(a)) /\ Ok(a)
SendsBack(a) == Role(a) = "REVIEWER" /\ ~Ok(a)

\* The target Role is reopened at the round of the message it is sent.
HandOff(a) ==
  LET f == flight[a]
      t == IF HandsOn(a) THEN SeqOf(a) + 1 ELSE SeqOf(a) - 1
      r == IF HandsOn(a) THEN f.msg.round ELSE f.msg.round + 1
      st == Reconciled(status, team, verdict) IN
    /\ Published(a) /\ budget
    /\ HandsOn(a) \/ SendsBack(a)
    /\ f.target # NoAgent
    /\ roleStatus' = [roleStatus EXCEPT ![t] = "ACTIVE"]
    /\ roleRound' = [roleRound EXCEPT ![t] = r]
    /\ team' = "ACTIVE"
    /\ Publish([kind |-> IF HandsOn(a) THEN "HANDOFF" ELSE "REVISION_REQUEST",
                from |-> a, to |-> f.target, seq |-> t, round |-> r, did |-> 0])
    /\ status' = st /\ why' = IF st = status THEN why ELSE "other"
    /\ pc' = [pc EXCEPT ![a] = "handing"]
    /\ flight' = IF Rewrites(st) THEN Touched(flight) ELSE flight
    /\ UNCHANGED <<attempt, curSeq, assigned, roleAgent, dirty, eventVars, seen,
                   busy, orphan, budget, dispVars, stale>>

\* No follow-up: a failed implementation or QA, a review that is the end of
\* its chain or whose continuation is suppressed.
OutcomeStops(a) ==
  LET st == Reconciled(status, team, verdict) IN
    /\ Published(a) /\ budget
    /\ \A q \in Roles : ~ContinuesToQa(a, q)
    /\ flight[a].target = NoAgent \/ ~(HandsOn(a) \/ SendsBack(a))
    /\ ReconcileTo(st)
    /\ FinishFlight(a, IF Rewrites(st) THEN Touched(flight) ELSE flight)
    /\ UNCHANGED <<attempt, curSeq, assigned, roleStatus, roleAgent, roleRound,
                   dirty, eventVars, bus, orphan, budget, dispVars, stale>>

\* The hand-off message is published.
HandDone(a) ==
  /\ pc[a] = "handing" /\ FinishFlight(a, flight)
  /\ UNCHANGED <<taskVars, teamVars, eventVars, bus, orphan, budget, dispVars,
                 stale>>


-----------------------------------------------------------------------------
Receive(m) ==
  \/ DropDuplicate(m) \/ DropClaimed(m) \/ SupersedeComplete(m)
  \/ ClaimRole(m) \/ ClaimRoleless(m)

Outcome(a) ==
  \/ QaCompletesChain(a) \/ VerdictDone(a) \/ OutcomeOverBudget(a)
  \/ ReviewToQa(a) \/ HandOff(a) \/ OutcomeStops(a) \/ HandDone(a)

\* The CLI of a returns: its result passes the fence or is dropped.
CliReturns(a) ==
  \/ StaleCallback(a)
  \/ \E ok \in BOOLEAN, text \in {"clean", "dirty"} : AdapterDone(a, ok, text)

Work(a) == AckDone(a) \/ Outcome(a)

Working ==
  \/ \E m \in bus : Receive(m)
  \/ \E a \in Agents :
       Work(a) \/ CliReturns(a) \/ BindingRejected(a) \/ FlightThrows(a)
=============================================================================

---------------------------- MODULE Supervision -----------------------------
(***************************************************************************)
(* What happens to a Task from outside its chain: the watchdog, recovery   *)
(* of lost processes, the owner's commands, the run budget, the completion *)
(* backfill and a restart of the process.                                  *)
(***************************************************************************)
EXTENDS TeamRows

SilentWithoutProcess == NoRunningRow /\ \A a \in Agents : pc[a] # "acking"

\* Watchdog.check looks at the process row while there is one and at the Task
\* row otherwise; a flight that waits for its ACK has just written the latter.
Silent == ~NoRunningRow \/ \A a \in Agents : pc[a] # "acking"

Watchdog ==
  /\ "watchdog" \in Faults /\ status \in {"CLAIMED", "RUNNING"} /\ Silent
  /\ MoveToWaitingMain("watchdog") /\ busy' = busy \ {assigned}
  /\ flight' = Touched(flight)
  /\ UNCHANGED <<attempt, curSeq, assigned, teamVars, eventVars, wireVars, pc,
                 orphan, budget, dispVars, stale>>

\* Recovery.reconcile finds the process of a RUNNING row dead: a's, or one of
\* an earlier run.
ProcessLost(a) ==
  /\ "lost_process" \in Faults /\ RunningRow(a)
  /\ LET f == [flight EXCEPT ![a].lost = TRUE] IN
       IF status \in {"CLAIMED", "RUNNING"}
       THEN /\ MoveToWaitingMain("other") /\ busy' = busy \ {assigned}
            /\ flight' = Touched(f)
       ELSE UNCHANGED <<status, why, busy>> /\ flight' = f
  /\ UNCHANGED <<attempt, curSeq, assigned, teamVars, eventVars, wireVars, pc,
                 orphan, budget, dispVars, stale>>

OrphanLost ==
  /\ orphan /\ orphan' = FALSE
  /\ IF status \in {"CLAIMED", "RUNNING"}
     THEN /\ MoveToWaitingMain("other") /\ busy' = busy \ {assigned}
          /\ flight' = Touched(flight)
     ELSE UNCHANGED <<status, why, busy, flight>>
  /\ UNCHANGED <<attempt, curSeq, assigned, teamVars, eventVars, wireVars, pc,
                 budget, dispVars, stale>>

\* TaskRepository.continueFromWatchdog: only a watchdog stop is requeued.
ContinueFromWatchdog ==
  /\ "continue" \in Faults /\ status = "WAITING_MAIN" /\ why = "watchdog"
  /\ NoRunningRow /\ nDisp < MaxDispatch
  /\ Transition("QUEUED") /\ flight' = Touched(flight)
  /\ UNCHANGED <<attempt, curSeq, assigned, why, teamVars, eventVars, wireVars,
                 pc, busy, orphan, budget, dispVars, stale>>

\* The owner's task-cancel.
OwnerCancel ==
  /\ "cancel" \in Faults /\ status # "CANCELLED"
  /\ Transition("CANCELLED") /\ flight' = Touched(flight)
  /\ UNCHANGED <<attempt, curSeq, assigned, why, teamVars, eventVars, wireVars,
                 pc, busy, orphan, budget, dispVars, stale>>

\* bindThread, setAuthority, setComplexity: columns not modelled, updated_at is.
TouchMetadata ==
  /\ "touch" \in Faults /\ flight' = Touched(flight) /\ flight' # flight
  /\ UNCHANGED <<taskVars, teamVars, eventVars, wireVars, pc, busy, orphan,
                 budget, dispVars, stale>>

\* RunBudgetController.expire: EXHAUSTED, its processes terminated.  Only an
\* operator's rearm starts another run; none does here.
BudgetExpires ==
  /\ "budget" \in Faults /\ budget /\ budget' = FALSE
  /\ flight' = [x \in Agents |-> IF pc[x] = "executing"
                  THEN [flight[x] EXCEPT !.lost = TRUE] ELSE flight[x]]
  /\ orphan' = FALSE
  /\ UNCHANGED <<taskVars, teamVars, eventVars, wireVars, pc, busy, dispVars,
                 stale>>

\* TaskCompletionProjection.backfill, at start and by SelfHealingLoop.
Backfill ==
  LET st == Reconciled(status, team, verdict) IN
    /\ status \notin {"COMPLETED", "FAIL", "CANCELLED"}
    /\ team = "COMPLETE" \/ verdict
    /\ st # status \/ ReconciledTeam(status, team, verdict) # team
    /\ ReconcileTo(st)
    /\ flight' = Touched(flight)
    /\ UNCHANGED <<attempt, curSeq, assigned, roleStatus, roleAgent, roleRound,
                   dirty, eventVars, wireVars, pc, busy, orphan, budget,
                   dispVars, stale>>

\* The process stops and starts again: rows stay, calls and messages in flight
\* are gone, and a CLI that was running leaves its RUNNING row behind.
Crash ==
  /\ "crash" \in Faults
  /\ pc' = [a \in Agents |-> "idle"] /\ flight' = [a \in Agents |-> Idle(a)]
  /\ orphan' = ~NoRunningRow
  /\ bus' = {}
  /\ dpc' = [d \in Dispatchers |-> "idle"]
  /\ plan' = [d \in Dispatchers |-> NoPlan]
  /\ UNCHANGED <<taskVars, teamVars, eventVars, seen, busy, budget, nDisp, stale>>


-----------------------------------------------------------------------------
Supervising ==
  \/ Watchdog \/ OrphanLost \/ ContinueFromWatchdog \/ OwnerCancel
  \/ TouchMetadata \/ BudgetExpires \/ Backfill \/ Crash
  \/ \E a \in Agents : ProcessLost(a)
=============================================================================

------------------------ MODULE ContinuationWatchdog ------------------------
(***************************************************************************)
(* ScopedContinuationWatchdog on one watched Task: self-healing starts a   *)
(* run of it every minute, whether or not an earlier one has come back     *)
(* from its awaits, and a run that finds the Role stalled redispatches it  *)
(* under a lease with a bound on the retries.  A turn is a Role at one     *)
(* revision round, the key of continuation_recovery_state; the Task goes   *)
(* through Turns of them.  The Worker is kept as what the watchdog can see *)
(* of it: the message, the newest process of the current attempt, its      *)
(* result.  Ages are kept as whether the deadline that counts is over.     *)
(***************************************************************************)
EXTENDS Naturals, FiniteSets

CONSTANTS
  Runs,           \* calls of runOnce that may overlap
  Agents,         \* Workers
  Roles,          \* the chain: which Worker the plan gave each sequence
  Turns,          \* how many turns the Task takes
  SequenceOf,     \* the Role of each turn
  Reviews,        \* the turns whose failure asks for a revision
  MaxRecoveries,  \* watch.max_recoveries
  Faults          \* what may go wrong: "crash", "throw", "loss", "owner", "touch"

ASSUME ContinuationAssumption ==
  /\ Turns \in Nat \ {0} /\ MaxRecoveries \in Nat \ {0}
  /\ Reviews \subseteq 1 .. Turns - 1
  /\ SequenceOf \in [1 .. Turns + 1 -> DOMAIN Roles]
  /\ Roles \in [DOMAIN Roles -> Agents]

VARIABLES
  status,   \* tasks.status
  turn,     \* the turn snapshot picks: the first whose Role has not passed
  cursor,   \* the turn task_teams.current_sequence stands at
  holder,   \* assigned_agent of each sequence
  message,  \* the newest message of the turn, and the call it started
  proc,     \* newest process of agent and attempt, with the result it left
  handing,  \* the turn a recorded result is still to be handed on to, or 0
  overdue,  \* the deadline of what the Role is waiting for is over
  watched,  \* continuation_watches.enabled
  lease,    \* continuation_recovery_state of each turn
  tried,    \* routing_decisions: Workers ever selected for each sequence
  pc,       \* where each run stands: "idle", "healing", "emitting"
  snap,     \* the snapshot a run that is not idle works with
  sent,     \* history: the dispatch ids emitted, as <<turn, retry>>
  broken    \* history: turns whose lease was freed under a run at work on them

taskVars == <<status, turn, cursor, holder>>
workVars == <<message, proc, handing, overdue>>
runVars  == <<pc, snap>>
vars == <<taskVars, workVars, watched, lease, tried, runVars, sent, broken>>

Terminal == {"PASS", "FAIL", "CANCELLED"}
Statuses == {"DISPATCHED", "RUNNING", "WAITING_MAIN"} \cup Terminal
Procs == {"none", "alive", "dead", "lost", "exited", "failed"}

Seq(t) == SequenceOf[t]
\* All that a run uses of its snapshot once it emits.
OfTurn(t) == [turn |-> t, same |-> FALSE, fresh |-> FALSE]
NoSnap == OfTurn(1)
NewLease == [retries |-> 0, wake |-> FALSE, asked |-> 0, waited |-> 0]

TypeOK ==
  /\ status \in Statuses
  /\ turn \in 1 .. Turns + 1 /\ cursor \in 1 .. Turns + 1
  /\ holder \in [DOMAIN Roles -> Agents]
  /\ message \in {"none", "sent", "received", "claimed", "superseded", "left"}
  /\ proc \in Procs /\ handing \in 0 .. Turns
  /\ overdue \in BOOLEAN /\ watched \in BOOLEAN
  /\ lease \in [1 .. Turns -> [retries : 0 .. MaxRecoveries, wake : BOOLEAN,
                               asked : 0 .. 2, waited : 0 .. 2]]
  /\ tried \in [DOMAIN Roles -> SUBSET Agents]
  /\ pc \in [Runs -> {"idle", "healing", "emitting"}]
  /\ snap \in [Runs -> [turn : 1 .. Turns, same : BOOLEAN, fresh : BOOLEAN]]
  /\ sent \subseteq (1 .. Turns) \X (0 .. MaxRecoveries) /\ broken \subseteq 1 .. Turns

\* The first Role is dispatched and the Task put under watch.
Init ==
  /\ status = "DISPATCHED" /\ turn = 1 /\ cursor = 1 /\ holder = Roles
  /\ message = "sent" /\ proc = "none" /\ handing = 0 /\ overdue = FALSE
  /\ watched = TRUE /\ lease = [t \in 1 .. Turns |-> NewLease]
  /\ tried = [s \in DOMAIN Roles |-> {Roles[s]}]
  /\ pc = [r \in Runs |-> "idle"] /\ snap = [r \in Runs |-> NoSnap]
  /\ sent = {} /\ broken = {}

\* tasks.updated_at moves: no snapshot in use is current any more.
Touched == [r \in Runs |-> [snap[r] EXCEPT !.fresh = FALSE]]

-----------------------------------------------------------------------------
(* The Worker, the owner and the clock                                     *)

\* Rows of inbound_messages that are RECEIVED; nobody works on one a crash left.
Received == message \in {"received", "claimed", "left"}
Active == status \notin Terminal /\ turn <= Turns

\* What none of the actions of this section writes but Crash and the clock.
Apart == UNCHANGED <<watched, lease, tried, sent, broken>>

Arrives ==
  /\ message = "sent" /\ message' = "received" /\ overdue' = FALSE
  /\ Apart /\ UNCHANGED <<taskVars, proc, handing, runVars>>

Lost ==
  /\ "loss" \in Faults /\ message = "sent" /\ message' = "none"
  /\ Apart /\ UNCHANGED <<taskVars, proc, handing, overdue, runVars>>

\* receive claims the Role, with a new attempt unless the Task waits for MAIN.
Claim ==
  /\ Active /\ message = "received" /\ proc # "alive" /\ cursor = turn
  /\ IF status = "WAITING_MAIN" THEN UNCHANGED <<status, proc>>
     ELSE status' = "RUNNING" /\ proc' = "none"
  /\ message' = "claimed" /\ overdue' = FALSE /\ snap' = Touched
  /\ Apart /\ UNCHANGED <<turn, cursor, holder, handing, pc>>

\* The CLI starts, which writes no row of the Task.
Spawn ==
  /\ Active /\ message \in {"claimed", "superseded"}
  /\ proc' = "alive" /\ message' = "none" /\ overdue' = FALSE
  /\ Apart /\ UNCHANGED <<taskVars, handing, runVars>>

Heartbeat ==
  /\ proc = "alive" /\ overdue /\ overdue' = FALSE
  /\ Apart /\ UNCHANGED <<taskVars, message, proc, handing, runVars>>

\* The CLI returns a result the fence accepts.  A pass moves the chain on at
\* once, the cursor and the message follow with the hand-off; a failing review
\* keeps its turn until the revision is handed on.
Passes ==
  /\ Active /\ proc = "alive" /\ proc' = "none"
  /\ turn' = turn + 1 /\ overdue' = FALSE
  /\ IF turn = Turns
     THEN status' = "PASS" /\ handing' = 0 /\ snap' = Touched
     ELSE status' = status /\ handing' = turn + 1 /\ snap' = snap
  /\ Apart /\ UNCHANGED <<cursor, holder, message, pc>>
Fails ==
  /\ Active /\ proc = "alive" /\ proc' = "failed" /\ overdue' = FALSE
  /\ handing' = IF turn \in Reviews THEN turn + 1 ELSE 0
  /\ Apart /\ UNCHANGED <<taskVars, message, runVars>>

\* emitOutcome comes back from publishing the result: teams.reopen and the
\* message to the next Role, unless a replay of the hand-off came before it.
\* Only the continuation to QA writes the tasks row.
HandOn ==
  /\ Active /\ handing # 0 /\ handing' = 0
  /\ IF cursor >= handing THEN UNCHANGED <<taskVars, message, proc, overdue, snap>>
     ELSE /\ turn' = handing /\ cursor' = handing
          /\ message' = "sent" /\ proc' = "none" /\ overdue' = FALSE
          /\ snap' \in {snap, Touched}
          /\ UNCHANGED <<status, holder>>
  /\ Apart /\ UNCHANGED pc

\* The CLI ends without a result: its pid is gone, or the call threw or came
\* back stale.
Exits ==
  /\ proc = "alive" /\ proc' \in {"exited", "dead"} /\ overdue' = FALSE
  /\ Apart /\ UNCHANGED <<taskVars, message, handing, runVars>>

\* Recovery.reconcile and Watchdog.check on their own timers.
Reconcile ==
  /\ status = "RUNNING" /\ Active
  /\ proc = "dead" \/ (proc # "alive" /\ overdue)
  /\ status' = "WAITING_MAIN" /\ proc' = IF proc = "dead" THEN "lost" ELSE proc
  /\ snap' = Touched
  /\ Apart /\ UNCHANGED <<turn, cursor, holder, message, handing, overdue, pc>>

Owner ==
  /\ "owner" \in Faults /\ Active /\ status' = "CANCELLED" /\ snap' = Touched
  /\ Apart /\ UNCHANGED <<turn, cursor, holder, workVars, pc>>

\* A metadata write to the tasks row.
Touch ==
  /\ "touch" \in Faults /\ snap' = Touched /\ snap' # snap
  /\ Apart /\ UNCHANGED <<taskVars, workVars, pc>>

\* The process dies and starts again: calls and messages under way are gone,
\* the rows stay.
Crash ==
  /\ "crash" \in Faults
  /\ pc' = [r \in Runs |-> "idle"] /\ snap' = [r \in Runs |-> NoSnap]
  /\ proc' = IF proc = "alive" THEN "dead" ELSE proc
  /\ message' = IF Received THEN "left" ELSE "none"
  /\ handing' = 0
  /\ Apart /\ UNCHANGED <<taskVars, overdue>>

\* Time passes: the deadline of the Role, the wait for a busy Worker, the
\* patience with a CLI that was told to stop.
Overdue ==
  /\ Active /\ ~overdue /\ overdue' = TRUE
  /\ Apart /\ UNCHANGED <<taskVars, message, proc, handing, runVars>>
WaitIsOver(t) ==
  /\ \/ lease[t].waited = 1 /\ lease' = [lease EXCEPT ![t].waited = 2]
     \/ lease[t].asked = 1 /\ lease' = [lease EXCEPT ![t].asked = 2]
  /\ UNCHANGED <<taskVars, workVars, watched, tried, runVars, sent, broken>>

Environment ==
  \/ Arrives \/ Lost \/ Claim \/ Spawn \/ Heartbeat \/ Passes \/ Fails
  \/ HandOn \/ Exits \/ Reconcile \/ Owner \/ Touch \/ Crash \/ Overdue
  \/ \E t \in 1 .. Turns : WaitIsOver(t)

-----------------------------------------------------------------------------
(* snapshot: the classification, as far as recover tells them apart        *)

\* A failing review whose revision was not handed on.
Orphan == proc = "failed" /\ turn \in Reviews
StillRunning == proc = "alive" /\ ~overdue

ActionableButExited ==
  CASE proc \in {"dead", "lost"} -> TRUE
    [] proc = "failed" -> overdue \/ ~Orphan
    [] proc = "alive" -> overdue
    [] proc = "exited" -> FALSE
    [] OTHER -> overdue \/ (status = "WAITING_MAIN" /\ ~Received)

\* The Role is stalled and may be acted upon.
Actionable ==
  CASE proc \in {"dead", "lost"} -> TRUE
    [] proc = "failed" -> overdue \/ ~Orphan
    [] proc \in {"alive", "exited"} -> overdue
    [] OTHER -> overdue \/ (status = "WAITING_MAIN" /\ ~Received)

\* The classes after which a Worker may be given the same Role again.
SameWorker == proc = "none" /\ Received

IsCurrentByPosition(s) == s.turn = turn /\ cursor = turn

\* The Task is where the snapshot saw it, and nobody wrote its row since.
IsCurrent(s) ==
  s.fresh /\ s.turn = turn /\ cursor = turn /\ status \notin Terminal

ClearedWithRetries(t) == [lease EXCEPT ![t] = NewLease]

\* markAction with clearWaits: the lease is free again, whoever held it.
Cleared(t) == [lease EXCEPT ![t] = [NewLease EXCEPT !.retries = lease[t].retries]]
Freed(t) == [lease EXCEPT ![t].wake = FALSE]
\* The retry is given back with the lease.
GivenBack(t) ==
  [lease EXCEPT ![t].wake = FALSE, ![t].retries = IF @ > 0 THEN @ - 1 ELSE 0]

\* fence: messages the turn's Worker has are superseded.
Fenced(t) ==
  IF t # turn THEN message
  ELSE CASE message \in {"received", "left"} -> "none"
         [] message = "claimed" -> "superseded" [] OTHER -> message

\* safeStop on behalf of a snapshot of turn t: fence, close the Task unless it
\* is closed, free the lease, end the watch.
SafeStop(t) ==
  /\ status' = IF status \in Terminal THEN status
               ELSE IF status = "RUNNING" THEN "FAIL" ELSE "CANCELLED"
  /\ message' = Fenced(t) /\ watched' = FALSE
  /\ lease' = Cleared(t)
  /\ UNCHANGED <<turn, cursor, holder, handing, overdue, sent, broken>>

-----------------------------------------------------------------------------
(* runOnce: from a timer tick to the first await                           *)

AtWork(r, t) == pc[r] # "idle" /\ snap[r].turn = t
Looks(r) == pc[r] = "idle" /\ watched
Sees(r) == Looks(r) /\ Active
CanAcquireForEver == ~lease[turn].wake
CanAcquire == ~lease[turn].wake /\ lease[turn].retries < MaxRecoveries
AcquiredByNobody == lease
Acquired == [lease EXCEPT ![turn].wake = TRUE, ![turn].retries = @ + 1]

\* No Role is left, or the Task is closed: the watch ends.
Unwatch(r) ==
  /\ Looks(r) /\ ~Active /\ watched' = FALSE
  /\ UNCHANGED <<taskVars, workVars, lease, tried, runVars, sent, broken>>

\* Evidence of progress frees the lease and ends the waits.
Progress(r) ==
  /\ Sees(r) /\ StillRunning /\ lease' = Cleared(turn)
  /\ broken' = IF \E q \in Runs : AtWork(q, turn) THEN broken \cup {turn} ELSE broken
  /\ UNCHANGED <<taskVars, workVars, watched, tried, runVars, sent>>

BoundExhausted(r) ==
  /\ Sees(r) /\ Actionable /\ lease[turn].retries >= MaxRecoveries
  /\ SafeStop(turn) /\ snap' = Touched
  /\ proc' = IF proc = "alive" THEN "lost" ELSE proc
  /\ UNCHANGED <<tried, pc>>

\* The Role the snapshot picked is not the one the team stands at: the retry
\* is spent and nothing done.
NotAtCursor(r) ==
  /\ Sees(r) /\ Actionable /\ CanAcquire /\ cursor # turn
  /\ lease' = [lease EXCEPT ![turn].retries = @ + 1]
  /\ UNCHANGED <<taskVars, workVars, watched, tried, runVars, sent, broken>>

\* replayReviewRevision: the hand-off the Worker did not get to.
Replay(r) ==
  /\ Sees(r) /\ Actionable /\ CanAcquire /\ cursor = turn /\ Orphan
  /\ turn' = turn + 1 /\ cursor' = turn + 1
  /\ message' = "sent" /\ proc' = "none" /\ overdue' = FALSE
  /\ lease' = Acquired
  /\ pc' = [pc EXCEPT ![r] = "emitting"]
  /\ snap' = [snap EXCEPT ![r] = OfTurn(turn)]
  /\ UNCHANGED <<status, holder, handing, watched, tried, sent, broken>>

\* A live CLI is told to stop, and the retry given back; one that does not is
\* given up with the Task.
CancelLive(r) ==
  /\ Sees(r) /\ Actionable /\ CanAcquire /\ cursor = turn /\ proc = "alive"
  /\ \/ /\ lease[turn].asked = 2
        /\ SafeStop(turn) /\ snap' = Touched /\ proc' = proc
     \/ /\ lease[turn].asked # 2
        /\ lease' = [lease EXCEPT ![turn].asked = 1]
        /\ UNCHANGED <<taskVars, workVars, watched, snap, sent, broken>>
  /\ UNCHANGED <<tried, pc>>

\* Everything else is fenced and healed; the health probes are awaited.
Heal(r) ==
  /\ Sees(r) /\ Actionable /\ CanAcquire /\ cursor = turn
  /\ proc # "alive" /\ ~Orphan
  /\ message' = Fenced(turn) /\ lease' = Acquired
  /\ proc' = IF proc = "dead" THEN "lost" ELSE proc
  /\ pc' = [pc EXCEPT ![r] = "healing"]
  /\ snap' = [snap EXCEPT ![r] =
                [turn |-> turn, same |-> SameWorker, fresh |-> TRUE]]
  /\ UNCHANGED <<taskVars, handing, overdue, watched, tried, sent, broken>>

-----------------------------------------------------------------------------
(* recover: from the probes to the emission                                *)

\* Workers the other Roles of the chain keep from this one.
Others(s) == {holder[q] : q \in DOMAIN Roles \ {s}}
\* Routing leaves out whoever was ever selected for the Role; when that leaves
\* nobody, not even a busy one, and the Role never began, it leaves out nobody.
Candidates(s) == Agents \ (Others(s) \cup tried[s] \cup {holder[s]})
Again(s) == Agents \ Others(s)

\* The router found nobody: the candidates are busy or out of service.
Returns(r) == pc' = [pc EXCEPT ![r] = "idle"]
WaitForCapacity(r) ==
  LET t == snap[r].turn IN
    /\ pc[r] = "healing" /\ Candidates(Seq(t)) # {} /\ lease[t].waited # 2
    /\ lease' = [GivenBack(t) EXCEPT ![t].waited = 1]
    /\ Returns(r) /\ snap' = [snap EXCEPT ![r] = NoSnap]
    /\ UNCHANGED <<taskVars, workVars, watched, tried, sent, broken>>
NobodyLeft(r) ==
  /\ pc[r] = "healing"
  /\ SafeStop(snap[r].turn) /\ proc' = proc
  /\ Returns(r) /\ snap' = [Touched EXCEPT ![r] = NoSnap]
  /\ UNCHANGED tried

Selected(r, a) ==
  LET s == Seq(snap[r].turn) IN
    /\ pc[r] = "healing"
    /\ a \in Candidates(s) \/ (snap[r].same /\ a \in Again(s))
    /\ tried' = [tried EXCEPT ![s] = @ \cup {a}]

\* The Task moved on meanwhile.
StaleSelection(r) ==
  /\ \E a \in Agents : Selected(r, a)
  /\ ~IsCurrent(snap[r]) /\ lease' = Freed(snap[r].turn)
  /\ Returns(r) /\ snap' = [snap EXCEPT ![r] = NoSnap]
  /\ UNCHANGED <<taskVars, workVars, watched, sent, broken>>

DispatchId(r) == <<snap[r].turn, lease[snap[r].turn].retries>>

\* The Role is given to a, the Task dispatched again with a new attempt, the
\* TASK event committed and handed to the gateway.
Redispatch(r, a) ==
  LET t == snap[r].turn IN
    /\ Selected(r, a) /\ IsCurrent(snap[r])
    /\ holder' = [holder EXCEPT ![Seq(t)] = a]
    /\ status' = "DISPATCHED" /\ message' = "sent" /\ proc' = "none"
    /\ overdue' = FALSE
    /\ sent' = sent \cup {DispatchId(r)}
    /\ pc' = [pc EXCEPT ![r] = "emitting"] /\ snap' = [Touched EXCEPT ![r] = OfTurn(t)]
    /\ UNCHANGED <<turn, cursor, handing, watched, lease, broken>>

\* The emission resolved or was rejected; the message may be under way in both.
Emitted(r) ==
  /\ pc[r] = "emitting" /\ lease' = Cleared(snap[r].turn)
  /\ Returns(r) /\ snap' = [snap EXCEPT ![r] = NoSnap]
  /\ UNCHANGED <<taskVars, workVars, watched, tried, sent, broken>>

\* A health probe throws, and with it runOnce.
ProbeThrows(r) ==
  /\ "throw" \in Faults /\ pc[r] = "healing"
  /\ Returns(r) /\ snap' = [snap EXCEPT ![r] = NoSnap]
  /\ UNCHANGED <<taskVars, workVars, watched, lease, tried, sent, broken>>

Look(r) ==
  \/ Unwatch(r) \/ Progress(r) \/ BoundExhausted(r) \/ NotAtCursor(r)
  \/ Replay(r) \/ CancelLive(r) \/ Heal(r)
Route(r) ==
  \/ WaitForCapacity(r) \/ NobodyLeft(r) \/ StaleSelection(r)
  \/ \E a \in Agents : Redispatch(r, a)

\* Nothing is followed further once the watch is over and no run under way.
Followed == watched \/ \E r \in Runs : pc[r] # "idle"

Next ==
  \/ Followed /\ Environment
  \/ \E r \in Runs : Look(r) \/ Route(r) \/ Emitted(r) \/ ProbeThrows(r)

\* The timer ticks, its awaits return, and time passes.  Workers owe nothing.
Fairness ==
  /\ WF_vars(Overdue)
  /\ \A t \in 1 .. Turns : WF_vars(WaitIsOver(t))
  /\ \A r \in Runs : WF_vars(Look(r)) /\ WF_vars(Route(r)) /\ WF_vars(Emitted(r))

Spec == Init /\ [][Next]_vars /\ Fairness

-----------------------------------------------------------------------------
\* The class comment: a run "emits at most one fenced retry for the current
\* Role/revision at a time".  Overlapping timer ticks never work on one turn
\* together, unless a CLI that started late looked like progress in between.
OneRetryAtATime ==
  \A r, q \in Runs, t \in 1 .. Turns :
    r # q /\ AtWork(r, t) /\ AtWork(q, t) => t \in broken

\* A dispatch id names one dispatch, and a turn is redispatched at most
\* MaxRecoveries times: retries given back never bring an id out again.
DispatchIdsAreNew ==
  [][\A r \in Runs, a \in Agents :
       Redispatch(r, a) /\ snap[r].turn \notin broken =>
         DispatchId(r) \notin sent /\ lease[snap[r].turn].retries > 0]_vars

\* A Task that was stopped, cancelled or finished stays so, whatever recovery
\* of it was waiting for its probes.
ClosedStaysClosed == [][(status \in Terminal) => UNCHANGED status]_vars

Orphaned ==
  \E t \in 1 .. Turns : lease[t].wake /\ \A r \in Runs : ~AtWork(r, t)

\* Whatever the Worker does short of sending signs of life for ever, the watch
\* comes to an end: the Task finishes or is stopped, unless a lease was left
\* without anybody to free it.
WatchEnds == (<>[][~Heartbeat]_vars) => <>(~watched \/ Orphaned)

\* tests/scopedContinuationWatchdog.test.ts: "does not let a stale wake
\* completion mutate a newer Role round".
StaleWakeStopsNothing ==
  [][\A r \in Runs :
       pc[r] = "healing" /\ pc'[r] = "idle" /\ snap[r].turn # turn =>
         UNCHANGED status]_vars
=============================================================================

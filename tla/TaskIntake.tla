----------------------------- MODULE TaskIntake -----------------------------
(***************************************************************************)
(* What reaches a Task from outside the Runtime: SymphonyTaskBridge, which *)
(* registers, holds, releases and retries a Task and keeps its own row of  *)
(* it; the commands of LocalTaskControl; the recovery of a safe-stopped    *)
(* Task from evidence gathered earlier; and the reconciliation of the      *)
(* commit its work is bound to.  Callers repeat their requests, and the    *)
(* Runtime and the worktree move on between them.                          *)
(***************************************************************************)
EXTENDS Naturals, TaskStateMachine

CONSTANTS
  Commits,   \* commits of the worktree's branch, 1 .. n, the last one newest
  Edits,     \* different uncommitted changes the worktree can hold
  MaxStops   \* safe stops a Task meets

VARIABLES
  task,       \* status, hold and result of the tasks row
  inbox,      \* external_task_inbox: state, hold, whether an ACK id is stored
  reviewer,   \* status of the REVIEWER's task_roles row
  verdict,    \* the latest REVIEW and QA_RESULT events
  cli,        \* a RUNNING row of worker_processes
  head, diff, \* the worktree: its commit, and its uncommitted change, 0 if none
  bound,      \* base of task:execution_binding, 0 when missing
  evidence,   \* what a recovery request is based on: where it was gathered
  recovered,  \* targets of the TASK_RECOVERY events, the last one and how many
  stops,      \* history: safe stops so far
  retried     \* history: retryExisting was used since the last hold

vars == <<task, inbox, reviewer, verdict, cli, head, diff, bound, evidence, recovered,
          stops, retried>>
worktree == <<head, diff>>
history == <<recovered, stops, retried>>

Targets == {"DEVELOPER", "REVIEWER", "QA"}
Results == {"none", "watchdog", "safe stop", "held", "recovered"}
Closed == {"PASS", "COMPLETED", "FAIL", "CANCELLED"}
Working == {"DISPATCHED", "CLAIMED", "RUNNING"}
Diffs == 0 .. Edits
NoEvidence == [base |-> 0, diff |-> 0]

TypeOK ==
  /\ task \in [status : Status, hold : BOOLEAN, result : Results]
  /\ inbox \in [state : {"none", "REGISTERED", "ACKED", "RECONCILIATION_HOLD",
                         "FOLLOWS"}, hold : BOOLEAN, ack : BOOLEAN]
  /\ reviewer \in {"none", "ASSIGNED", "PASS"}
  /\ verdict \in [review : {"none", "REVISION_REQUIRED", "REVIEW_PASS"}, qa : BOOLEAN]
  /\ cli \in BOOLEAN /\ head \in Commits /\ diff \in Diffs /\ bound \in Commits \cup {0}
  /\ evidence \in [base : Commits \cup {0}, diff : Diffs]
  /\ recovered \in [last : Targets \cup {"none"}, count : Nat]
  /\ stops \in 0 .. MaxStops /\ retried \in BOOLEAN

\* Before the bridge has heard of the Task nothing but the worktree exists; the
\* status of a Task that is not there is of no account.
Init ==
  /\ task = [status |-> "QUEUED", hold |-> FALSE, result |-> "none"]
  /\ inbox = [state |-> "none", hold |-> FALSE, ack |-> FALSE]
  /\ reviewer = "none" /\ verdict = [review |-> "none", qa |-> FALSE]
  /\ cli = FALSE /\ head = 1 /\ diff = 0 /\ bound = 0 /\ evidence = NoEvidence
  /\ recovered = [last |-> "none", count |-> 0] /\ stops = 0 /\ retried = FALSE

Registered == inbox.state # "none"
Teamed == reviewer # "none"
Row(status, result) == [task EXCEPT !.status = status, !.result = result]

-----------------------------------------------------------------------------
(* The bridge. *)

Register(hold) ==
  /\ ~Registered
  /\ task' = [task EXCEPT !.hold = hold, !.status = IF hold THEN "HUMAN_GATE" ELSE "QUEUED"]
  /\ inbox' = [state |-> IF hold THEN "RECONCILIATION_HOLD" ELSE "REGISTERED",
               hold |-> hold, ack |-> FALSE]
  /\ UNCHANGED <<reviewer, verdict, cli, worktree, bound, evidence, history>>

HeldInboxOnly == [task EXCEPT !.result = "held"]

\* holdExecution: the row is flagged whatever its status; only a Task that
\* waits for Main moves.
Held ==
  [task EXCEPT !.hold = TRUE, !.result = "held",
               !.status = IF @ = "WAITING_MAIN" THEN "HUMAN_GATE" ELSE @]

\* hold, by itself or because the Task is registered again with a hold.
Hold ==
  /\ Registered /\ task' = Held
  /\ inbox' = [inbox EXCEPT !.state = "RECONCILIATION_HOLD", !.hold = TRUE]
  /\ retried' = FALSE
  /\ UNCHANGED <<reviewer, verdict, cli, worktree, bound, evidence, recovered, stops>>

MarkAck ==
  /\ Registered
  /\ inbox' = [inbox EXCEPT !.ack = TRUE, !.state = IF @ = "REGISTERED" THEN "ACKED" ELSE @]
  /\ UNCHANGED <<task, reviewer, verdict, cli, worktree, bound, evidence, history>>

ReleasedState == IF inbox.ack THEN "ACKED" ELSE "REGISTERED"

\* release and releaseTask: what waits at the gate is queued, whoever put it there.
Release ==
  /\ Registered
  /\ task' = [task EXCEPT !.hold = FALSE, !.status = IF @ = "HUMAN_GATE" THEN "QUEUED" ELSE @]
  /\ inbox' = [inbox EXCEPT !.hold = FALSE, !.state = ReleasedState]
  /\ UNCHANGED <<reviewer, verdict, cli, worktree, bound, evidence, history>>

\* retryExisting: the same Task again, from any status, with its Roles reset; the
\* inbox is left as it is.
Retry ==
  /\ Registered /\ Teamed
  /\ task' = [status |-> "QUEUED", hold |-> FALSE, result |-> "none"]
  /\ reviewer' = "ASSIGNED" /\ retried' = TRUE
  /\ UNCHANGED <<inbox, verdict, cli, worktree, bound, evidence, recovered, stops>>

\* reconcile: the inbox follows the Task, with a state of its own for a Task that
\* has a room, one that is at work, and one that is over or waits for somebody.
Followed ==
  IF inbox.hold \/ task.hold THEN [inbox EXCEPT !.state = "RECONCILIATION_HOLD", !.hold = TRUE]
  ELSE IF task.status \in {"QUEUED", "DISPATCHED"} /\ ~Teamed THEN inbox
  ELSE [inbox EXCEPT !.state = "FOLLOWS"]
Reconcile ==
  /\ Registered /\ inbox' = Followed
  /\ UNCHANGED <<task, reviewer, verdict, cli, worktree, bound, evidence, history>>

-----------------------------------------------------------------------------
(* LocalTaskControl, besides the commands other modules have. *)

\* CONTINUE_TASK.
Continue ==
  /\ Registered /\ task.status = "WAITING_MAIN" /\ ~task.hold /\ task.result = "watchdog"
  /\ ~cli
  /\ task' = [task EXCEPT !.status = "QUEUED"]
  /\ UNCHANGED <<inbox, reviewer, verdict, cli, worktree, bound, evidence, history>>

\* Main approves the move from one commit to a later one; by the time it is
\* asked for, HEAD must be there, and nothing uncommitted.
Approved(old, new) == bound = old /\ head = new /\ old < new /\ diff = 0

\* RECONCILE_EXECUTION_BINDING.
Rebind(old, new) ==
  /\ Registered /\ task.status \notin Closed /\ ~task.hold /\ ~cli
  /\ Approved(old, new)
  /\ bound' = new
  /\ UNCHANGED <<task, inbox, reviewer, verdict, cli, worktree, evidence, history>>

\* An operator gathers the binding, the diff and the validation of the worktree.
Gather ==
  /\ diff # 0 /\ evidence' = [base |-> head, diff |-> diff]
  /\ UNCHANGED <<task, inbox, reviewer, verdict, cli, worktree, bound, history>>

StoppedOrRecovered ==
  task.status \in {"CANCELLED", "FAIL"} /\ task.result \in {"safe stop", "recovered"}

\* recoverCancelledTask: only a safe stop can be recovered, cancelled since or not.
Recoverable == task.status \in {"CANCELLED", "FAIL"} /\ task.result = "safe stop"

\* assertEvidence: the worktree is as it was when the evidence was gathered.
EvidenceHolds == head = evidence.base /\ diff = evidence.diff /\ diff # 0 /\ ~cli

\* assertPhaseIsNotSkipped.  The status asked of the developer is read from the
\* row of the target.
PhaseProven(role) ==
  \/ role = "DEVELOPER" /\ verdict.review = "REVISION_REQUIRED"
  \/ role = "REVIEWER" /\ verdict.review = "REVISION_REQUIRED" /\ reviewer = "PASS"
  \/ role = "QA" /\ verdict.review = "REVIEW_PASS" /\ ~verdict.qa

\* The request may be repeated at will; a recovery whose Task is still at work
\* answers without a second event, one for another Role is a conflict.
Recover(role) ==
  /\ Registered /\ Teamed /\ evidence # NoEvidence
  /\ recovered.last \in {"none", role}
  /\ Recoverable /\ EvidenceHolds /\ PhaseProven(role)
  /\ task' = Row("QUEUED", "recovered")
  /\ reviewer' = IF role = "REVIEWER" THEN "ASSIGNED" ELSE reviewer
  /\ recovered' = [last |-> role, count |-> recovered.count + 1]
  /\ UNCHANGED <<inbox, verdict, cli, worktree, bound, evidence, stops, retried>>

-----------------------------------------------------------------------------
(* The Runtime and the worktree, as far as the above asks about them. *)

Dispatch ==
  /\ Registered /\ task.status = "QUEUED" /\ ~task.hold
  /\ task' = [task EXCEPT !.status = "DISPATCHED"]
  /\ reviewer' = IF Teamed THEN reviewer ELSE "ASSIGNED"
  /\ bound' = head
  /\ UNCHANGED <<inbox, verdict, cli, worktree, evidence, history>>

\* WorkerRuntime.receive drops the message of a held Task, and sends a Task
\* whose worktree is not on the bound commit to Main.
Claim ==
  /\ task.status = "DISPATCHED" /\ ~task.hold
  /\ IF head = bound THEN task' = [task EXCEPT !.status = "RUNNING"] /\ cli' = TRUE
     ELSE task' = Row("WAITING_MAIN", "none") /\ cli' = cli
  /\ UNCHANGED <<inbox, reviewer, verdict, worktree, bound, evidence, history>>

\* The CLI ends; its edits stay, and its result may be a review or QA.
Ends ==
  /\ cli /\ cli' = FALSE /\ diff' \in Diffs
  /\ verdict' \in {verdict, [review |-> "REVISION_REQUIRED", qa |-> FALSE],
                [review |-> "REVIEW_PASS", qa |-> FALSE], [review |-> "REVIEW_PASS", qa |-> TRUE]}
  /\ reviewer' \in {reviewer, "PASS"}
  /\ task' \in {task} \cup (IF task.status = "RUNNING" THEN {[task EXCEPT !.status = "PASS"]}
                            ELSE {})
  /\ UNCHANGED <<inbox, head, bound, evidence, history>>

Watchdog ==
  /\ task.status = "RUNNING" /\ task' = Row("WAITING_MAIN", "watchdog")
  /\ UNCHANGED <<inbox, reviewer, verdict, cli, worktree, bound, evidence, history>>

SafeStop ==
  /\ task.status \in Working \cup {"WAITING_MAIN"} /\ ~task.hold /\ stops < MaxStops
  /\ task' = Row("FAIL", "safe stop") /\ stops' = stops + 1
  /\ UNCHANGED <<inbox, reviewer, verdict, cli, worktree, bound, evidence, recovered, retried>>

Cancel ==
  /\ Registered /\ "CANCELLED" \in Transitions(task.status)
  /\ task' = [task EXCEPT !.status = "CANCELLED"]
  /\ UNCHANGED <<inbox, reviewer, verdict, cli, worktree, bound, evidence, history>>

\* FAIL may be queued again by an operator, with the result it has.
Requeue ==
  /\ task.status = "FAIL" /\ task' = [task EXCEPT !.status = "QUEUED"]
  /\ UNCHANGED <<inbox, reviewer, verdict, cli, worktree, bound, evidence, history>>

\* People commit, reset and edit.
Worktree ==
  /\ \/ head' \in Commits /\ diff' = 0
     \/ head' = head /\ diff' \in Diffs
  /\ UNCHANGED <<task, inbox, reviewer, verdict, cli, bound, evidence, history>>

Next ==
  \/ \E hold \in BOOLEAN : Register(hold)
  \/ Hold \/ MarkAck \/ Release \/ Retry \/ Reconcile \/ Continue \/ Gather
  \/ \E old, new \in Commits : Rebind(old, new)
  \/ \E role \in Targets : Recover(role)
  \/ Dispatch \/ Claim \/ Ends \/ Watchdog \/ SafeStop \/ Cancel \/ Requeue \/ Worktree

Spec == Init /\ [][Next]_vars

-----------------------------------------------------------------------------
\* However often recovery is asked for, and whatever holds, cancellations and
\* retries come between, every TASK_RECOVERY event answers a stop of its own.
OneRecoveryPerStop == recovered.count <= stops

\* The bridge and the Task agree: the bridge never shows a Task as free that the
\* Runtime will not run, shows a running one as held only after retryExisting,
\* which lifts the hold of the Task alone, and never again says REGISTERED of a
\* Task whose ACK it has stored, before, during or after a hold.
BridgeAgrees ==
  Registered => /\ task.hold => inbox.hold
                /\ inbox.hold => task.hold \/ retried
                /\ inbox.ack => inbox.state # "REGISTERED"
=============================================================================

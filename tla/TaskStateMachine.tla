-------------------------- MODULE TaskStateMachine --------------------------
(***************************************************************************)
(* The durable status of a Task and the moves TaskRepository.transition    *)
(* accepts (tasks/stateMachine.ts).  Every other module asks CanTransition *)
(* before it writes a status, as the code's assertTransition does.         *)
(***************************************************************************)

Status ==
  {"QUEUED", "DISPATCHED", "CLAIMED", "RUNNING", "WAITING_RESULT",
   "REVIEWING", "PASS", "COMPLETED", "FAIL", "BLOCKED", "WAITING_MAIN",
   "HUMAN_GATE", "CANCELLED"}

Transitions(from) ==
  CASE from = "QUEUED" ->
         {"DISPATCHED", "BLOCKED", "CANCELLED", "WAITING_MAIN", "HUMAN_GATE"}
    [] from = "DISPATCHED" ->
         {"CLAIMED", "QUEUED", "BLOCKED", "CANCELLED", "WAITING_MAIN"}
    [] from = "CLAIMED" -> {"RUNNING", "BLOCKED", "CANCELLED", "WAITING_MAIN"}
    [] from = "RUNNING" ->
         {"WAITING_RESULT", "BLOCKED", "FAIL", "CANCELLED", "WAITING_MAIN",
          "HUMAN_GATE"}
    [] from = "WAITING_RESULT" ->
         {"REVIEWING", "PASS", "FAIL", "BLOCKED", "WAITING_MAIN"}
    [] from = "REVIEWING" ->
         {"PASS", "FAIL", "BLOCKED", "WAITING_MAIN", "HUMAN_GATE"}
    [] from = "FAIL" -> {"QUEUED", "CANCELLED", "BLOCKED"}
    [] from = "BLOCKED" -> {"QUEUED", "CANCELLED", "WAITING_MAIN", "HUMAN_GATE"}
    [] from = "WAITING_MAIN" ->
         {"QUEUED", "DISPATCHED", "PASS", "CANCELLED", "HUMAN_GATE"}
    [] from = "HUMAN_GATE" -> {"QUEUED", "DISPATCHED", "CANCELLED", "WAITING_MAIN"}
    [] from = "PASS" -> {"COMPLETED"}
    [] OTHER -> {}

CanReturnToMain(from, to) == to = "WAITING_MAIN" \/ to \in Transitions(from)

CanTransition(from, to) == from = to \/ to \in Transitions(from)
=============================================================================

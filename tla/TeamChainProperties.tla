------------------------ MODULE TeamChainProperties ------------------------
(***************************************************************************)
(* What a team Task must never do, and what it must come to.               *)
(***************************************************************************)
EXTENDS TeamChain

\* No agent holds two Roles of a Task: nobody reviews or verifies work of
\* their own.  Roles are given out by TeamPlanner.plan and, long after, by
\* RuntimeDispatchRecovery when it moves an unanswered dispatch elsewhere; both
\* ask AgentRouter, which looks at the other Roles only in part.
SeparationOfDuties ==
  \A s, t \in Roles :
    s # t /\ roleAgent[s] # NoAgent => roleAgent[s] # roleAgent[t]

\* A COMPLETED Task rests on work that stands: every Role is PASS, no evidence
\* names a failure, and no Role passed on work that was redone afterwards.
\* TaskCompletionProjection only sees the rows of the moment it runs in.
CompletionIsEarned ==
  status = "COMPLETED" => AllPassed /\ dirty = {} /\ stale = {}

\* "The scheduler runs one Role at a time": two CLIs never work on a Task
\* together, through restarts, watchdog stops and repeated dispatches.
OneRoleAtATime ==
  \A a, b \in Agents : pc[a] = "executing" /\ pc[b] = "executing" => a = b

\* The fence in WorkerRuntime compares versions and rounds, never the Role
\* cursor; yet a result it lets through is always that of the Role the Task
\* stands at, still ACTIVE, so that no other Role's work is overtaken.
FenceFollowsCursor ==
  \A a \in Agents :
    pc[a] = "executing" /\ Current(a) /\ flight[a].seq # 0
      => flight[a].seq = curSeq /\ roleStatus[curSeq] = "ACTIVE"

\* A pass is taken back by a revision and by nothing else: the Role moves to a
\* later round in the same step.
PassUndoneByRevision ==
  [][\A s \in Roles :
       roleStatus[s] = "PASS" /\ roleStatus'[s] # "PASS"
         => roleRound'[s] > roleRound[s]]_vars

\* "Terminal tasks never re-enter the queue automatically" (ARCHITECTURE.md):
\* COMPLETED and CANCELLED are final, although results, backfill, supervisors
\* and dispatchers that began earlier still write the row afterwards.  (The
\* owner's explicit reopenCancelledForRecovery is not part of the chain.)
TerminalStable == [][status' # status => status \notin Terminal]_vars

\* An agent whose row is BUSY with this Task is in a call that will release it:
\* no agent is lost to the other Tasks.
BusyMeansInFlight == \A a \in busy : pc[a] # "idle"

-----------------------------------------------------------------------------
(* What type correctness rests on: that nothing starts before every Role   *)
(* has its agent, and that what follows a result is decided with it.       *)

Staffed == \A s \in Roles : roleAgent[s] \in Agents
InProgress ==
  \/ team \notin {"NONE", "BLOCKED"} \/ status = "DISPATCHED" \/ verdict
  \/ bus # {} \/ \E a \in Agents : pc[a] # "idle"
  \/ \E d \in Dispatchers : dpc[d] = "preparing"

StaffedInProgress ==
  /\ InProgress => Staffed
  /\ team = "NONE" => \A s \in Roles : roleAgent[s] = NoAgent

PlansAnAgent == \A d \in Dispatchers : dpc[d] = "preparing" => plan[d].agent \in Agents

OutcomeDecided ==
  \A a \in Agents : pc[a] = "publishing" =>
    /\ SendsBack(a) => flight[a].msg.round < MaxRound
    /\ flight[a].target # NoAgent /\ HandsOn(a) => SeqOf(a) + 1 \in Roles
    /\ flight[a].target # NoAgent /\ SendsBack(a) => SeqOf(a) - 1 \in Roles

TypeInv == TypeOK /\ StaffedInProgress /\ PlansAnAgent /\ OutcomeDecided

-----------------------------------------------------------------------------
PipelineOutcome ==
  CASE status = "COMPLETED" -> "completed"
    [] status \in {"CANCELLED", "FAIL"} -> "closed"
    [] OTHER -> "open"
Pipeline == INSTANCE SequentialPipeline WITH
  N <- N, passed <- {s \in Roles : roleStatus[s] = "PASS"}, outcome <- PipelineOutcome

\* The chain implements the sequential pipeline.
ImplementsPipeline == Pipeline!Spec

\* A hand-off reaches an agent whose earlier call has not returned: receive
\* drops it for good, because inFlight still holds the agent and the Task.
HandoffFindsAgentBusy ==
  \E m \in bus : m.kind # "TASK" /\ pc[m.to] # "idle"

\* Left alone, a Task completes or stops at a Role that failed for good (a
\* failed review is no end), through every revision and a double dispatch: no
\* message of the chain is lost between guard, claim and fence, except to an
\* agent still busy publishing.
FailedForGood == \E s \in Roles : roleStatus[s] = "FAIL" /\ RoleOf[s] # "REVIEWER"
ChainConverges ==
  <>[](status = "COMPLETED" \/ FailedForGood) \/ <>HandoffFindsAgentBusy

\* A Task does not stay CLAIMED or RUNNING for ever: it completes, or the
\* watchdog takes it to WAITING_MAIN, even when a CLI never returns.
NoRunForever ==
  status \in {"CLAIMED", "RUNNING"} ~> status \notin {"CLAIMED", "RUNNING"}
=============================================================================

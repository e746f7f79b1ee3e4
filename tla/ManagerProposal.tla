--------------------------- MODULE ManagerProposal ---------------------------
(***************************************************************************)
(* The one question put to the ASUS manager for an acceptance id, and the  *)
(* one continuation of the stopped Task its answer may cause.  The claim of*)
(* the question and the claim of the answer are rows written before what   *)
(* they claim is done; callers repeat both, and the process may die between*)
(* a claim and its deed.  An acceptance id stands for the attempt row, its *)
(* observation and its consumption row.                                    *)
(***************************************************************************)
EXTENDS Naturals, FiniteSets

CONSTANTS
  Accepts,   \* acceptance ids
  Askers,    \* concurrent calls of invoke
  Consumers, \* concurrent calls of consume
  MaxStops   \* bound: times the watchdog stops the Task

VARIABLES
  attempt,  \* acceptance ids with a manager_inference_attempts row
  asking,   \* the acceptance id each invoke awaits the provider for
  observed, \* the results recorded for each acceptance id
  claim,    \* status of the manager_proposal_consumptions row
  waiting,  \* the acceptance id whose activation each consume awaits
  task,     \* status, hold and result of the Task row, and a CLI alive
  stops,    \* history: watchdog stops
  asked,    \* history: provider calls for each acceptance id
  caused    \* history: continuations for each acceptance id

vars == <<attempt, asking, observed, claim, waiting, task, stops, asked, caused>>

None == "none"
Results == {"RECOVERY_JUDGMENT", "OTHER_DECISION", "BLOCKED"}

TypeOK ==
  /\ attempt \subseteq Accepts
  /\ asking \in [Askers -> Accepts \cup {None}]
  /\ observed \in [Accepts -> SUBSET Results]
  /\ claim \in [Accepts -> {None, "CLAIMED", "COMPLETED"}]
  /\ waiting \in [Consumers -> Accepts \cup {None}]
  /\ task \in [status : {"RUNNING", "WAITING_MAIN", "QUEUED", "HUMAN_GATE"}, hold : BOOLEAN,
               watchdog : BOOLEAN, live : BOOLEAN]
  /\ stops \in 0 .. MaxStops
  /\ asked \in [Accepts -> Nat] /\ caused \in [Accepts -> Nat]

Init ==
  /\ attempt = {} /\ asking = [c \in Askers |-> None]
  /\ observed = [a \in Accepts |-> {}] /\ claim = [a \in Accepts |-> None]
  /\ waiting = [u \in Consumers |-> None]
  /\ task = [status |-> "RUNNING", hold |-> FALSE, watchdog |-> FALSE, live |-> TRUE]
  /\ stops = 0
  /\ asked = [a \in Accepts |-> 0] /\ caused = [a \in Accepts |-> 0]

-----------------------------------------------------------------------------
\* The INSERT of the attempt is the claim: its key carries no trigger id.
Unclaimed(a) == a \notin attempt

Ask(c, a) ==
  /\ asking[c] = None /\ Unclaimed(a)
  /\ attempt' = attempt \cup {a}
  /\ asking' = [asking EXCEPT ![c] = a]
  /\ asked' = [asked EXCEPT ![a] = @ + 1]
  /\ UNCHANGED <<observed, claim, waiting, task, stops, caused>>

\* The provider answered: a judgment within its authority, or a BLOCKED row for
\* a failure, a malformed answer or one outside the manager's authority.
Answer(c, result) ==
  /\ asking[c] # None
  /\ observed' = [observed EXCEPT ![asking[c]] = @ \cup {result}]
  /\ asking' = [asking EXCEPT ![c] = None]
  /\ UNCHANGED <<attempt, claim, waiting, task, stops, asked, caused>>

-----------------------------------------------------------------------------
\* What consume and continueFromWatchdog ask of the Task.
Continuable == task.status = "WAITING_MAIN" /\ ~task.hold /\ task.watchdog /\ ~task.live
Queued == task' = [task EXCEPT !.status = "QUEUED"]

UnlessCompleted(a) == observed[a] = {"RECOVERY_JUDGMENT"} /\ claim[a] # "COMPLETED"

\* findObservation, and the consumption row that must not exist.
Consumable(a) == observed[a] = {"RECOVERY_JUDGMENT"} /\ claim[a] = None

Consume(u, a) ==
  /\ waiting[u] = None /\ Consumable(a) /\ Continuable
  /\ claim' = [claim EXCEPT ![a] = "CLAIMED"]
  /\ Queued /\ caused' = [caused EXCEPT ![a] = @ + 1]
  /\ waiting' = [waiting EXCEPT ![u] = a]
  /\ UNCHANGED <<attempt, asking, observed, stops, asked>>

\* The activation that was awaited returned, or threw, which is caught.
Consumed(u) ==
  /\ waiting[u] # None
  /\ claim' = [claim EXCEPT ![waiting[u]] = IF @ = "CLAIMED" THEN "COMPLETED" ELSE @]
  /\ waiting' = [waiting EXCEPT ![u] = None]
  /\ UNCHANGED <<attempt, asking, observed, task, stops, asked, caused>>

\* The process dies: the calls are gone; perhaps between a claim and the
\* transition it was made for.
Dies ==
  /\ asking' = [c \in Askers |-> None] /\ waiting' = [u \in Consumers |-> None]
  /\ task' = [task EXCEPT !.live = FALSE]
  /\ UNCHANGED <<attempt, observed, stops, asked, caused>>
Crash == Dies /\ UNCHANGED claim
CrashAfterClaim(u, a) ==
  /\ waiting[u] = None /\ Consumable(a) /\ Continuable
  /\ Dies /\ claim' = [claim EXCEPT ![a] = "CLAIMED"]

-----------------------------------------------------------------------------
TaskMoves(status) ==
  /\ task' = [task EXCEPT !.status = status, !.live = IF status = "RUNNING" THEN TRUE ELSE @]
  /\ UNCHANGED <<attempt, asking, observed, claim, waiting, stops, asked, caused>>

\* CONTINUE_TASK of the local control; the dispatch of a queued Task.
Continue == Continuable /\ TaskMoves("QUEUED")
Run == task.status = "QUEUED" /\ ~task.hold /\ TaskMoves("RUNNING")

\* The watchdog's safe stop, or a stop of another kind; the CLI may live on.
Stop(watchdog) ==
  /\ task.status = "RUNNING" /\ stops < MaxStops /\ stops' = stops + 1
  /\ task' = [task EXCEPT !.status = "WAITING_MAIN", !.watchdog = watchdog]
  /\ UNCHANGED <<attempt, asking, observed, claim, waiting, asked, caused>>
CliEnds ==
  /\ task.live /\ task' = [task EXCEPT !.live = FALSE]
  /\ UNCHANGED <<attempt, asking, observed, claim, waiting, stops, asked, caused>>
\* holdExecution writes its reason over the result; releaseExecutionHold queues.
Hold ==
  /\ task' = [task EXCEPT !.hold = TRUE, !.watchdog = FALSE,
                          !.status = IF @ = "WAITING_MAIN" THEN "HUMAN_GATE" ELSE @]
  /\ UNCHANGED <<attempt, asking, observed, claim, waiting, stops, asked, caused>>
Release ==
  /\ task' = [task EXCEPT !.hold = FALSE, !.status = IF @ = "HUMAN_GATE" THEN "QUEUED" ELSE @]
  /\ UNCHANGED <<attempt, asking, observed, claim, waiting, stops, asked, caused>>

Next ==
  \/ \E c \in Askers : (\E a \in Accepts : Ask(c, a)) \/ (\E r \in Results : Answer(c, r))
  \/ \E u \in Consumers : \/ \E a \in Accepts : Consume(u, a) \/ CrashAfterClaim(u, a)
                          \/ Consumed(u)
  \/ Crash \/ Continue \/ Run \/ CliEnds \/ Hold \/ Release
  \/ \E watchdog \in BOOLEAN : Stop(watchdog)

Spec == Init /\ [][Next]_vars

-----------------------------------------------------------------------------
\* The manager is asked at most once for an acceptance id, through concurrent
\* and repeated triggers, failed answers and restarts, and its one judgment
\* continues the Task at most once, however often the Task stops again and the
\* request is repeated; a row that says COMPLETED tells the truth.
JudgedOnce ==
  \A a \in Accepts : /\ asked[a] <= 1 /\ caused[a] <= 1
                     /\ claim[a] = "COMPLETED" => caused[a] = 1
=============================================================================

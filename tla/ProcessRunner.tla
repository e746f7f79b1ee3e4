--------------------------- MODULE ProcessRunner ---------------------------
(***************************************************************************)
(* ProcessRunner.run: one recorded execution of a worker CLI, from the     *)
(* first spawn to the RunOutput its caller gets.  A CLI whose pipes wedge  *)
(* is spawned again, at most Retries times, under the same row of          *)
(* worker_processes, while cancelTask, an expiring run budget and Recovery *)
(* act on that row.  Exit is the operating system's, Close the event loop  *)
(* that hears of it.  Output is kept as whether stderr names the wedge.    *)
(***************************************************************************)
EXTENDS Naturals

CONSTANT Retries  \* respawns before the run gives up

ASSUME RetriesAssumption == Retries \in Nat

Spawns == 1 .. Retries + 1
Exits == {"exit 0", "failed"}
RowStates == {"none", "RUNNING", "CANCELLED", "LOST", "EXITED"}

VARIABLES
  spawned,    \* how many children were spawned so far; the last is `child`
  os,         \* each child as the operating system sees it
  listeners,  \* how often closeHandler is attached to each child
  wedgeSeen,  \* stderr, shared by the children, names the pipe timeout
  wedged,     \* history: the children that printed it
  retries,    \* pipeRetries
  timers,     \* respawns that wait for their three seconds
  mapped,     \* children.get(processId), 0 when absent
  row,        \* status of the worker_processes row
  rowPid,     \* the child whose pid the row holds
  output      \* what run resolved with: "none", transportWedgeExhausted, or an exit

vars == <<spawned, os, listeners, wedgeSeen, wedged, retries, timers, mapped,
          row, rowPid, output>>

TypeOK ==
  /\ spawned \in 0 .. Retries + 1
  /\ os \in [Spawns -> {"unborn", "alive"} \cup Exits]
  /\ listeners \in [Spawns -> 0 .. 1]
  /\ wedgeSeen \in BOOLEAN /\ wedged \subseteq Spawns
  /\ retries \in 0 .. Retries /\ timers \in 0 .. 1
  /\ mapped \in 0 .. Retries + 1 /\ rowPid \in 0 .. Retries + 1
  /\ row \in RowStates
  /\ output \in {"none", "exhausted"} \cup Exits

Init ==
  /\ spawned = 0 /\ os = [g \in Spawns |-> "unborn"]
  /\ listeners = [g \in Spawns |-> 0]
  /\ wedgeSeen = FALSE /\ wedged = {} /\ retries = 0 /\ timers = 0
  /\ mapped = 0 /\ row = "none" /\ rowPid = 0 /\ output = "none"

AttachOnlyFirst(g) == listeners' = [listeners EXCEPT ![g] = IF g = 1 THEN 1 ELSE 0]
AttachTwice(g) == listeners' = [listeners EXCEPT ![g] = IF g = 1 THEN 1 ELSE 2]

\* attach: the handlers of a new child.
Attach(g) == listeners' = [listeners EXCEPT ![g] = @ + 1]

-----------------------------------------------------------------------------
\* spawn answers with a child; one that could not be created has no pid and
\* closes without having run.
Spawned(g, created) ==
  /\ spawned < Retries + 1 /\ g = spawned + 1
  /\ spawned' = g
  /\ os' = [os EXCEPT ![g] = IF created THEN "alive" ELSE "failed"]
  /\ Attach(g)
  /\ mapped' = IF created THEN g ELSE mapped

Start(created) ==
  /\ spawned = 0
  /\ Spawned(1, created)
  /\ row' = IF created THEN "RUNNING" ELSE "none"
  /\ rowPid' = IF created THEN 1 ELSE 0
  /\ UNCHANGED <<wedgeSeen, wedged, retries, timers, output>>

KeepsOldPid(g, created) == rowPid

\* The respawn gives the row the pid the killers use.
NewPid(g, created) == IF created THEN g ELSE rowPid

Respawn(created) ==
  /\ timers > 0 /\ timers' = timers - 1
  /\ Spawned(spawned + 1, created)
  /\ rowPid' = NewPid(spawned + 1, created)
  /\ UNCHANGED <<wedgeSeen, wedged, retries, row, output>>

\* The CLI reports the pipe timeout on stderr and need not exit over it.
Wedge(g) ==
  /\ os[g] = "alive" /\ listeners[g] > 0
  /\ wedgeSeen' = TRUE /\ wedged' = wedged \cup {g}
  /\ UNCHANGED <<spawned, os, listeners, retries, timers, mapped, row, rowPid, output>>

\* The CLI exits, of itself or because it was asked to, wedged or not.
Exit(g) ==
  /\ os[g] = "alive"
  /\ \E e \in Exits : os' = [os EXCEPT ![g] = e]
  /\ UNCHANGED <<spawned, listeners, wedgeSeen, wedged, retries, timers, mapped,
                 row, rowPid, output>>

-----------------------------------------------------------------------------
RetryLeft == retries < Retries

\* closeHandler, first half: a wedge that has retries left is no result ...
CloseWedged(g) ==
  /\ wedgeSeen /\ RetryLeft
  /\ retries' = retries + 1 /\ timers' = timers + 1
  /\ wedgeSeen' = FALSE /\ mapped' = 0
  /\ UNCHANGED <<row, output>>

FlaggedByLastRetry == wedgeSeen /\ retries > Retries

Flagged == wedgeSeen /\ retries >= Retries

\* ... everything else resolves run; a second resolve of a promise is void.
CloseResolved(g) ==
  /\ ~(wedgeSeen /\ RetryLeft)
  /\ mapped' = 0
  /\ row' = IF row = "none" THEN "none" ELSE "EXITED"
  /\ output' = IF output # "none" THEN output
               ELSE IF Flagged THEN "exhausted" ELSE os[g]
  /\ UNCHANGED <<retries, timers, wedgeSeen>>

Close(g) ==
  /\ os[g] \in Exits /\ listeners[g] > 0
  /\ listeners' = [listeners EXCEPT ![g] = @ - 1]
  /\ CloseWedged(g) \/ CloseResolved(g)
  /\ UNCHANGED <<spawned, os, wedged, rowPid>>

-----------------------------------------------------------------------------
\* cancelTask, which needs the child in the map, and the run budget and the
\* watchdog, which need a live pid in the row: SIGTERM, and the row CANCELLED.
Cancellable == row = "RUNNING" /\ mapped # 0
Terminable == row = "RUNNING" /\ rowPid # 0 /\ os[rowPid] = "alive"
Kill ==
  /\ Cancellable \/ Terminable
  /\ row' = "CANCELLED"
  /\ UNCHANGED <<spawned, os, listeners, wedgeSeen, wedged, retries, timers,
                 mapped, rowPid, output>>

\* Recovery, on its timer: a RUNNING row whose pid is gone.
Lost ==
  /\ row = "RUNNING" /\ rowPid # 0 /\ os[rowPid] \in Exits
  /\ row' = "LOST"
  /\ UNCHANGED <<spawned, os, listeners, wedgeSeen, wedged, retries, timers,
                 mapped, rowPid, output>>

Next ==
  \/ \E created \in BOOLEAN : Start(created) \/ Respawn(created)
  \/ \E g \in Spawns : Wedge(g) \/ Exit(g) \/ Close(g)
  \/ Kill \/ Lost

\* Every CLI ends, and the event loop runs what is due.
Fairness ==
  /\ WF_vars(\E created \in BOOLEAN : Start(created) \/ Respawn(created))
  /\ \A g \in Spawns : WF_vars(Exit(g)) /\ WF_vars(Close(g))

Spec == Init /\ [][Next]_vars /\ Fairness

-----------------------------------------------------------------------------
\* The answer is that of the last attempt, and says that it wedged exactly when
\* it did: an earlier wedge must not spoil a good attempt, nor the reset of
\* stderr pass a wedged one off as a success because the CLI exited with 0.
AnswerIsOfTheLastAttempt ==
  output # "none" =>
    output = IF spawned \in wedged THEN "exhausted" ELSE os[spawned]

\* When run has resolved, nothing of it is left to happen: the Worker goes on
\* to hand over a worktree that no forgotten CLI may still write to.
ResolvedIsOver ==
  output # "none" =>
    /\ timers = 0 /\ mapped = 0
    /\ \A g \in Spawns : os[g] # "alive"

\* While the row says RUNNING, whoever wants to stop a live CLI of the run can:
\* the map and the row both lead to that child.
LiveChildIsReachable ==
  \A g \in Spawns : os[g] = "alive" /\ row = "RUNNING" => mapped = g /\ rowPid = g

\* ARCHITECTURE.md: "A dead worker attached to CLAIMED/RUNNING is moved to
\* WAITING_MAIN, not replayed."  After Recovery gave the run up as lost, no CLI
\* of it is started any more.
LostIsNotReplayed == [][row = "LOST" => spawned' = spawned]_vars

\* Whatever wedges, fails to spawn or is killed: the caller gets an answer.
RunResolves == <>(output # "none")
=============================================================================

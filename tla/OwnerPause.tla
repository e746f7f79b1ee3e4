----------------------------- MODULE OwnerPause -----------------------------
(***************************************************************************)
(* The owner's pause against what the runtime does by itself: the sweep of *)
(* the dispatcher and its scoped calls, the worker's receive and the       *)
(* self-healing loop ask OwnerControl at their gates and then await.  A    *)
(* single-agent Task passes a second gate, a team Task does not.           *)
(***************************************************************************)
EXTENDS Naturals, FiniteSets, TaskStateMachine

CONSTANTS
  Singles,  \* Tasks with one agent
  Teams,    \* Tasks with a sequential team
  Scoped,   \* concurrent dispatchTask and redriveTask calls
  MaxPauses \* bound: times the owner pauses

Tasks == Singles \cup Teams
Sweep == "sweep"            \* Dispatcher.tick, one at a time
Drivers == Scoped \cup {Sweep}
None == "none"

VARIABLES
  stored,  \* runtime_state office:owner_control, None before the first command
  mode,    \* what OwnerControl.get answers in this process
  status,  \* status of each Task row
  todo,    \* Tasks the call of each driver has still to visit
  at,      \* the Task whose preflight each driver awaits
  sending, \* the Task whose assignment each driver awaits the publication of
  mail,    \* assignments on their way to a worker
  worker,  \* the worker call of each Task: none, gated past its gate, cli
  healing, \* a self-healing run is past its gate
  pauses,  \* history: pauses so far
  caught   \* history: what stood past its last gate when the pause came

vars == <<stored, mode, status, todo, at, sending, mail, worker, healing, pauses, caught>>

Nothing == [dispatch |-> {}, cli |-> {}, heal |-> FALSE]
Active == {"QUEUED", "DISPATCHED", "RUNNING", "WAITING_MAIN", "PASS"}

TypeOK ==
  /\ stored \in {None, "RUNNING", "PAUSED"} /\ mode \in {"RUNNING", "PAUSED"}
  /\ status \in [Tasks -> Active]
  /\ todo \in [Drivers -> SUBSET Tasks]
  /\ at \in [Drivers -> Tasks \cup {None}] /\ sending \in [Drivers -> Tasks \cup {None}]
  /\ mail \subseteq Tasks
  /\ worker \in [Tasks -> {None, "gated", "cli"}]
  /\ healing \in BOOLEAN /\ pauses \in 0 .. MaxPauses
  /\ caught \in [dispatch : SUBSET Singles, cli : SUBSET Tasks, heal : BOOLEAN]

Init ==
  /\ stored = None /\ mode = "RUNNING"
  /\ status = [t \in Tasks |-> "QUEUED"]
  /\ todo = [d \in Drivers |-> {}]
  /\ at = [d \in Drivers |-> None] /\ sending = [d \in Drivers |-> None]
  /\ mail = {} /\ worker = [t \in Tasks |-> None] /\ healing = FALSE
  /\ pauses = 0 /\ caught = Nothing

Paused == mode = "PAUSED"
Moves(t, to) == CanTransition(status[t], to) /\ status' = [status EXCEPT ![t] = to]

-----------------------------------------------------------------------------
\* The owner's commands, and the restart: get reads what set has stored.
Control(m) == stored' = m /\ mode' = m
Pause ==
  /\ ~Paused /\ pauses < MaxPauses /\ Control("PAUSED") /\ pauses' = pauses + 1
  /\ caught' = [dispatch |-> {at[d] : d \in Drivers} \cap Singles,
                cli |-> {t \in Tasks : worker[t] = "gated"},
                heal |-> healing]
  /\ UNCHANGED <<status, todo, at, sending, mail, worker, healing>>
Resume ==
  /\ Paused /\ Control("RUNNING") /\ caught' = Nothing
  /\ UNCHANGED <<status, todo, at, sending, mail, worker, healing, pauses>>

InMemory(row) == "RUNNING"
Recalled(row) == IF row = None THEN "RUNNING" ELSE row

Crash ==
  /\ mode' = Recalled(stored)
  /\ todo' = [d \in Drivers |-> {}]
  /\ at' = [d \in Drivers |-> None] /\ sending' = [d \in Drivers |-> None]
  /\ mail' = {} /\ worker' = [t \in Tasks |-> None] /\ healing' = FALSE
  /\ caught' = Nothing /\ UNCHANGED <<stored, status, pauses>>

-----------------------------------------------------------------------------
Free(d) == todo[d] = {} /\ at[d] = None /\ sending[d] = None
Starts(d, ts) == todo' = [todo EXCEPT ![d] = ts]

Tick ==
  /\ ~Paused /\ Free(Sweep) /\ Starts(Sweep, {t \in Tasks : status[t] = "QUEUED"})
  /\ UNCHANGED <<stored, mode, status, at, sending, mail, worker, healing, pauses, caught>>

\* dispatchTask visits one queued Task; redriveTask first requeues it.
Dispatch(d, t) ==
  /\ ~Paused /\ Free(d) /\ Starts(d, {t})
  /\ \/ status[t] = "QUEUED" /\ UNCHANGED status
     \/ status[t] = "DISPATCHED" /\ Moves(t, "QUEUED")
  /\ UNCHANGED <<stored, mode, at, sending, mail, worker, healing, pauses, caught>>

MayVisitAlways(t) == TRUE

\* The gate a single-agent Task meets again before its preflight.
MayVisit(t) == t \in Singles => ~Paused

Visit(d, t) ==
  /\ t \in todo[d] /\ at[d] = None /\ sending[d] = None
  /\ todo' = [todo EXCEPT ![d] = @ \ {t}]
  /\ at' = IF MayVisit(t) THEN [at EXCEPT ![d] = t] ELSE at
  /\ UNCHANGED <<stored, mode, status, sending, mail, worker, healing, pauses, caught>>

\* The preflight stops the Task, or it is dispatched and its message goes out.
\* A transition the state machine refuses ends the call of the driver.
Refused(d) ==
  /\ at[d] # None
  /\ \/ /\ Moves(at[d], "WAITING_MAIN") /\ UNCHANGED todo
     \/ /\ ~CanTransition(status[at[d]], "DISPATCHED") /\ UNCHANGED status
        /\ todo' = [todo EXCEPT ![d] = {}]
  /\ at' = [at EXCEPT ![d] = None]
  /\ UNCHANGED <<stored, mode, sending, mail, worker, healing, pauses, caught>>
Assigns(d) ==
  /\ at[d] # None /\ Moves(at[d], "DISPATCHED")
  /\ sending' = [sending EXCEPT ![d] = at[d]] /\ at' = [at EXCEPT ![d] = None]
  /\ UNCHANGED <<stored, mode, todo, mail, worker, healing, pauses, caught>>
Sent(d) ==
  /\ sending[d] # None
  /\ \/ mail' = mail \cup {sending[d]} /\ UNCHANGED status
     \/ Moves(sending[d], "WAITING_MAIN") /\ UNCHANGED mail
  /\ sending' = [sending EXCEPT ![d] = None]
  /\ UNCHANGED <<stored, mode, todo, at, worker, healing, pauses, caught>>

-----------------------------------------------------------------------------
\* The gate of receive, before anything is claimed.
Accepts == ~Paused

Receive(t) ==
  /\ t \in mail /\ mail' = mail \ {t}
  /\ IF Accepts /\ worker[t] = None /\ status[t] \in {"DISPATCHED", "RUNNING"}
       THEN /\ worker' = [worker EXCEPT ![t] = "gated"]
            /\ status' = [status EXCEPT ![t] = "RUNNING"]
     ELSE UNCHANGED <<worker, status>>
  /\ UNCHANGED <<stored, mode, todo, at, sending, healing, pauses, caught>>

\* The ACK is out and the context resolved: the adapter starts its CLI.
StartCli(t) ==
  /\ worker[t] = "gated" /\ worker' = [worker EXCEPT ![t] = "cli"]
  /\ UNCHANGED <<stored, mode, status, todo, at, sending, mail, healing, pauses, caught>>

\* The result is taken; one the fence finds stale changes nothing.
CliEnds(t) ==
  /\ worker[t] = "cli" /\ worker' = [worker EXCEPT ![t] = None]
  /\ \/ /\ status[t] = "RUNNING"
        /\ \E to \in {"PASS", "WAITING_MAIN"} : status' = [status EXCEPT ![t] = to]
     \/ status[t] # "RUNNING" /\ UNCHANGED status
  /\ UNCHANGED <<stored, mode, todo, at, sending, mail, healing, pauses, caught>>

-----------------------------------------------------------------------------
\* The gate of runOnce; recovery and watchdog of the run come after it.
Heals == ~Paused

HealStart ==
  /\ Heals /\ ~healing /\ healing' = TRUE
  /\ UNCHANGED <<stored, mode, status, todo, at, sending, mail, worker, pauses, caught>>
HealStops(t) ==
  /\ healing /\ status[t] = "RUNNING" /\ Moves(t, "WAITING_MAIN")
  /\ UNCHANGED <<stored, mode, todo, at, sending, mail, worker, healing, pauses, caught>>
HealEnd ==
  /\ healing /\ healing' = FALSE
  /\ UNCHANGED <<stored, mode, status, todo, at, sending, mail, worker, pauses, caught>>

\* CONTINUE_TASK of the local control is not refused under a pause.
Continue(t) ==
  /\ status[t] = "WAITING_MAIN" /\ worker[t] = None /\ Moves(t, "QUEUED")
  /\ UNCHANGED <<stored, mode, todo, at, sending, mail, worker, healing, pauses, caught>>

Next ==
  \/ Pause \/ Resume \/ Crash \/ Tick \/ HealStart \/ HealEnd
  \/ \E d \in Drivers, t \in Tasks : Visit(d, t)
  \/ \E d \in Scoped, t \in Tasks : Dispatch(d, t)
  \/ \E d \in Drivers : Refused(d) \/ Assigns(d) \/ Sent(d)
  \/ \E t \in Tasks : Receive(t) \/ StartCli(t) \/ CliEnds(t) \/ HealStops(t) \/ Continue(t)

Spec == Init /\ [][Next]_vars

-----------------------------------------------------------------------------
\* Under a pause nothing happens but what stood past its last gate when the
\* owner paused, and nothing at all after a restart: a CLI starts only for a
\* worker call that had accepted its message, a single-agent Task is dispatched
\* only when its preflight was under way, and only a healing run under way
\* stops a Task.
HoldsStill ==
  stored = "PAUSED" =>
      /\ \A t \in Tasks : StartCli(t) => t \in caught.cli
      /\ \A d \in Drivers : Assigns(d) /\ at[d] \in Singles => at[d] \in caught.dispatch
      /\ (\E t \in Tasks : HealStops(t)) => caught.heal
PauseHolds == [][HoldsStill]_vars
=============================================================================

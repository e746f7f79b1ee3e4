------------------------------ MODULE Workroom ------------------------------
(***************************************************************************)
(* The Discord thread of one Task: WorkroomManager, whose calls interleave *)
(* at every await on Discord, against people who delete, archive or close  *)
(* the thread, terminal recovery, and a process that dies between the      *)
(* creation of a thread and the row that names it.  getThread answers with *)
(* a snapshot of the moment it was asked, which is acted on later.         *)
(***************************************************************************)
EXTENDS Naturals

CONSTANTS
  Calls,  \* slots for calls that are under way, 1 .. n, taken in order
  Rooms   \* threads that may ever be created for the Task, 1 .. n

VARIABLES
  task,      \* status, whether its result says it was recovered, bound thread
  row,       \* the workrooms row: thread, state, thread its brief id is of
  room,      \* each thread, as Discord has it
  briefs,    \* bootstrap messages that stand in each thread
  call,      \* what each call waits for
  events,    \* threadDelete events on their way to the gateway
  abandoned  \* history: threads created whose binding was never written

vars == <<task, row, room, briefs, call, events, abandoned>>

\* PASS and CANCELLED are "closed"; COMPLETED is not, for the manager.
Statuses == {"active", "waiting", "completed", "closed"}
NoRoom == 0
Idle == [pc |-> "idle", kind |-> "none", t |-> NoRoom, seen |-> "unborn", rec |-> FALSE]
Pcs == {"idle", "looked", "reopen", "create", "created", "brief", "briefed",
        "archive"}
\* "late" is an ensure that found its Task closed.
Kinds == {"none", "ensure", "late", "sync", "reconcile"}
RoomStates == {"unborn", "open", "archived", "denied", "deleted"}

TypeOK ==
  /\ task \in [status : Statuses, rec : BOOLEAN, thread : Rooms \cup {NoRoom}]
  /\ row \in [thread : Rooms \cup {NoRoom}, brief : Rooms \cup {NoRoom},
              state : {"none", "ACTIVE", "ARCHIVED", "MISSING", "ACCESS_DENIED"}]
  /\ room \in [Rooms -> RoomStates] /\ briefs \in [Rooms -> Nat]
  /\ call \in [Calls -> [pc : Pcs, kind : Kinds, t : Rooms \cup {NoRoom},
                         seen : RoomStates, rec : BOOLEAN]]
  /\ events \subseteq Rooms /\ abandoned \subseteq Rooms

Init ==
  /\ task = [status |-> "active", rec |-> FALSE, thread |-> NoRoom]
  /\ row = [thread |-> NoRoom, state |-> "none", brief |-> NoRoom]
  /\ room = [t \in Rooms |-> "unborn"] /\ briefs = [t \in Rooms |-> 0]
  /\ call = [c \in Calls |-> Idle]
  /\ events = {} /\ abandoned = {}

-----------------------------------------------------------------------------
PendingEnsureIgnored == {}

\* `pending`: an ensure under way is joined, not repeated.
PendingEnsure == {c \in Calls : call[c].pc # "idle" /\ call[c].kind \in {"ensure", "late"}}

\* isTerminalRecovery, of the Task as the call read it.
Recovered(tk) == tk.status # "closed" /\ tk.rec

\* clearMissingThreadBindingForRecovery.
Detached(tk, t) ==
  IF tk.thread = t /\ tk.status # "closed" THEN [tk EXCEPT !.thread = NoRoom] ELSE tk

\* recordMissing keeps the row's thread; persist overwrites it.
MarkedMissing(t) ==
  IF row.state = "none" THEN [thread |-> t, state |-> "MISSING", brief |-> NoRoom]
  ELSE [row EXCEPT !.state = "MISSING"]
Persisted(t, state) == [row EXCEPT !.thread = t, !.state = state]

Done(c) == call' = [call EXCEPT ![c] = Idle]
\* The snapshot a call went by is forgotten once it was acted on.
Await(c, pc) ==
  call' = [call EXCEPT ![c].pc = pc, ![c].seen = "unborn", ![c].rec = FALSE]

KnownRoomOfTask(tk, rw) == tk.thread

\* The thread ensureOnce goes by: the binding, or else the row of a Task that
\* was not recovered.
KnownRoom(tk, rw) ==
  IF tk.thread # NoRoom THEN tk.thread
  ELSE IF Recovered(tk) THEN NoRoom ELSE rw.thread

\* ensureOnce and syncTaskState up to the first await.
Entered(as, tk, rw) ==
  LET kind == IF as = "ensure" /\ tk.status = "closed" THEN "late" ELSE as
      t == IF kind = "ensure" THEN KnownRoom(tk, rw) ELSE tk.thread
  IN  IF t = NoRoom /\ kind # "ensure" THEN Idle
      ELSE [pc |-> IF t = NoRoom THEN "create" ELSE "looked", kind |-> kind,
            t |-> t, seen |-> IF t = NoRoom THEN "unborn" ELSE room[t], rec |-> Recovered(tk)]

\* ensure, by the scheduler, a command, a threadUpdate event; syncTaskState of a
\* closed Task; one Task of reconcileActive at start.
Begin(c, kind) ==
  /\ call[c] = Idle /\ \A d \in Calls : d < c => call[d] # Idle
  /\ kind = "ensure" => PendingEnsure = {}
  /\ kind = "sync" => task.status = "closed"
  /\ kind = "reconcile" => task.status \in {"active", "waiting"}
  /\ call' = [call EXCEPT ![c] = Entered(kind, task, row)]
  /\ UNCHANGED <<task, row, room, briefs, events, abandoned>>

\* The thread is gone.  A recovered Task gets another; any other Task fails the
\* call and, at start, is left to Main.
Gone(c) ==
  LET t == call[c].t  tk == Detached(task, t) IN
  /\ call[c].pc = "looked" /\ call[c].seen = "deleted"
  /\ row' = MarkedMissing(t)
  /\ IF call[c].rec /\ call[c].kind = "ensure"
       THEN task' = tk /\ call' = [call EXCEPT ![c] = Entered("ensure", tk, row')]
     ELSE /\ Done(c)
          /\ task' = IF call[c].kind = "reconcile" /\ task.status = "active"
                       THEN [task EXCEPT !.status = "waiting", !.rec = FALSE] ELSE task
  /\ UNCHANGED <<room, briefs, events, abandoned>>

\* reconcileActive goes on to ensure, unless there is nothing it may replace.
GoesOn(c) ==
  /\ call[c].pc = "looked" /\ call[c].kind = "reconcile"
  /\ call[c].seen # "deleted" \/ call[c].rec
  /\ IF PendingEnsure # {} THEN Done(c)
     ELSE call' = [call EXCEPT ![c] = Entered("ensure", task, row)]
  /\ UNCHANGED <<task, row, room, briefs, events, abandoned>>

ClosedAtEntry(c) == call[c].kind \in {"sync", "late"}
Ensures(c) == call[c].kind = "ensure"

\* The room is there: an ensure takes it into use, if need be from the archive.
Take(c, t) ==
  /\ task' = [task EXCEPT !.thread = t] /\ row' = Persisted(t, "ACTIVE")
Usable(c) ==
  /\ call[c].pc = "looked" /\ Ensures(c) /\ call[c].seen = "open"
  /\ Take(c, call[c].t) /\ Done(c)
  /\ UNCHANGED <<room, briefs, events, abandoned>>
Denied(c) ==
  /\ call[c].pc = "looked" /\ Ensures(c) /\ call[c].seen = "denied"
  /\ row' = Persisted(call[c].t, "ACCESS_DENIED") /\ Done(c)
  /\ UNCHANGED <<task, room, briefs, events, abandoned>>
Archived(c) ==
  /\ call[c].pc = "looked" /\ Ensures(c) /\ call[c].seen = "archived"
  /\ Await(c, "reopen")
  /\ UNCHANGED <<task, row, room, briefs, events, abandoned>>
Reopened(c) ==
  LET t == call[c].t IN
  /\ call[c].pc = "reopen" /\ room[t] \in {"open", "archived"}
  /\ room' = [room EXCEPT ![t] = "open"]
  /\ Take(c, t) /\ Done(c)
  /\ UNCHANGED <<briefs, events, abandoned>>

\* A new thread, then its rows, then its brief.
Create(c) ==
  /\ call[c].pc = "create"
  /\ \E t \in Rooms, s \in {"open", "denied"} :
       /\ room[t] = "unborn" /\ \A u \in Rooms : u < t => room[u] # "unborn"
       /\ room' = [room EXCEPT ![t] = s]
       /\ call' = [call EXCEPT ![c].pc = "created", ![c].t = t, ![c].seen = s,
                            ![c].rec = FALSE]
       /\ abandoned' = abandoned \cup {t}
  /\ UNCHANGED <<task, row, briefs, events>>
Bind(c) ==
  LET t == call[c].t IN
  /\ call[c].pc = "created" /\ call[c].seen = "open"
  /\ Take(c, t) /\ Await(c, "brief") /\ abandoned' = abandoned \ {t}
  /\ UNCHANGED <<room, briefs, events>>
Refused(c) ==
  /\ call[c].pc = "created" /\ call[c].seen = "denied"
  /\ row' = Persisted(call[c].t, "ACCESS_DENIED") /\ Done(c)
  /\ UNCHANGED <<task, room, briefs, events, abandoned>>
Brief(c) ==
  LET t == call[c].t IN
  /\ call[c].pc = "brief" /\ room[t] \notin {"deleted", "denied"}
  /\ briefs' = [briefs EXCEPT ![t] = @ + 1] /\ Await(c, "briefed")
  /\ UNCHANGED <<task, row, room, events, abandoned>>
Briefed(c) ==
  /\ call[c].pc = "briefed"
  /\ row' = [row EXCEPT !.brief = call[c].t] /\ Done(c)
  /\ UNCHANGED <<task, room, briefs, events, abandoned>>

\* A closed Task archives its room.
Archive(c) ==
  /\ call[c].pc = "looked" /\ ClosedAtEntry(c) /\ call[c].seen # "deleted"
  /\ IF call[c].seen = "archived" THEN row' = Persisted(call[c].t, "ARCHIVED") /\ Done(c)
     ELSE UNCHANGED row /\ Await(c, "archive")
  /\ UNCHANGED <<task, room, briefs, events, abandoned>>
ArchiveDone(c) ==
  LET t == call[c].t IN
  /\ call[c].pc = "archive"
  /\ \/ /\ room[t] \in {"open", "archived"} /\ room' = [room EXCEPT ![t] = "archived"]
        /\ row' = Persisted(t, "ARCHIVED")
     \/ room' = room /\ row' = Persisted(t, "ACTIVE")
  /\ Done(c)
  /\ UNCHANGED <<task, briefs, events, abandoned>>

\* The request to Discord rejects.
Rejects(c) ==
  /\ call[c].pc \in {"looked", "reopen", "create", "brief"} /\ Done(c)
  /\ UNCHANGED <<task, row, room, briefs, events, abandoned>>

-----------------------------------------------------------------------------
\* People, Discord, and the rest of the Runtime.
Happens(t) ==
  \/ /\ room[t] \in {"open", "archived"} /\ room' = [room EXCEPT ![t] = "deleted"]
     /\ events' = events \cup {t}
  \/ /\ room[t] = "open" /\ room' = [room EXCEPT ![t] = "archived"]
     /\ UNCHANGED events

Environment ==
  /\ \E t \in Rooms : Happens(t)
  /\ UNCHANGED <<task, row, briefs, call, abandoned>>

\* markDeleted.
MarkDeleted(t) ==
  /\ t \in events /\ events' = events \ {t}
  /\ IF row.thread = t
       THEN /\ row' = MarkedMissing(t)
            /\ task' = IF task.status = "active"
                         THEN [task EXCEPT !.status = "waiting", !.rec = FALSE] ELSE task
     ELSE UNCHANGED <<row, task>>
  /\ UNCHANGED <<room, briefs, call, abandoned>>

\* The Task is closed, completed, stopped, continued, or recovered from CANCELLED.
Moves ==
  /\ \/ \E s \in Statuses :
          task.status \in {"active", "waiting"} /\ task' = [task EXCEPT !.status = s]
     \/ task.status = "closed" /\ task' = [task EXCEPT !.status = "active", !.rec = TRUE]
  /\ UNCHANGED <<row, room, briefs, call, events, abandoned>>

Crash ==
  /\ call' = [c \in Calls |-> Idle] /\ events' = {}
  /\ UNCHANGED <<task, row, room, briefs, abandoned>>

CallStep(c) ==
  \/ \E kind \in {"ensure", "sync", "reconcile"} : Begin(c, kind)
  \/ Gone(c) \/ GoesOn(c) \/ Usable(c) \/ Denied(c) \/ Archived(c)
  \/ Reopened(c) \/ Create(c) \/ Bind(c) \/ Refused(c) \/ Brief(c) \/ Briefed(c)
  \/ Archive(c) \/ ArchiveDone(c) \/ Rejects(c)

Next ==
  \/ \E c \in Calls : CallStep(c)
  \/ \E t \in Rooms : MarkDeleted(t)
  \/ Environment \/ Moves \/ Crash

Spec == Init /\ [][Next]_vars

-----------------------------------------------------------------------------
\* "automatic replacement was not created": a thread is only ever created when
\* the Task has no other, and in the place of one that was deleted only for a
\* Task that was recovered; and no thread is briefed twice, whoever asked for
\* it and however often.  Threads whose creation was cut short do not count:
\* nothing the program keeps knows of them.
ReplacesNothing ==
  \A t \in Rooms :
    /\ briefs'[t] <= 1
    /\ room[t] = "unborn" /\ room'[t] # "unborn" =>
         \A u \in Rooms : room[u] # "unborn" =>
           \/ u \in abandoned
           \/ room[u] = "deleted" /\ \E c \in Calls : call[c].pc = "create" /\ call[c].rec
NoReplacement == [][ReplacesNothing]_vars
=============================================================================

----------------------------- MODULE RunBudget -----------------------------
(***************************************************************************)
(* RunBudgetController for one Task: runs with a wall clock and a          *)
(* no-progress clock, the signals evaluate credits as progress, expiry,    *)
(* and rearm, which alone follows an exhausted run with a new one.  All of *)
(* evaluate is synchronous and so one step; the Worker, its process and    *)
(* the owner act between two evaluations.  Times are instants of one       *)
(* clock, 0 stands for "never", and a digest of the worktree is a name.    *)
(***************************************************************************)
EXTENDS Naturals, Sequences, FiniteSets

CONSTANTS
  Wall, NoProgress,  \* bounds on budgetDurationMs and noProgressBudgetMs
  Activities,        \* tool calls the process log may show
  Validations,       \* those that run a declared validation command
  Digests,           \* contents of the worktree
  Requests,          \* ids of rearm requests
  LastTime,          \* bound on the clock
  MaxProcesses       \* bound on recorded processes

ASSUME BudgetAssumption ==
  /\ Wall \in Nat \ {0} /\ NoProgress \in Nat \ {0}
  /\ Validations \subseteq Activities
  /\ "unset" \notin Digests /\ Digests # {}
  /\ LastTime \in Nat \ {0} /\ MaxProcesses \in Nat

VARIABLES
  now,
  runs,      \* the RunBudgetStates in order; the last is the Task's own
  answered,  \* the run each rearm request was answered with, 0 if none
  proc,      \* the newest worker_processes row of the Task
  owned,     \* ... has the Task's assigned agent and attempt
  heartbeats,\* the Task's Role is neither REVIEWER nor QA
  log,       \* when its log shows each tool call last
  lastCall,  \* ... and which is the last of all
  event,     \* created_at of the newest meaningful protocol event
  tree,      \* digest of the worktree
  sighted,   \* history: processes the run has evaluated while RUNNING
  credits,   \* history: how often tool activity moved the run's clock
  dropped    \* history: the newest process ended without a RESULT, or its
             \* Role was taken from it while it ran

vars == <<now, runs, answered, proc, owned, heartbeats, log, lastCall, event, tree, sighted,
          credits, dropped>>
worker == <<owned, heartbeats, log, lastCall, event, tree, dropped>>

Times == 0 .. LastTime
Fingerprint(kind, id, what, at) == [kind |-> kind, id |-> id, what |-> what, at |-> at]

NewRun(wall, quiet) ==
  [started |-> now, deadline |-> now + wall, quiet |-> quiet, last |-> now,
   fp |-> Fingerprint("START", 0, "", 0), status |-> "ACTIVE", by |-> "none",
   diff |-> "unset", diffAt |-> 0, seen |-> {}, actAt |-> 0, act |-> ""]

Run == runs[Len(runs)]
NoCalls == [a \in Activities |-> 0]

TypeOK ==
  /\ now \in Times /\ event \in Times
  /\ \A i \in DOMAIN runs :
       /\ runs[i].started \in Times /\ runs[i].last \in runs[i].started .. now
       /\ runs[i].status = "ACTIVE" <=> runs[i].by = "none"
       /\ runs[i].diff \in Digests \cup {"unset"}
       /\ runs[i].seen \subseteq (1 .. MaxProcesses) \X Activities
       /\ runs[i].diffAt \in Times /\ runs[i].actAt \in Times
  /\ answered \in [Requests -> 0 .. Len(runs)]
  /\ proc.id \in 0 .. MaxProcesses
  /\ proc.status \in {"none", "RUNNING", "ENDED"}
  /\ proc.started \in Times /\ proc.seen \in proc.started .. now
  /\ log \in [Activities -> Times] /\ lastCall \in Activities \cup {""}
  /\ tree \in Digests /\ sighted \subseteq 1 .. MaxProcesses
  /\ owned \in BOOLEAN /\ heartbeats \in BOOLEAN /\ dropped \in BOOLEAN
  /\ credits \in Nat

\* start; the digest of what the worktree holds is as good a name as another.
Init ==
  /\ now = 1 /\ runs = <<NewRun(Wall, NoProgress)>> /\ answered = [q \in Requests |-> 0]
  /\ proc = [id |-> 0, status |-> "none", started |-> 0, seen |-> 0]
  /\ owned = FALSE /\ heartbeats \in BOOLEAN /\ log = NoCalls /\ lastCall = ""
  /\ event = 0 /\ tree = CHOOSE d \in Digests : TRUE
  /\ sighted = {} /\ credits = 0 /\ dropped = FALSE

-----------------------------------------------------------------------------
Running == proc.status = "RUNNING"
Owned == Running /\ owned

ForgetsTheTime(r) ==
  [r EXCEPT !.diff = IF Running THEN tree ELSE @,
            !.diffAt = IF Running /\ r.diff \notin {"unset", tree} THEN now ELSE 0]

\* The worktree of a RUNNING process: the first digest is a baseline, a change
\* from the digest seen last is progress, and its time is kept.
WithDiff(r) ==
  IF ~Running \/ r.diff = tree THEN r
  ELSE [r EXCEPT !.diff = tree, !.diffAt = IF r.diff = "unset" THEN @ ELSE now]

\* The tool calls of the log that fall into the run.
Logged(r) == {a \in Activities : log[a] >= r.started}
Latest(A) == CHOOSE a \in A : \A b \in A : log[b] <= log[a]

CreditsEveryCall(r) ==
  LET calls == Logged(r)
  IN  IF ~Owned \/ calls = {} THEN r
      ELSE [r EXCEPT !.seen = @ \cup ({proc.id} \X calls),
                     !.actAt = log[Latest(calls)], !.act = Latest(calls)]

\* Tool calls not credited before, the newest of which is progress.
WithActivity(r) ==
  LET fresh == {a \in Logged(r) : <<proc.id, a>> \notin r.seen}
  IN  IF ~Owned \/ fresh = {} THEN r
      ELSE [r EXCEPT !.seen = @ \cup ({proc.id} \X fresh),
                     !.actAt = log[Latest(fresh)], !.act = Latest(fresh)]

\* The latest call is a declared validation command: silence is not a stall.
ValidationInFlight(r) == Owned /\ lastCall \in Logged(r) \cap Validations

\* The signals, ranked in the order that breaks ties.
Signals(r) ==
  { [rank |-> 1, at |-> event, fp |-> Fingerprint("EVENT", 0, "", event)],
    [rank |-> 2, at |-> proc.started, fp |-> Fingerprint("PROCESS_START", proc.id, "", 0)],
    [rank |-> 3, at |-> IF Running /\ heartbeats THEN proc.seen ELSE 0,
     fp |-> Fingerprint("PROCESS_HEARTBEAT", proc.id, "", proc.seen)],
    [rank |-> 4, at |-> r.diffAt, fp |-> Fingerprint("PRODUCT_DIFF", proc.id, r.diff, 0)],
    [rank |-> 5, at |-> r.actAt, fp |-> Fingerprint("ACTIVITY", 0, r.act, r.actAt)] }

Newer(c, d) == c.at > d.at \/ (c.at = d.at /\ c.rank <= d.rank)
Newest(r) == CHOOSE c \in Signals(r) : \A d \in Signals(r) : Newer(c, d)

CreditsOlder(r) ==
  LET c == Newest(r)
  IN  IF c.fp = r.fp \/ c.at = 0 THEN r
      ELSE [r EXCEPT !.last = c.at, !.fp = c.fp]

\* The newest signal moves the clock, unless it is the one credited last.
Credited(r) ==
  LET c == Newest(r)
  IN  IF c.fp = r.fp \/ c.at < r.started THEN r
      ELSE [r EXCEPT !.last = c.at, !.fp = c.fp]

GraceBeforeDeadline(r) ==
  IF ValidationInFlight(r) THEN "none"
  ELSE IF now >= r.deadline THEN "WALL_CLOCK"
  ELSE IF now - r.last >= r.quiet THEN "NO_PROGRESS" ELSE "none"

\* What the run expires by, if it does.
ExpiredBy(r) ==
  IF now >= r.deadline THEN "WALL_CLOCK"
  ELSE IF now - r.last >= r.quiet /\ ~ValidationInFlight(r) THEN "NO_PROGRESS"
  ELSE "none"

-----------------------------------------------------------------------------
\* evaluate, and expire with its attempt to terminate the process.
Evaluate ==
  /\ Run.status = "ACTIVE"
  /\ \E heard \in {WithActivity(WithDiff(Run))} :
       \E r \in {Credited(heard)} :
         /\ runs' = [runs EXCEPT ![Len(runs)] =
                       [r EXCEPT !.by = ExpiredBy(r), !.status =
                          IF ExpiredBy(r) = "none" THEN "ACTIVE" ELSE "EXHAUSTED"]]
         /\ \/ proc' = proc
            \/ /\ Running /\ ExpiredBy(r) # "none"
               /\ proc' = [proc EXCEPT !.status = "ENDED"]
         /\ credits' = IF r.actAt # Run.actAt THEN credits + 1 ELSE credits
  /\ sighted' = IF Running THEN sighted \cup {proc.id} ELSE sighted
  /\ UNCHANGED <<now, answered, worker>>

AnyExhaustedRun(p) == p \in DOMAIN runs /\ runs[p].status = "EXHAUSTED"

\* The run a rearm request names must be the Task's own, and exhausted.
Rearmable(p) == p = Len(runs) /\ Run.status = "EXHAUSTED"

\* rearm, with budgets of its own; a request answered before gets its run again
\* and changes nothing.
Rearm(q, p) ==
  /\ answered[q] = 0 /\ Rearmable(p)
  /\ \E wall \in 1 .. Wall, quiet \in 1 .. NoProgress :
       /\ now + wall <= LastTime
       /\ runs' = Append(runs, NewRun(wall, quiet))
  /\ answered' = [answered EXCEPT ![q] = Len(runs) + 1]
  /\ sighted' = {} /\ credits' = 0
  /\ UNCHANGED <<now, proc, worker>>

-----------------------------------------------------------------------------
\* The Worker runs its next command; the one before may just have exited.
StartProcess ==
  /\ proc.id < MaxProcesses
  /\ proc' = [id |-> proc.id + 1, status |-> "RUNNING", started |-> now, seen |-> now]
  /\ owned' = TRUE /\ log' = NoCalls /\ lastCall' = "" /\ dropped' = FALSE
  /\ UNCHANGED <<now, runs, answered, heartbeats, event, tree, sighted, credits>>

\* Output of the process: prose, or a tool call.
Output ==
  /\ Running
  /\ proc' = [proc EXCEPT !.seen = now]
  /\ \/ UNCHANGED <<log, lastCall>>
     \/ \E a \in Activities : log' = [log EXCEPT ![a] = now] /\ lastCall' = a
  /\ UNCHANGED <<now, runs, answered, owned, heartbeats, event, tree, sighted,
                  credits, dropped>>

\* From the exit of the CLI to the row of its RESULT no other callback runs.
ExitWithResult ==
  /\ Running
  /\ proc' = [proc EXCEPT !.status = "ENDED"] /\ event' = now
  /\ UNCHANGED <<now, runs, answered, owned, heartbeats, log, lastCall, tree,
                  sighted, credits, dropped>>

\* ... unless the result was stale, or Recovery found the process gone.
EndUnreported ==
  /\ Running
  /\ proc' = [proc EXCEPT !.status = "ENDED"] /\ dropped' = TRUE
  /\ UNCHANGED <<now, runs, answered, owned, heartbeats, log, lastCall, event,
                  tree, sighted, credits>>

\* Other meaningful events, edits of the worktree by anyone, and a Task that
\* moves on to another agent or attempt.
Emit ==
  /\ event' = now
  /\ UNCHANGED <<now, runs, answered, proc, owned, heartbeats, log, lastCall, tree,
                  sighted, credits, dropped>>
Edit ==
  /\ tree' \in Digests \ {tree}
  /\ UNCHANGED <<now, runs, answered, proc, owned, heartbeats, log, lastCall,
                  event, sighted, credits, dropped>>
Reassign ==
  /\ owned /\ owned' = FALSE
  /\ heartbeats' \in BOOLEAN
  /\ dropped' = (dropped \/ Running)
  /\ UNCHANGED <<now, runs, answered, proc, log, lastCall, event, tree, sighted,
                  credits>>

Tick ==
  /\ now < LastTime /\ now' = now + 1
  /\ UNCHANGED <<runs, answered, proc, worker, sighted, credits>>

Next ==
  \/ Evaluate \/ Tick
  \/ \E q \in Requests, p \in DOMAIN runs : Rearm(q, p)
  \/ StartProcess \/ Output \/ ExitWithResult \/ EndUnreported
  \/ Emit \/ Edit \/ Reassign

\* Time passes, and the self-healing timer evaluates a watched Task.
Spec == Init /\ [][Next]_vars /\ WF_vars(Tick) /\ WF_vars(Evaluate)

-----------------------------------------------------------------------------
\* Progress once credited stands: no later evaluation moves the clock of a run
\* back, so that it would expire over work it had accepted, except where the
\* process it heard from ended without a RESULT or lost its Role while it ran.
CreditedProgressStands ==
  [][Len(runs') = Len(runs) => Run'.last >= Run.last \/ dropped]_vars

\* Repeating a tool call buys a run no time: its clock is moved by activity at
\* most once for every different call.
ReplayBuysNothing == credits <= Cardinality(Run.seen)

\* The first observation of a running process "only establishes a baseline -- it
\* must never itself count as progress, or a worktree that already carried
\* uncommitted changes before this process even started would manufacture a free
\* refresh" (runBudget.ts).
FirstSightIsBaseline ==
  [][Len(runs') = Len(runs) /\ Run'.diffAt # Run.diffAt => proc.id \in sighted]_vars

\* An exhausted run stays as it is, and only the newest run is ever active,
\* whatever rearm requests are repeated or compete.
ExhaustedForGood ==
  [][\A i \in DOMAIN runs :
       /\ runs[i].status = "EXHAUSTED" => runs'[i] = runs[i]
       /\ i < Len(runs') => runs'[i].status = "EXHAUSTED"]_vars

\* Every run ends, however busy its Worker is or says it is.
RunEnds == [](Run.status = "ACTIVE" => <>(runs[Len(runs)].status = "EXHAUSTED"))
=============================================================================
